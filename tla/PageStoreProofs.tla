-------------------------- MODULE PageStoreProofs --------------------------
(* Safety of the page store for any number of pages, sizes, clips and draw *)
(* calls.                                                                  *)
EXTENDS PageStore, SequenceTheorems, TLAPS

GoodPage == {p \in Page : PageOK(p)}

----------------------------------------------------------------------------
(* Pages.                                                                  *)

LEMMA LastOf ==
    ASSUME NEW S, NEW q \in Seq(S), q # <<>>
    PROVE  Last(q) = q[Len(q)] /\ Len(q) \in 1..Len(q) /\ Last(q) \in S
  BY DEF Last

(* Replacing one field of a page.                                          *)
LEMMA WithSize ==
    ASSUME NEW p \in Page, NEW z \in Size
    PROVE  LET q == [p EXCEPT !.size = z] IN
             q \in Page /\ q.id = p.id /\ q.size = z /\ q.dcs = p.dcs /\ q.cps = p.cps
  BY DEF Page

LEMMA WithDrawCalls ==
    ASSUME NEW p \in Page, NEW a \in Seq(DrawCall)
    PROVE  LET q == [p EXCEPT !.dcs = a] IN
             q \in Page /\ q.id = p.id /\ q.size = p.size /\ q.dcs = a /\ q.cps = p.cps
  BY DEF Page

LEMMA WithClips ==
    ASSUME NEW p \in Page, NEW b \in Seq(Clip)
    PROVE  LET q == [p EXCEPT !.cps = b] IN
             q \in Page /\ q.id = p.id /\ q.size = p.size /\ q.dcs = p.dcs /\ q.cps = b
  BY DEF Page

(* The first clip of a page without clips becomes clip 0.                  *)
LEMMA FirstClip ==
    ASSUME NEW p \in Page, p.cps = <<>>, p.dcs = <<>>
    PROVE  WithClip(p, Full(p.size)) \in GoodPage
  <1> DEFINE c == [id |-> 0, rect |-> Full(p.size)]
  <1>1. WithClip(p, Full(p.size)) = [p EXCEPT !.cps = <<c>>]
    BY DEF WithClip, Page
  <1>2. c \in Clip /\ <<c>> \in Seq(Clip)
    BY DEF Clip, Page
  <1>3. [p EXCEPT !.cps = <<c>>] \in Page
    BY <1>2 DEF Page
  <1>4. PageOK([p EXCEPT !.cps = <<c>>])
    BY DEF PageOK, Page
  <1> QED
    BY <1>1, <1>3, <1>4 DEF GoodPage

LEMMA WithClipGood ==
    ASSUME NEW p \in GoodPage, NEW rect \in Rect
    PROVE  WithClip(p, rect) \in GoodPage /\ WithClip(p, rect).id = p.id
  <1> DEFINE c == [id |-> Len(p.cps), rect |-> rect]
             q == [p EXCEPT !.cps = Append(p.cps, c)]
  <1>1. p \in Page /\ PageOK(p) /\ p.cps \in Seq(Clip) /\ p.dcs \in Seq(DrawCall)
    BY DEF GoodPage, Page
  <1>2. c \in Clip
    BY <1>1 DEF Clip
  <1>3. /\ Append(p.cps, c) \in Seq(Clip)
        /\ Len(Append(p.cps, c)) = Len(p.cps) + 1
        /\ \A n \in 1..Len(p.cps) : Append(p.cps, c)[n] = p.cps[n]
        /\ Append(p.cps, c)[Len(p.cps) + 1] = c
    BY <1>1, <1>2, AppendProperties
  <1>4. q \in Page /\ q.cps = Append(p.cps, c) /\ q.dcs = p.dcs /\ q.size = p.size
    BY <1>1, <1>3 DEF Page
  <1>5. Len(p.cps) \in Nat /\ Len(p.cps) > 0
    BY <1>1 DEF PageOK
  <1>6. PageOK(q)
    <2> DEFINE m == Len(p.cps)
    <2>1. q.cps # <<>> /\ Len(q.cps) = m + 1
      BY <1>3, <1>4, <1>5
    <2>2. q.cps[1].rect = Full(q.size)
      <3>1. q.cps[1] = p.cps[1]
        BY <1>3, <1>4, <1>5
      <3> QED
        BY <1>1, <1>4, <3>1 DEF PageOK
    <2>3. \A n \in 1..(m + 1) : q.cps[n].id = n - 1
      <3>1. c.id = m
        OBVIOUS
      <3> QED
        BY <1>1, <1>3, <1>4, <1>5, <3>1 DEF PageOK
    <2>4. \A n \in 1..Len(q.dcs) : q.dcs[n].clip \in 0..m
      BY <1>1, <1>4, <1>5 DEF PageOK, Page, DrawCall
    <2> QED
      BY <1>5, <2>1, <2>2, <2>3, <2>4 DEF PageOK
  <1>7. WithClip(p, rect) = p \/ WithClip(p, rect) = q
    BY DEF WithClip
  <1>8. q.id = p.id
    BY <1>1 DEF Page
  <1> QED
    BY <1>1, <1>4, <1>6, <1>7, <1>8 DEF GoodPage

LEMMA ClearedGood ==
    ASSUME NEW p \in Page
    PROVE  Cleared(p) \in GoodPage /\ Cleared(p).id = p.id
  <1> DEFINE d == [p EXCEPT !.dcs = <<>>]
             e == [d EXCEPT !.cps = <<>>]
  <1>0. <<>> \in Seq(DrawCall) /\ <<>> \in Seq(Clip)
    OBVIOUS
  <1>1. d \in Page /\ d.dcs = <<>> /\ d.size = p.size /\ d.id = p.id
    BY <1>0, WithDrawCalls, Zenon
  <1> HIDE DEF d
  <1>2. e \in Page /\ e.cps = <<>> /\ e.dcs = d.dcs /\ e.size = d.size /\ e.id = d.id
    BY <1>0, <1>1, WithClips, Zenon
  <1> HIDE DEF e
  <1>3. Cleared(p) = WithClip(e, Full(e.size))
    BY <1>1, <1>2 DEF Cleared, d, e
  <1>4. Cleared(p).id = p.id
    BY <1>1, <1>2, <1>3 DEF WithClip, Page
  <1> QED
    BY <1>1, <1>2, <1>3, <1>4, FirstClip

LEMMA NewPageGood ==
    ASSUME NEW id \in Nat, NEW z \in Size
    PROVE  NewPage(id, z) \in GoodPage /\ NewPage(id, z).id = id
  <1> DEFINE e == [id |-> id, size |-> z, dcs |-> <<>>, cps |-> <<>>]
  <1>1. e \in Page /\ e.cps = <<>> /\ e.dcs = <<>> /\ e.size = z
    BY DEF Page
  <1>2. NewPage(id, z) = WithClip(e, Full(z))
    BY DEF NewPage
  <1>3. WithClip(e, Full(z)).id = id
    BY DEF WithClip
  <1> QED
    BY <1>1, <1>2, <1>3, FirstClip

LEMMA WithDcsGood ==
    ASSUME NEW p \in GoodPage, NEW op \in Op
    PROVE  WithDcs(p, <<op>>) \in GoodPage /\ WithDcs(p, <<op>>).id = p.id
  <1> DEFINE clip == Last(p.cps).id
             new == [n \in 1..Len(<<op>>) |-> [op |-> <<op>>[n], clip |-> clip]]
             q == [p EXCEPT !.dcs = p.dcs \o new]
  <1>1. p \in Page /\ PageOK(p) /\ p.cps \in Seq(Clip) /\ p.dcs \in Seq(DrawCall)
    BY DEF GoodPage, Page
  <1>2. clip = Len(p.cps) - 1 /\ clip \in 0..(Len(p.cps) - 1)
    BY <1>1, LastOf DEF PageOK
  <1>3. new \in Seq(DrawCall) /\ Len(new) = 1 /\ new[1].clip = clip
    <2>1. Len(<<op>>) = 1 /\ <<op>>[1] = op
      OBVIOUS
    <2>2. new = <<[op |-> op, clip |-> clip]>>
      BY <2>1
    <2>3. [op |-> op, clip |-> clip] \in DrawCall
      BY <1>2 DEF DrawCall
    <2> QED
      BY <2>2, <2>3
  <1>4. /\ p.dcs \o new \in Seq(DrawCall)
        /\ Len(p.dcs \o new) = Len(p.dcs) + 1
        /\ \A n \in 1..(Len(p.dcs) + 1) :
             (p.dcs \o new)[n] = IF n <= Len(p.dcs) THEN p.dcs[n] ELSE new[n - Len(p.dcs)]
    BY <1>1, <1>3, ConcatProperties, Z3
  <1>5. /\ q \in Page /\ q.dcs = p.dcs \o new /\ q.cps = p.cps
        /\ q.size = p.size /\ q.id = p.id
    BY <1>1, <1>4 DEF Page
  <1>6. Len(p.dcs) \in Nat
    BY <1>1
  <1>7. PageOK(q)
    BY <1>1, <1>2, <1>3, <1>4, <1>5, <1>6 DEF PageOK
  <1>8. WithDcs(p, <<op>>) = q
    BY DEF WithDcs
  <1> QED
    BY <1>5, <1>7, <1>8 DEF GoodPage

----------------------------------------------------------------------------
(* Stores.                                                                 *)

StoreType == [pages : Seq(Page), idCounter : 0..MaxId, upid : 0..MaxUpid,
              active : BOOLEAN]
AllOK(pages) == \A n \in 1..Len(pages) : PageOK(pages[n])
GoodStore == {s \in StoreType : AllOK(s.pages)}

(* The same plots in the same order.                                       *)
SameIds(a, b) == Len(a) = Len(b) /\ \A n \in 1..Len(a) : b[n].id = a[n].id

(* upid after an operation that may be silent.                             *)
MayTouch(u, v) == v = u \/ v = IncWrap(u, MaxUpid)

LEMMA ReplacePage ==
    ASSUME NEW a \in Seq(Page), AllOK(a), NEW n \in 1..Len(a),
           NEW q \in GoodPage, q.id = a[n].id
    PROVE  LET b == [a EXCEPT ![n] = q] IN b \in Seq(Page) /\ AllOK(b) /\ SameIds(a, b)
  <1> DEFINE b == [a EXCEPT ![n] = q]
  <1>1. q \in Page /\ PageOK(q)
    BY DEF GoodPage
  <1>2. b \in Seq(Page) /\ Len(b) = Len(a)
    BY <1>1
  <1>3. \A m \in 1..Len(a) : b[m] = IF m = n THEN q ELSE a[m]
    OBVIOUS
  <1> HIDE DEF b
  <1>4. AllOK(b)
    BY <1>1, <1>2, <1>3 DEF AllOK
  <1>5. SameIds(a, b)
    BY <1>2, <1>3 DEF SameIds
  <1> QED
    BY <1>2, <1>4, <1>5 DEF b

LEMMA PosInRange ==
    ASSUME NEW s \in StoreType, NEW i \in Int, ValidIndex(s, i)
    PROVE  Pos(s, i) \in 1..Len(s.pages)
  BY DEF StoreType, ValidIndex, Pos

(* Replacing the list of pages of a store.                                 *)
LEMMA WithPages ==
    ASSUME NEW s \in StoreType, NEW b \in Seq(Page)
    PROVE  LET t == [s EXCEPT !.pages = b] IN
             /\ t \in StoreType /\ t.pages = b /\ t.idCounter = s.idCounter
             /\ t.upid = s.upid /\ t.active = s.active
  BY DEF StoreType

LEMMA TouchStore ==
    ASSUME NEW s \in StoreType, NEW silent \in BOOLEAN
    PROVE  /\ Touch(s, silent) \in StoreType
           /\ Touch(s, silent).pages = s.pages
           /\ Touch(s, silent).idCounter = s.idCounter
           /\ Touch(s, silent).upid
                = IF silent THEN s.upid ELSE IncWrap(s.upid, MaxUpid)
  BY CounterAssumption DEF Touch, StoreType, IncWrap

LEMMA UpdatePage ==
    ASSUME NEW s \in GoodStore, NEW n \in 1..Len(s.pages),
           NEW q \in GoodPage, q.id = s.pages[n].id
    PROVE  LET t == [s EXCEPT !.pages[n] = q] IN
             /\ t \in GoodStore /\ SameIds(s.pages, t.pages)
             /\ t.idCounter = s.idCounter /\ t.upid = s.upid
  <1> DEFINE b == [s.pages EXCEPT ![n] = q]
             t == [s EXCEPT !.pages[n] = q]
  <1>1. s \in StoreType /\ s.pages \in Seq(Page) /\ AllOK(s.pages)
    BY DEF GoodStore, StoreType
  <1>2. b \in Seq(Page) /\ AllOK(b) /\ SameIds(s.pages, b)
    BY <1>1, ReplacePage, Zenon
  <1>3. t = [s EXCEPT !.pages = b]
    OBVIOUS
  <1> HIDE DEF b, t
  <1>4. /\ t \in StoreType /\ t.pages = b
        /\ t.idCounter = s.idCounter /\ t.upid = s.upid
    BY <1>1, <1>2, <1>3, WithPages, Zenon
  <1>5. t \in GoodStore
    BY <1>2, <1>4 DEF GoodStore
  <1> QED
    BY <1>2, <1>4, <1>5 DEF t

LEMMA GoodPageAt ==
    ASSUME NEW s \in GoodStore, NEW n \in 1..Len(s.pages)
    PROVE  s.pages[n] \in GoodPage
  BY ElementOfSeq DEF GoodStore, StoreType, GoodPage, AllOK

LEMMA TouchGood ==
    ASSUME NEW s \in GoodStore, NEW silent \in BOOLEAN
    PROVE  LET t == Touch(s, silent) IN
             /\ t \in GoodStore /\ t.pages = s.pages
             /\ t.idCounter = s.idCounter /\ MayTouch(s.upid, t.upid)
  BY TouchStore DEF GoodStore, MayTouch

(* What every operation that keeps the list of plots leaves behind.        *)
SamePlots(s, t) ==
    /\ t \in GoodStore
    /\ SameIds(s.pages, t.pages)
    /\ t.idCounter = s.idCounter
    /\ MayTouch(s.upid, t.upid)

LEMMA AddDcsSame ==
    ASSUME NEW s \in GoodStore, NEW i \in Int, NEW op \in Op, NEW silent \in BOOLEAN
    PROVE  SamePlots(s, AddDcs(s, i, <<op>>, silent))
  <1>1. CASE ~ValidIndex(s, i)
    BY <1>1 DEF AddDcs, SamePlots, SameIds, MayTouch
  <1>2. CASE ValidIndex(s, i)
    <2> DEFINE n == Pos(s, i)
               q == WithDcs(s.pages[n], <<op>>)
               t == [s EXCEPT !.pages[n] = q]
    <2>1. n \in 1..Len(s.pages)
      BY <1>2, PosInRange DEF GoodStore
    <2>2. q \in GoodPage /\ q.id = s.pages[n].id
      BY <2>1, GoodPageAt, WithDcsGood
    <2>3. AddDcs(s, i, <<op>>, silent) = Touch(t, silent)
      BY <1>2 DEF AddDcs
    <2> HIDE DEF n, q
    <2>4. /\ t \in GoodStore /\ SameIds(s.pages, t.pages)
          /\ t.idCounter = s.idCounter /\ t.upid = s.upid
      BY <2>1, <2>2, UpdatePage, Zenon
    <2> HIDE DEF t
    <2> QED
      BY <2>3, <2>4, TouchGood DEF SamePlots
  <1> QED
    BY <1>1, <1>2

LEMMA ClearPageSame ==
    ASSUME NEW s \in GoodStore, NEW i \in Int, NEW silent \in BOOLEAN
    PROVE  SamePlots(s, ClearPage(s, i, silent))
  <1>1. CASE ~ValidIndex(s, i)
    BY <1>1 DEF ClearPage, SamePlots, SameIds, MayTouch
  <1>2. CASE ValidIndex(s, i)
    <2> DEFINE n == Pos(s, i)
               q == Cleared(s.pages[n])
               t == [s EXCEPT !.pages[n] = q]
    <2>1. n \in 1..Len(s.pages)
      BY <1>2, PosInRange DEF GoodStore
    <2>2. q \in GoodPage /\ q.id = s.pages[n].id
      BY <2>1, GoodPageAt, ClearedGood DEF GoodPage
    <2>3. ClearPage(s, i, silent) = Touch(t, silent)
      BY <1>2 DEF ClearPage
    <2> HIDE DEF n, q
    <2>4. /\ t \in GoodStore /\ SameIds(s.pages, t.pages)
          /\ t.idCounter = s.idCounter /\ t.upid = s.upid
      BY <2>1, <2>2, UpdatePage, Zenon
    <2> HIDE DEF t
    <2> QED
      BY <2>3, <2>4, TouchGood DEF SamePlots
  <1> QED
    BY <1>1, <1>2

LEMMA ClipPageSame ==
    ASSUME NEW s \in GoodStore, NEW i \in Int, NEW rect \in Rect
    PROVE  SamePlots(s, ClipPage(s, i, rect))
  <1>1. CASE ~ValidIndex(s, i)
    BY <1>1 DEF ClipPage, SamePlots, SameIds, MayTouch
  <1>2. CASE ValidIndex(s, i)
    <2> DEFINE n == Pos(s, i)
               q == WithClip(s.pages[n], rect)
               t == [s EXCEPT !.pages[n] = q]
    <2>1. n \in 1..Len(s.pages)
      BY <1>2, PosInRange DEF GoodStore
    <2>2. q \in GoodPage /\ q.id = s.pages[n].id
      BY <2>1, GoodPageAt, WithClipGood
    <2>3. ClipPage(s, i, rect) = t
      BY <1>2 DEF ClipPage
    <2> HIDE DEF n, q
    <2>4. /\ t \in GoodStore /\ SameIds(s.pages, t.pages)
          /\ t.idCounter = s.idCounter /\ t.upid = s.upid
      BY <2>1, <2>2, UpdatePage, Zenon
    <2> HIDE DEF t
    <2> QED
      BY <2>3, <2>4 DEF SamePlots, MayTouch
  <1> QED
    BY <1>1, <1>2

LEMMA ResizeSame ==
    ASSUME NEW s \in GoodStore, NEW i \in Int, NEW z \in Size
    PROVE  SamePlots(s, Resize(s, i, z))
  <1>1. CASE ~ValidIndex(s, i)
    BY <1>1 DEF Resize, SamePlots, SameIds, MayTouch
  <1>2. CASE ValidIndex(s, i)
    <2> DEFINE n == Pos(s, i)
               q == Cleared([s.pages[n] EXCEPT !.size = z])
               t == [s EXCEPT !.pages[n] = q]
    <2>1. n \in 1..Len(s.pages)
      BY <1>2, PosInRange DEF GoodStore
    <2>2. q \in GoodPage /\ q.id = s.pages[n].id
      <3> DEFINE r == [s.pages[n] EXCEPT !.size = z]
      <3>1. s.pages[n] \in Page
        BY <2>1, GoodPageAt DEF GoodPage
      <3>2. r \in Page /\ r.id = s.pages[n].id
        BY <3>1, WithSize, Zenon
      <3> HIDE DEF r
      <3>3. Cleared(r) \in GoodPage /\ Cleared(r).id = s.pages[n].id
        BY <3>2, ClearedGood
      <3> QED
        BY <3>3 DEF r
    <2>3. Resize(s, i, z) = t
      BY <1>2 DEF Resize
    <2> HIDE DEF n, q
    <2>4. /\ t \in GoodStore /\ SameIds(s.pages, t.pages)
          /\ t.idCounter = s.idCounter /\ t.upid = s.upid
      BY <2>1, <2>2, UpdatePage, Zenon
    <2> HIDE DEF t
    <2> QED
      BY <2>3, <2>4 DEF SamePlots, MayTouch
  <1> QED
    BY <1>1, <1>2

LEMMA SetActiveSame ==
    ASSUME NEW s \in GoodStore, NEW b \in BOOLEAN
    PROVE  SamePlots(s, SetActive(s, b))
  BY DEF SetActive, SamePlots, SameIds, MayTouch, GoodStore, StoreType

LEMMA AppendGood ==
    ASSUME NEW s \in GoodStore, NEW z \in Size
    PROVE  LET t == AppendPage(s, z) IN
             /\ t \in GoodStore
             /\ Len(t.pages) = Len(s.pages) + 1
             /\ \A n \in 1..Len(s.pages) : t.pages[n].id = s.pages[n].id
             /\ t.pages[Len(s.pages) + 1].id = s.idCounter
             /\ t.idCounter = IncWrap(s.idCounter, MaxId)
             /\ t.upid = s.upid
  <1> DEFINE q == NewPage(s.idCounter, z)
             b == Append(s.pages, q)
             t == AppendPage(s, z)
  <1>1. s \in StoreType /\ s.pages \in Seq(Page) /\ AllOK(s.pages) /\ s.idCounter \in 0..MaxId
    BY DEF GoodStore, StoreType
  <1>2. q \in Page /\ PageOK(q) /\ q.id = s.idCounter
    BY <1>1, NewPageGood, CounterAssumption DEF GoodPage
  <1>3. /\ b \in Seq(Page)
        /\ Len(b) = Len(s.pages) + 1
        /\ \A n \in 1..Len(s.pages) : b[n] = s.pages[n]
        /\ b[Len(s.pages) + 1] = q
    BY <1>1, <1>2, AppendProperties
  <1>4. IncWrap(s.idCounter, MaxId) \in 0..MaxId
    BY <1>1, CounterAssumption DEF IncWrap
  <1>5. /\ t \in StoreType
        /\ t.pages = b /\ t.idCounter = IncWrap(s.idCounter, MaxId) /\ t.upid = s.upid
    <2> DEFINE u == [s EXCEPT !.pages = b]
               c == IncWrap(s.idCounter, MaxId)
    <2>1. t = [u EXCEPT !.idCounter = c]
      BY DEF AppendPage
    <2> HIDE DEF b, t, c
    <2>2. /\ u \in StoreType /\ u.pages = b /\ u.upid = s.upid
      BY <1>1, <1>3, WithPages, Zenon
    <2> HIDE DEF u
    <2>3. c \in 0..MaxId
      BY <1>4 DEF c
    <2>4. t \in StoreType /\ t.pages = u.pages /\ t.idCounter = c /\ t.upid = u.upid
      BY <2>1, <2>2, <2>3 DEF StoreType
    <2> QED
      BY <2>2, <2>4 DEF c
  <1>6. Len(s.pages) \in Nat
    BY <1>1
  <1>7. AllOK(b)
    BY <1>1, <1>2, <1>3, <1>6 DEF AllOK
  <1> HIDE DEF q, b, t
  <1>8. t \in GoodStore
    BY <1>5, <1>7 DEF GoodStore
  <1> QED
    BY <1>2, <1>3, <1>5, <1>8 DEF t

LEMMA RemoveAtElements ==
    ASSUME NEW S, NEW q \in Seq(S), NEW k \in 1..Len(q)
    PROVE  LET b == RemoveAt(q, k) IN
             /\ b \in Seq(S)
             /\ Len(b) = Len(q) - 1
             /\ \A n \in 1..Len(b) : b[n] = q[IF n < k THEN n ELSE n + 1]
  <1> DEFINE x == SubSeq(q, 1, k - 1)
             y == SubSeq(q, k + 1, Len(q))
  <1>1. /\ x \in Seq(S) /\ Len(x) = k - 1
        /\ \A n \in 1..(k - 1) : x[n] = q[n]
    BY SubSeqProperties
  <1>2. /\ y \in Seq(S) /\ Len(y) = Len(q) - k
        /\ \A n \in 1..(Len(q) - k) : y[n] = q[n + k]
    BY SubSeqProperties
  <1>3. RemoveAt(q, k) = x \o y
    BY DEF RemoveAt
  <1> HIDE DEF x, y
  <1>4. /\ x \o y \in Seq(S)
        /\ Len(x \o y) = Len(x) + Len(y)
        /\ \A n \in 1..(Len(x) + Len(y)) : (x \o y)[n] =
              IF n <= Len(x) THEN x[n] ELSE y[n - Len(x)]
    BY <1>1, <1>2, ConcatProperties
  <1>5. Len(q) \in Nat
    OBVIOUS
  <1> QED
    BY <1>1, <1>2, <1>3, <1>4, <1>5

LEMMA RemoveGood ==
    ASSUME NEW s \in GoodStore, NEW i \in Int, ValidIndex(s, i)
    PROVE  LET t == RemovePage(s, i, FALSE)
               k == Pos(s, i) IN
             /\ t \in GoodStore
             /\ k \in 1..Len(s.pages)
             /\ Len(t.pages) = Len(s.pages) - 1
             /\ \A n \in 1..Len(t.pages) :
                  t.pages[n].id = s.pages[IF n < k THEN n ELSE n + 1].id
             /\ t.idCounter = s.idCounter
             /\ t.upid = IncWrap(s.upid, MaxUpid)
  <1> DEFINE k == Pos(s, i)
             b == RemoveAt(s.pages, k)
             u == [s EXCEPT !.pages = b]
             t == RemovePage(s, i, FALSE)
  <1>1. s \in StoreType /\ s.pages \in Seq(Page) /\ AllOK(s.pages)
    BY DEF GoodStore, StoreType
  <1>2. k \in 1..Len(s.pages)
    BY <1>1, PosInRange
  <1>3. t = Touch(u, FALSE)
    BY DEF RemovePage
  <1> HIDE DEF k
  <1>4. /\ b \in Seq(Page)
        /\ Len(b) = Len(s.pages) - 1
        /\ \A n \in 1..Len(b) : b[n] = s.pages[IF n < k THEN n ELSE n + 1]
    BY <1>1, <1>2, RemoveAtElements, Zenon
  <1> HIDE DEF b, t
  <1>5. u \in StoreType /\ u.pages = b /\ u.idCounter = s.idCounter /\ u.upid = s.upid
    BY <1>1, <1>4, WithPages, Zenon
  <1> HIDE DEF u
  <1>6. AllOK(b)
    <2> SUFFICES ASSUME NEW n \in 1..Len(b)
                 PROVE  PageOK(b[n])
      BY DEF AllOK
    <2> DEFINE o == IF n < k THEN n ELSE n + 1
    <2>1. o \in 1..Len(s.pages)
      BY <1>1, <1>2, <1>4
    <2>2. b[n] = s.pages[o]
      BY <1>4
    <2> QED
      BY <1>1, <2>1, <2>2 DEF AllOK
  <1>7. t \in StoreType /\ t.pages = b /\ t.idCounter = s.idCounter
          /\ t.upid = IncWrap(s.upid, MaxUpid)
    BY <1>3, <1>5, TouchStore
  <1> QED
    BY <1>2, <1>4, <1>6, <1>7 DEF GoodStore, k, t

LEMMA RemoveAllGood ==
    ASSUME NEW s \in GoodStore, s.pages # <<>>
    PROVE  LET t == RemoveAll(s) IN
             /\ t \in GoodStore /\ t.pages = <<>>
             /\ t.idCounter = s.idCounter
             /\ t.upid = IncWrap(s.upid, MaxUpid)
  <1> DEFINE u == [s EXCEPT !.pages = <<>>]
             t == RemoveAll(s)
  <1>1. s \in StoreType /\ <<>> \in Seq(Page) /\ AllOK(<<>>)
    BY DEF GoodStore, AllOK
  <1>2. t = Touch(u, FALSE)
    BY DEF RemoveAll
  <1>3. u \in StoreType /\ u.pages = <<>> /\ u.idCounter = s.idCounter /\ u.upid = s.upid
    BY <1>1, WithPages, Zenon
  <1> HIDE DEF u, t
  <1>4. t \in StoreType /\ t.pages = <<>> /\ t.idCounter = s.idCounter
          /\ t.upid = IncWrap(s.upid, MaxUpid)
    BY <1>2, <1>3, TouchStore
  <1> QED
    BY <1>1, <1>4 DEF GoodStore, t

----------------------------------------------------------------------------
(* Steps.                                                                  *)

LEMMA StoreTyped == IInv => store \in GoodStore
  BY DEF IInv, TypeOK, ClipsResolve, Pages, GoodStore, StoreType, AllOK

LEMMA GoodStoreInv ==
    store \in GoodStore => ClipsResolve /\ store \in StoreType
  BY DEF ClipsResolve, Pages, GoodStore, AllOK

(* What the counters do in a step that may change upid once.               *)
LEMMA UpidStep ==
    ASSUME IInv, NEW t, store' = t, Becomes(t), t \in GoodStore, MayTouch(store.upid, t.upid)
    PROVE  /\ UpidOK' /\ changes' \in 0..MaxUpid
           /\ seen' = seen
           /\ IF t.upid = store.upid THEN changes' = changes ELSE changes' = changes + 1
  <1>1. /\ store.upid \in 0..MaxUpid /\ t.upid \in 0..MaxUpid
        /\ seen.upid \in 0..MaxUpid /\ changes \in 0..MaxUpid
        /\ UpidOK
    BY DEF IInv, TypeOK, GoodStore, StoreType
  <1>2. /\ changes' = IF t.upid = store.upid THEN changes ELSE changes + 1
        /\ changes' <= MaxUpid /\ seen' = seen
    BY DEF Becomes
  <1>3. t.upid = store.upid \/ t.upid = IF store.upid = MaxUpid THEN 0 ELSE store.upid + 1
    BY DEF MayTouch, IncWrap
  <1> QED
    BY <1>1, <1>2, <1>3, CounterAssumption DEF UpidOK

(* Operations that keep the list of plots keep the invariant.              *)
LEMMA SamePlotsStep ==
    ASSUME IInv, NEW t, Becomes(t), SamePlots(store, t), UNCHANGED appended
    PROVE  IInv'
  <1>1. /\ store' = t /\ t \in GoodStore /\ SameIds(store.pages, t.pages)
        /\ t.idCounter = store.idCounter /\ MayTouch(store.upid, t.upid)
    BY DEF Becomes, SamePlots
  <1>2. /\ UpidOK' /\ changes' \in 0..MaxUpid /\ seen' = seen
        /\ changes' = 0 => changes = 0
    BY <1>1, UpidStep DEF IInv, TypeOK
  <1>3. /\ Len(store'.pages) = Len(store.pages)
        /\ \A n \in 1..Len(store.pages) : store'.pages[n].id = store.pages[n].id
    BY <1>1 DEF SameIds
  <1>4. store' \in StoreType /\ ClipsResolve'
    BY <1>1 DEF ClipsResolve, Pages, GoodStore, AllOK
  <1>5. IdsAscending'
    BY <1>3 DEF IInv, IdsAscending, Pages
  <1>6. IdCounterOK'
    BY <1>1 DEF IInv, IdCounterOK
  <1>7. OnlyAppended'
    <2>1. Len(seen.ids) \in Nat /\ Len(store.pages) \in Nat
      BY DEF IInv, TypeOK
    <2> QED
      BY <1>2, <1>3, <2>1 DEF IInv, OnlyAppended, Pages
  <1>8. TypeOK'
    BY <1>2, <1>4 DEF IInv, TypeOK, StoreType
  <1> QED
    BY <1>2, <1>4, <1>5, <1>6, <1>7, <1>8 DEF IInv

LEMMA AppendStep ==
    ASSUME IInv, NEW z \in Size, DoAppend(z)
    PROVE  IInv'
  <1> DEFINE t == AppendPage(store, z)
             m == Len(store.pages)
  <1>1. store \in GoodStore /\ m \in Nat
    BY StoreTyped DEF GoodStore, StoreType
  <1>2. /\ t \in GoodStore
        /\ Len(t.pages) = m + 1
        /\ \A n \in 1..m : t.pages[n].id = store.pages[n].id
        /\ t.pages[m + 1].id = store.idCounter
        /\ t.idCounter = IncWrap(store.idCounter, MaxId)
        /\ t.upid = store.upid
    BY <1>1, AppendGood
  <1>3. /\ appended < MaxAppends /\ appended' = appended + 1
        /\ Becomes(t) /\ store' = t
    BY DEF DoAppend, Becomes
  <1> HIDE DEF t
  <1>4. UpidOK' /\ changes' = changes /\ changes' \in 0..MaxUpid /\ seen' = seen
    BY <1>2, <1>3, UpidStep DEF MayTouch
  <1>5. store.idCounter = appended /\ appended \in Nat /\ appended <= MaxId
    BY <1>3, CounterAssumption, PageStoreAssumption DEF IInv, IdCounterOK, TypeOK
  <1>6. IdsAscending'
    <2>1. /\ \A n \in 1..m : store.pages[n].id < appended
          /\ \A k, n \in 1..m : k < n => store.pages[k].id < store.pages[n].id
      BY DEF IInv, IdsAscending, Pages
    <2>2. \A n \in 1..m : store.pages[n].id \in Nat
      BY <1>1, GoodPageAt DEF GoodPage, Page
    <2>3. /\ \A n \in 1..m : t.pages[n].id \in Nat /\ t.pages[n].id < appended
          /\ t.pages[m + 1].id = appended
      BY <1>2, <1>5, <2>1, <2>2
    <2>4. ASSUME NEW n \in 1..(m + 1)
          PROVE  t.pages[n].id < appended + 1
      <3>1. CASE n = m + 1
        BY <1>5, <2>3, <3>1
      <3>2. CASE n # m + 1
        <4>1. n \in 1..m
          BY <1>1, <3>2
        <4> QED
          BY <1>5, <2>3, <4>1
      <3> QED
        BY <3>1, <3>2
    <2>5. \A k, n \in 1..(m + 1) : k < n => t.pages[k].id < t.pages[n].id
      <3> SUFFICES ASSUME NEW k \in 1..(m + 1), NEW n \in 1..(m + 1), k < n
                   PROVE  t.pages[k].id < t.pages[n].id
        OBVIOUS
      <3>1. CASE n = m + 1
        BY <1>1, <2>3, <3>1
      <3>2. CASE n # m + 1
        BY <1>1, <1>2, <2>1, <3>2
      <3> QED
        BY <3>1, <3>2
    <2> QED
      BY <1>2, <1>3, <2>4, <2>5 DEF IdsAscending, Pages
  <1>7. IdCounterOK'
    BY <1>2, <1>3, <1>5, CounterAssumption DEF IdCounterOK, IncWrap
  <1>8. OnlyAppended'
    <2>1. Len(seen.ids) \in Nat
      BY DEF IInv, TypeOK
    <2> QED
      BY <1>1, <1>2, <1>3, <1>4, <2>1 DEF IInv, OnlyAppended, Pages
  <1>9. store' \in StoreType /\ ClipsResolve'
    BY <1>2, <1>3 DEF ClipsResolve, Pages, GoodStore, AllOK
  <1>10. TypeOK'
    BY <1>3, <1>4, <1>9, PageStoreAssumption DEF IInv, TypeOK, StoreType
  <1> QED
    BY <1>4, <1>6, <1>7, <1>8, <1>9, <1>10 DEF IInv

(* Removals of any kind: the pages that stay keep their order, and upid    *)
(* moves, so that the client's last poll is outdated.                      *)
LEMMA RemovalStep ==
    ASSUME IInv, NEW t, Becomes(t), UNCHANGED appended,
           t \in GoodStore, t.idCounter = store.idCounter,
           t.upid = IncWrap(store.upid, MaxUpid),
           NEW f \in [1..Len(t.pages) -> 1..Len(store.pages)],
           \A n \in 1..Len(t.pages) : t.pages[n].id = store.pages[f[n]].id,
           \A k, n \in 1..Len(t.pages) : k < n => f[k] < f[n]
    PROVE  IInv'
  <1>1. store' = t /\ appended' = appended
    BY DEF Becomes
  <1>2. UpidOK' /\ changes' \in 0..MaxUpid /\ seen' = seen /\ changes' # 0
    <2>1. /\ UpidOK' /\ changes' \in 0..MaxUpid /\ seen' = seen
          /\ IF t.upid = store.upid THEN changes' = changes ELSE changes' = changes + 1
      BY <1>1, UpidStep DEF MayTouch
    <2>2. t.upid # store.upid
      BY CounterAssumption DEF IInv, TypeOK, IncWrap
    <2> QED
      BY <2>1, <2>2 DEF IInv, TypeOK
  <1>3. IdsAscending'
    <2>1. \A n \in 1..Len(t.pages) : f[n] \in 1..Len(store.pages)
      OBVIOUS
    <2>2. /\ \A n \in 1..Len(store.pages) : store.pages[n].id < appended
          /\ \A k, n \in 1..Len(store.pages) :
               k < n => store.pages[k].id < store.pages[n].id
      BY DEF IInv, IdsAscending, Pages
    <2>3. \A n \in 1..Len(t.pages) : t.pages[n].id < appended
      BY <2>1, <2>2
    <2>4. \A k, n \in 1..Len(t.pages) : k < n => t.pages[k].id < t.pages[n].id
      BY <2>1, <2>2
    <2> QED
      BY <1>1, <2>3, <2>4 DEF IdsAscending, Pages
  <1>4. IdCounterOK' /\ OnlyAppended'
    BY <1>1, <1>2 DEF IInv, IdCounterOK, OnlyAppended
  <1>5. store' \in StoreType /\ ClipsResolve'
    BY <1>1 DEF ClipsResolve, Pages, GoodStore, AllOK
  <1>6. TypeOK'
    BY <1>1, <1>2, <1>5 DEF IInv, TypeOK, StoreType
  <1> QED
    BY <1>2, <1>3, <1>4, <1>5, <1>6 DEF IInv

LEMMA IdsTyped ==
    ASSUME NEW s \in GoodStore
    PROVE  /\ Ids(s) \in Seq(Nat) /\ Len(Ids(s)) = Len(s.pages)
           /\ \A n \in 1..Len(s.pages) : Ids(s)[n] = s.pages[n].id
  <1>1. Len(s.pages) \in Nat
    BY DEF GoodStore, StoreType
  <1>2. \A n \in 1..Len(s.pages) : s.pages[n].id \in Nat
    BY GoodPageAt DEF GoodPage, Page
  <1> QED
    BY <1>1, <1>2 DEF Ids

(* Asking for all plots.                                                   *)
LEMMA QueryAll ==
    ASSUME NEW s \in GoodStore
    PROVE  LET res == Query(s, 0, 0) IN
             /\ res.state.upid = s.upid
             /\ res.ids \in Seq(Nat)
             /\ Len(res.ids) = Len(s.pages)
             /\ \A n \in 1..Len(s.pages) : res.ids[n] = s.pages[n].id
  <1> DEFINE m == Len(s.pages)
             ids == Ids(s)
  <1>1. m \in Nat /\ s.pages \in Seq(Page)
    BY DEF GoodStore, StoreType
  <1>2. /\ ids \in Seq(Nat) /\ Len(ids) = m
        /\ \A n \in 1..m : ids[n] = s.pages[n].id
    BY IdsTyped
  <1>3. CASE m = 0
    <2>1. Query(s, 0, 0) = [state |-> State(s), ids |-> <<>>]
      BY <1>3 DEF Query, ValidIndex
    <2>2. Query(s, 0, 0).state.upid = s.upid /\ Query(s, 0, 0).ids = <<>>
      BY <2>1 DEF State
    <2>3. <<>> \in Seq(Nat) /\ Len(<<>>) = 0
      OBVIOUS
    <2>4. 1..m = {}
      BY <1>3
    <2> QED
      BY <1>3, <2>2, <2>3, <2>4
  <1>4. CASE m > 0
    <2>1. ValidIndex(s, 0) /\ Pos(s, 0) = 1
      BY <1>1, <1>4 DEF ValidIndex, Pos
    <2> HIDE DEF ids
    <2>2. Query(s, 0, 0) = [state |-> State(s), ids |-> SubSeq(ids, 1, m)]
      <3>1. /\ (1 - 1) + 1 = 1
            /\ (1 - 1) + m = m /\ ~(m < m)
        BY <1>1
      <3> QED
        BY <2>1, <3>1, Zenon DEF Query, ids
    <2>3. /\ SubSeq(ids, 1, m) \in Seq(Nat) /\ Len(SubSeq(ids, 1, m)) = m
          /\ \A n \in 1..m : SubSeq(ids, 1, m)[n] = ids[n]
      BY <1>1, <1>2, <1>4
    <2>4. Query(s, 0, 0).state.upid = s.upid /\ Query(s, 0, 0).ids = SubSeq(ids, 1, m)
      BY <2>2 DEF State
    <2> QED
      BY <1>2, <2>3, <2>4
  <1> QED
    BY <1>1, <1>3, <1>4

LEMMA PollStep == ASSUME IInv, Poll PROVE IInv'
  <1> DEFINE res == Query(store, 0, 0)
  <1>1. /\ seen' = [upid |-> res.state.upid, ids |-> res.ids]
        /\ changes' = 0 /\ store' = store /\ appended' = appended
    BY DEF Poll
  <1>2. /\ res.state.upid = store.upid
        /\ res.ids \in Seq(Nat)
        /\ Len(res.ids) = Len(store.pages)
        /\ \A n \in 1..Len(store.pages) : res.ids[n] = store.pages[n].id
    BY StoreTyped, QueryAll
  <1> HIDE DEF res
  <1>3. seen'.upid = store.upid /\ seen'.ids = res.ids
    BY <1>1, <1>2
  <1>4. store.upid \in 0..MaxUpid /\ Len(store.pages) \in Nat
    BY DEF IInv, TypeOK
  <1>5. TypeOK'
    BY <1>1, <1>2, <1>4, CounterAssumption DEF IInv, TypeOK
  <1>6. IdsAscending' /\ ClipsResolve' /\ IdCounterOK'
    BY <1>1 DEF IInv, IdsAscending, ClipsResolve, IdCounterOK, Pages
  <1>7. UpidOK'
    BY <1>1, <1>3, <1>4, CounterAssumption DEF UpidOK
  <1>8. OnlyAppended'
    BY <1>1, <1>2, <1>3, <1>4 DEF OnlyAppended, Pages
  <1> QED
    BY <1>5, <1>6, <1>7, <1>8 DEF IInv

LEMMA NextInv == IInv /\ [Next]_vars => IInv'
  <1> SUFFICES ASSUME IInv, [Next]_vars PROVE IInv'
    OBVIOUS
  <1>0. store \in GoodStore
    BY StoreTyped
  <1>1. ASSUME NEW z \in Size, DoAppend(z)
        PROVE  IInv'
    BY <1>1, AppendStep
  <1>2. ASSUME NEW i \in Index, NEW op \in Op, NEW silent \in BOOLEAN, DoAddDc(i, op, silent)
        PROVE  IInv'
    <2>1. SamePlots(store, AddDcs(store, i, <<op>>, silent))
      BY <1>0, AddDcsSame, PageStoreAssumption DEF Index
    <2> QED
      BY <1>2, <2>1, SamePlotsStep DEF DoAddDc
  <1>3. ASSUME NEW i \in Index, DoClear(i)
        PROVE  IInv'
    <2>1. i \in Int /\ TRUE \in BOOLEAN
      BY PageStoreAssumption DEF Index
    <2>2. SamePlots(store, ClearPage(store, i, TRUE))
      BY <1>0, <2>1, ClearPageSame, Zenon
    <2> QED
      BY <1>3, <2>2, SamePlotsStep DEF DoClear
  <1>4. ASSUME NEW i \in Index, DoRemove(i)
        PROVE  IInv'
    <2> DEFINE t == RemovePage(store, i, FALSE)
               k == Pos(store, i)
    <2>1. CASE ~ValidIndex(store, i)
      <3>1. SamePlots(store, t)
        BY <1>0, <2>1 DEF RemovePage, SamePlots, SameIds, MayTouch
      <3> QED
        BY <1>4, <3>1, SamePlotsStep DEF DoRemove
    <2>2. CASE ValidIndex(store, i)
      <3> DEFINE f == [n \in 1..Len(t.pages) |-> IF n < k THEN n ELSE n + 1]
      <3>1. /\ t \in GoodStore
            /\ k \in 1..Len(store.pages)
            /\ Len(t.pages) = Len(store.pages) - 1
            /\ \A n \in 1..Len(t.pages) :
                 t.pages[n].id = store.pages[IF n < k THEN n ELSE n + 1].id
            /\ t.idCounter = store.idCounter
            /\ t.upid = IncWrap(store.upid, MaxUpid)
        <4>1. i \in Int /\ FALSE \in BOOLEAN
          BY PageStoreAssumption DEF Index
        <4> QED
          BY <1>0, <2>2, <4>1, RemoveGood, Zenon
      <3>2. Becomes(t) /\ UNCHANGED appended
        BY <1>4 DEF DoRemove
      <3> HIDE DEF t, k
      <3>3. Len(store.pages) \in Nat
        BY <1>0 DEF GoodStore, StoreType
      <3>4. /\ f \in [1..Len(t.pages) -> 1..Len(store.pages)]
            /\ \A n \in 1..Len(t.pages) : t.pages[n].id = store.pages[f[n]].id
            /\ \A j, n \in 1..Len(t.pages) : j < n => f[j] < f[n]
        BY <3>1, <3>3
      <3> HIDE DEF f
      <3> QED
        BY <3>1, <3>2, <3>4, RemovalStep
    <2> QED
      BY <2>1, <2>2
  <1>5. CASE DoRemoveAll
    <2> DEFINE t == RemoveAll(store)
    <2>1. CASE store.pages = <<>>
      <3>1. SamePlots(store, t)
        BY <1>0, <2>1 DEF RemoveAll, SamePlots, SameIds, MayTouch
      <3> QED
        BY <1>5, <3>1, SamePlotsStep DEF DoRemoveAll
    <2>2. CASE store.pages # <<>>
      <3>1. /\ t \in GoodStore /\ t.pages = <<>> /\ t.idCounter = store.idCounter
            /\ t.upid = IncWrap(store.upid, MaxUpid)
        BY <1>0, <2>2, RemoveAllGood
      <3>2. Becomes(t) /\ UNCHANGED appended
        BY <1>5 DEF DoRemoveAll
      <3> HIDE DEF t
      <3>3. 1..Len(t.pages) = {}
        BY <3>1
      <3>4. [n \in {} |-> n] \in [1..Len(t.pages) -> 1..Len(store.pages)]
        BY <3>3
      <3> QED
        BY <3>1, <3>2, <3>3, <3>4, RemovalStep
    <2> QED
      BY <2>1, <2>2
  <1>6. ASSUME NEW i \in Index, NEW z \in Size, DoResize(i, z)
        PROVE  IInv'
    <2>1. SamePlots(store, Resize(store, i, z))
      BY <1>0, ResizeSame, PageStoreAssumption DEF Index
    <2> QED
      BY <1>6, <2>1, SamePlotsStep DEF DoResize
  <1>7. ASSUME NEW i \in Index, NEW rect \in Rect, DoClip(i, rect)
        PROVE  IInv'
    <2>1. SamePlots(store, ClipPage(store, i, rect))
      BY <1>0, ClipPageSame, PageStoreAssumption DEF Index
    <2> QED
      BY <1>7, <2>1, SamePlotsStep DEF DoClip
  <1>8. ASSUME NEW b \in BOOLEAN, DoSetActive(b)
        PROVE  IInv'
    <2>1. SamePlots(store, SetActive(store, b))
      BY <1>0, SetActiveSame
    <2> QED
      BY <1>8, <2>1, SamePlotsStep DEF DoSetActive
  <1>9. CASE Poll
    BY <1>9, PollStep
  <1>10. CASE UNCHANGED vars
    BY <1>10 DEF vars, IInv, TypeOK, IdsAscending, ClipsResolve, IdCounterOK, UpidOK,
                 OnlyAppended, Pages
  <1> QED
    BY <1>1, <1>2, <1>3, <1>4, <1>5, <1>6, <1>7, <1>8, <1>9, <1>10 DEF Next

LEMMA InitInv == Init => IInv
  <1> SUFFICES ASSUME Init PROVE IInv
    OBVIOUS
  <1>1. /\ store.pages = <<>> /\ store.idCounter = 0 /\ store.upid = 0
        /\ store = [pages |-> <<>>, idCounter |-> 0, upid |-> 0, active |-> TRUE]
        /\ seen = [upid |-> 0, ids |-> <<>>] /\ seen.upid = 0 /\ seen.ids = <<>>
        /\ appended = 0 /\ changes = 0
    BY DEF Init, EmptyStore
  <1>2. Len(store.pages) = 0 /\ Len(seen.ids) = 0
    BY <1>1
  <1>3. TypeOK
    BY <1>1, CounterAssumption, PageStoreAssumption DEF TypeOK
  <1>4. IdsAscending /\ ClipsResolve /\ OnlyAppended
    BY <1>1, <1>2 DEF IdsAscending, ClipsResolve, OnlyAppended, Pages
  <1>5. IdCounterOK /\ UpidOK
    BY <1>1, CounterAssumption DEF IdCounterOK, UpidOK
  <1> QED
    BY <1>3, <1>4, <1>5 DEF IInv

(* The counters of the store (idCounter, m_inc_upid) stay tied to the      *)
(* number of pages created and to what a client saw at its last poll, in   *)
(* any order of the calls of page_store.                                   *)
THEOREM Invariance == Spec => []IInv
  <1>1. IInv /\ [Next]_vars => IInv'
    BY NextInv
  <1> QED
    BY InitInv, <1>1, PTL DEF Spec

(* append hands every plot id out once: ids are unique and ordered by age, *)
(* whatever pages remove and remove_all have taken out in between.         *)
THEOREM StableIds == Spec => []IdsAscending
  <1>1. IInv => IdsAscending
    BY DEF IInv
  <1> QED
    BY Invariance, <1>1, PTL

(* Every draw call put on a page finds its clip on that page, and the      *)
(* first clip covers the page, after any put, clip, clear and resize.      *)
THEOREM ClipSafety == Spec => []ClipsResolve
  <1>1. IInv => ClipsResolve
    BY DEF IInv
  <1> QED
    BY Invariance, <1>1, PTL

(* A client that compares upid and hsize with its last poll never keeps a  *)
(* stale list of plots, if upid moved at most MaxUpid times since.         *)
THEOREM PollSafety == Spec => []PollSound
  <1>1. IInv => PollSound
    <2> SUFFICES ASSUME IInv, seen.upid = store.upid, Len(seen.ids) = Len(Pages)
                 PROVE  seen.ids = Ids(store)
      BY DEF PollSound
    <2>1. changes = 0
      BY CounterAssumption DEF IInv, TypeOK, UpidOK
    <2>2. seen.ids \in Seq(Nat) /\ store.pages \in Seq(Page)
      BY DEF IInv, TypeOK
    <2>3. \A n \in 1..Len(seen.ids) : seen.ids[n] = Pages[n].id
      BY <2>1 DEF IInv, OnlyAppended
    <2>4. /\ Ids(store) \in Seq(Nat) /\ Len(Ids(store)) = Len(Pages)
          /\ \A n \in 1..Len(Pages) : Ids(store)[n] = Pages[n].id
      BY IdsTyped, StoreTyped DEF Pages
    <2> QED
      <3>1. \A n \in 1..Len(seen.ids) : seen.ids[n] = Ids(store)[n]
        BY <2>3, <2>4
      <3>2. Len(seen.ids) = Len(Ids(store))
        BY <2>4
      <3> QED
        BY <2>2, <2>4, <3>1, <3>2, SeqEqual, Zenon
  <1> QED
    BY Invariance, <1>1, PTL

(* Queries: the ids from the offset on, and the first page with an id.     *)
LEMMA ValidPos ==
    ASSUME NEW s \in GoodStore, NEW i \in Int
    PROVE  /\ Len(s.pages) \in Nat
           /\ i \in 0..(Len(s.pages) - 1) => ValidIndex(s, i) /\ Pos(s, i) = i + 1
           /\ i \in (-Len(s.pages))..(-1) =>
                 ValidIndex(s, i) /\ Pos(s, i) = Len(s.pages) + i + 1
           /\ i = Len(s.pages) => ~ValidIndex(s, i)
  <1>1. Len(s.pages) \in Nat
    BY DEF GoodStore, StoreType
  <1> QED
    BY <1>1 DEF ValidIndex, Pos

LEMMA QueryIds ==
    ASSUME NEW s \in GoodStore, NEW i \in Int, NEW k \in 0..(Len(s.pages) - 1),
           ValidIndex(s, i), Pos(s, i) = k + 1, NEW n \in Nat
    PROVE  /\ n = 0 => Query(s, i, n).ids = SubSeq(Ids(s), k + 1, Len(s.pages))
           /\ n # 0 /\ k + n <= Len(s.pages) =>
                 Query(s, i, n).ids = SubSeq(Ids(s), k + 1, k + n)
  <1>1. Len(s.pages) \in Nat
    BY ValidPos
  <1> DEFINE l == Len(s.pages)
             count == IF n = 0 THEN l ELSE n
             end == IF k + count < l THEN k + count ELSE l
  <1>2. Query(s, i, n).ids = SubSeq(Ids(s), k + 1, end)
    <2>1. k + 1 - 1 = k
      OBVIOUS
    <2> QED
      BY <2>1 DEF Query
  <1>3. /\ n = 0 => end = l
        /\ n # 0 /\ k + n <= l => end = k + n
    <2>1. l \in Nat
      BY <1>1
    <2> HIDE DEF l
    <2> QED
      BY <2>1
  <1> QED
    BY <1>2, <1>3

LEMMA SplitAt ==
    ASSUME NEW S, NEW q \in Seq(S), NEW n \in 0..Len(q)
    PROVE  SubSeq(q, 1, n) \o SubSeq(q, n + 1, Len(q)) = q
  <1> DEFINE a == SubSeq(q, 1, n)
             b == SubSeq(q, n + 1, Len(q))
             c == a \o b
             l == Len(q)
  <1>0. l \in Nat /\ n \in 0..l /\ \A k \in 1..l : q[k] \in S
    OBVIOUS
  <1>1. a \in Seq(S) /\ Len(a) = n /\ \A k \in 1..n : a[k] = q[k]
    <2>1. \A k \in 1..n : q[k] \in S
      BY <1>0
    <2> QED
      BY <2>1, SubSeqProperties
  <1>2. b \in Seq(S) /\ Len(b) = l - n /\ \A k \in 1..(l - n) : b[k] = q[n + k]
    <2>1. \A k \in (n + 1)..l : q[k] \in S
      BY <1>0
    <2>2. /\ b \in Seq(S) /\ Len(b) = IF n + 1 <= l THEN l - (n + 1) + 1 ELSE 0
          /\ \A k \in 1..(l - (n + 1) + 1) : b[k] = q[n + 1 + k - 1]
      BY <1>0, <2>1, SubSeqProperties
    <2> HIDE DEF b, l
    <2> QED
      BY <1>0, <2>2 DEF l
  <1> HIDE DEF a, b
  <1>3. c \in Seq(S) /\ Len(c) = l
    <2>a. a \in Seq(S) /\ b \in Seq(S)
      BY <1>1, <1>2
    <2>1. c \in Seq(S) /\ Len(c) = Len(a) + Len(b)
      BY <2>a, ConcatProperties
    <2> HIDE DEF c, l
    <2>2. Len(a) + Len(b) = l
      BY <1>0, <1>1, <1>2
    <2> QED
      BY <2>1, <2>2
  <1>4. \A k \in 1..l : c[k] = q[k]
    <2> TAKE k \in 1..l
    <2>a. c[k] = IF k <= n THEN a[k] ELSE b[k - n]
      <3>1. \A j \in 1..(Len(a) + Len(b)) : c[j] = IF j <= Len(a) THEN a[j] ELSE b[j - Len(a)]
        BY <1>1, <1>2, ConcatProperties
      <3> HIDE DEF c, l
      <3>2. Len(a) + Len(b) = l
        BY <1>0, <1>1, <1>2
      <3> QED
        BY <1>1, <3>1, <3>2
    <2> HIDE DEF c, l
    <2>1. CASE k <= n
      BY <1>0, <1>1, <2>1, <2>a
    <2>2. CASE k > n
      <3>1. k - n \in 1..(l - n) /\ n + (k - n) = k
        BY <1>0, <2>2
      <3>2. c[k] = b[k - n]
        BY <1>0, <2>2, <2>a
      <3> QED
        BY <1>2, <3>1, <3>2
    <2> QED
      <3>1. n \in Int /\ k \in Int
        BY <1>0
      <3>2. k <= n \/ k > n
        BY <3>1
      <3> QED
        BY <2>1, <2>2, <3>2
  <1> HIDE DEF c
  <1> QED
    <2>1. c = q
      BY <1>0, <1>3, <1>4, SeqEqual
    <2> QED
      BY <2>1 DEF a, b, c

LEMMA FoundAt ==
    ASSUME NEW s \in GoodStore, NEW n \in 1..Len(s.pages),
           \A k \in 1..Len(s.pages) : s.pages[k].id = s.pages[n].id => k = n
    PROVE  FindIndex(s, s.pages[n].id) = n - 1
  <1> DEFINE found == {k \in 1..Len(s.pages) : s.pages[k].id = s.pages[n].id}
  <1>1. found = {n}
    OBVIOUS
  <1>2. Min({n}) = n
    BY DEF Min
  <1>3. SelectInSeq(s.pages, LAMBDA p : p.id = s.pages[n].id) =
            IF found # {} THEN Min(found) ELSE 0
    BY DEF SelectInSeq
  <1> HIDE DEF found
  <1>4. SelectInSeq(s.pages, LAMBDA p : p.id = s.pages[n].id) = n
    BY <1>1, <1>2, <1>3
  <1> QED
    BY <1>4 DEF FindIndex

LEMMA NotFound ==
    ASSUME NEW s, NEW id, \A k \in 1..Len(s.pages) : s.pages[k].id # id
    PROVE  FindIndex(s, id) = -1
  <1> DEFINE found == {k \in 1..Len(s.pages) : s.pages[k].id = id}
  <1>1. found = {}
    OBVIOUS
  <1>2. SelectInSeq(s.pages, LAMBDA p : p.id = id) = IF found # {} THEN Min(found) ELSE 0
    BY DEF SelectInSeq
  <1> HIDE DEF found
  <1>3. SelectInSeq(s.pages, LAMBDA p : p.id = id) = 0
    BY <1>1, <1>2
  <1> QED
    BY <1>3 DEF FindIndex

(* A client that pages through the plots, or asks for the newest ones, or  *)
(* looks a plot up, gets those plots: query and find_index agree about     *)
(* what is at an index, after any appends and removals.                    *)
THEOREM QuerySafety == Spec => []QueryPages
  <1>1. IInv => QueryPages
    <2> SUFFICES ASSUME IInv
                 PROVE  QueryPages
      OBVIOUS
    <2> DEFINE l == Len(store.pages)
               q == Ids(store)
    <2>1. store \in GoodStore
      BY StoreTyped
    <2>2. q \in Seq(Nat) /\ Len(q) = l /\ \A n \in 1..l : q[n] = store.pages[n].id
      BY <2>1, IdsTyped
    <2>3. l \in Nat
      BY <2>1, ValidPos
    <2> HIDE DEF q, l
    <2>4. ASSUME NEW n \in 1..l
          PROVE  /\ Query(store, 0, n).ids \o Query(store, n, 0).ids = q
                 /\ Query(store, -n, 0).ids = SubSeq(q, l - n + 1, l)
      <3>1. Query(store, 0, n).ids = SubSeq(q, 1, n)
        <4>1. ValidIndex(store, 0) /\ Pos(store, 0) = 0 + 1
          <5>1. 0 \in 0..(l - 1)
            BY <2>3
          <5> QED
            BY <2>1, <5>1, ValidPos DEF l
        <4>2. 0 \in 0..(l - 1) /\ n \in Nat /\ n # 0 /\ 0 + n <= l /\ 0 + 1 = 1 /\ 0 + n = n
          BY <2>3
        <4> QED
          BY <2>1, <4>1, <4>2, QueryIds DEF l, q
      <3>2. ASSUME n = l
            PROVE  Query(store, 0, n).ids \o Query(store, n, 0).ids = q
        <4>1. Query(store, n, 0).ids = <<>>
          <5>1. ~ValidIndex(store, n)
            BY <2>1, <2>3, <3>2, ValidPos DEF l
          <5>2. Query(store, n, 0) = [state |-> State(store), ids |-> <<>>]
            BY <5>1, Zenon DEF Query
          <5> QED
            BY <5>2
        <4>2. SubSeq(q, 1, n) = q
          BY <2>2, <3>2, SubSeqFull
        <4>3. q \o <<>> = q
          BY <2>2
        <4> QED
          BY <3>1, <4>1, <4>2, <4>3
      <3>3. ASSUME n # l
            PROVE  Query(store, 0, n).ids \o Query(store, n, 0).ids = q
        <4>1. n \in 0..(l - 1) /\ 0 \in Nat
          BY <2>3, <3>3
        <4>2. ValidIndex(store, n) /\ Pos(store, n) = n + 1
          BY <2>1, <4>1, ValidPos DEF l
        <4>3. Query(store, n, 0).ids = SubSeq(q, n + 1, l)
          BY <2>1, <4>1, <4>2, QueryIds DEF l, q
        <4>4. SubSeq(q, 1, n) \o SubSeq(q, n + 1, Len(q)) = q
          <5>1. n \in 0..Len(q)
            BY <2>2, <4>1
          <5> QED
            BY <2>2, <5>1, SplitAt
        <4> QED
          BY <2>2, <3>1, <4>3, <4>4
      <3>4. Query(store, -n, 0).ids = SubSeq(q, l - n + 1, l)
        <4>1. /\ -n \in Int /\ -n \in (-l)..(-1) /\ l + (-n) + 1 = l - n + 1
              /\ l - n \in 0..(l - 1) /\ 0 \in Nat
          BY <2>3
        <4>2. ValidIndex(store, -n) /\ Pos(store, -n) = l - n + 1
          <5>1. Pos(store, -n) = l + (-n) + 1 /\ ValidIndex(store, -n)
            BY <2>1, <4>1, ValidPos DEF l
          <5> QED
            BY <4>1, <5>1
        <4> QED
          BY <2>1, <4>1, <4>2, QueryIds DEF l, q
      <3> QED
        BY <3>2, <3>3, <3>4
    <2>5. ASSUME NEW n \in 1..l
          PROVE  Query(store, FindIndex(store, Pages[n].id), 1).ids = <<Pages[n].id>>
      <3>1. FindIndex(store, store.pages[n].id) = n - 1
        <4>1. \A k \in 1..l : store.pages[k].id = store.pages[n].id => k = n
          <5> SUFFICES ASSUME NEW k \in 1..l, k # n
                       PROVE  store.pages[k].id # store.pages[n].id
            OBVIOUS
          <5>1. store.pages[k].id \in Nat /\ store.pages[n].id \in Nat
            BY <2>2
          <5>2. k < n => store.pages[k].id < store.pages[n].id
            BY DEF IInv, IdsAscending, Pages, l
          <5>3. n < k => store.pages[n].id < store.pages[k].id
            BY DEF IInv, IdsAscending, Pages, l
          <5>4. k < n \/ n < k
            BY <2>3
          <5> QED
            BY <5>1, <5>2, <5>3, <5>4
        <4> QED
          BY <2>1, <4>1, FoundAt DEF l
      <3>2. /\ n - 1 \in 0..(l - 1) /\ n - 1 \in Int /\ n - 1 + 1 = n
            /\ 1 \in Nat /\ 1 # 0 /\ n <= l
        BY <2>3
      <3>3. Query(store, n - 1, 1).ids = SubSeq(q, n, n)
        <4>1. ValidIndex(store, n - 1) /\ Pos(store, n - 1) = n - 1 + 1
          BY <2>1, <3>2, ValidPos DEF l
        <4>2. Query(store, n - 1, 1).ids = SubSeq(q, n - 1 + 1, n - 1 + 1)
          BY <2>1, <3>2, <4>1, QueryIds DEF l, q
        <4> QED
          BY <3>2, <4>2
      <3>4. SubSeq(q, n, n) = <<q[n]>>
        <4> DEFINE a == SubSeq(q, n, n)
        <4>1. n \in Int /\ n - n + 1 = 1 /\ n <= n /\ \A k \in n..n : q[k] \in Nat
          BY <2>2, <2>3
        <4>2. a \in Seq(Nat) /\ Len(a) = 1 /\ \A k \in 1..1 : a[k] = q[n + k - 1]
          BY <4>1, SubSeqProperties
        <4> HIDE DEF a
        <4>3. a[1] = q[n]
          <5>1. a[1] = q[n + 1 - 1] /\ n + 1 - 1 = n
            BY <4>1, <4>2
          <5> QED
            BY <5>1
        <4>4. a = <<q[n]>>
          BY <4>2, <4>3
        <4> QED
          BY <4>4 DEF a
      <3> QED
        BY <2>2, <3>1, <3>3, <3>4 DEF Pages
    <2>6. ASSUME NEW id, \A n \in 1..l : Pages[n].id # id
          PROVE  FindIndex(store, id) = -1
      BY <2>6, NotFound DEF Pages, l
    <2> QED
      BY <2>4, <2>5, <2>6 DEF QueryPages, Pages, l, q
  <1> QED
    BY Invariance, <1>1, PTL
=============================================================================
