------------------------- MODULE UnigdDeviceProofs -------------------------
(* Safety of unigd_device for any number of plots, operations, sizes and   *)
(* failures, that it implements PlotList, and safety of the calls that     *)
(* clients make (AsyncApi, which works on the same device), for any number *)
(* of clients.                                                             *)
(*                                                                         *)
(* First what the operators of UnigdDevice and PageStoreOps return: the    *)
(* pages they leave, and each field of the device after a callback or a    *)
(* method.  The inductive invariant IInv is about the variables; the       *)
(* methods are operators on a record, so it is restated for the record,    *)
(* kept by each operator, and carried back at the end.  The calls of       *)
(* clients come last.                                                      *)
EXTENDS AsyncApi, SequenceLemmas, SequenceTheorems

LEMMA LastOf ==
    ASSUME NEW S, NEW q \in Seq(S), q # <<>>
    PROVE  Last(q) = q[Len(q)] /\ Len(q) \in 1..Len(q) /\ Last(q) \in S
  BY DEF Last

LEMMA RemoveAtElements ==
    ASSUME NEW S, NEW q \in Seq(S), NEW k \in 1..Len(q)
    PROVE  LET b == RemoveAt(q, k) IN
             /\ b \in Seq(S)
             /\ Len(b) = Len(q) - 1
             /\ \A n \in 1..Len(b) : b[n] = q[IF n < k THEN n ELSE n + 1]
  <1> DEFINE x == SubSeq(q, 1, k - 1)
             y == SubSeq(q, k + 1, Len(q))
  <1>1. /\ x \in Seq(S) /\ Len(x) = k - 1
        /\ \A n \in 1..(k - 1) : x[n] = q[n]
    BY SubSeqProperties
  <1>2. /\ y \in Seq(S) /\ Len(y) = Len(q) - k
        /\ \A n \in 1..(Len(q) - k) : y[n] = q[n + k]
    BY SubSeqProperties
  <1>3. RemoveAt(q, k) = x \o y
    BY DEF RemoveAt
  <1> HIDE DEF x, y
  <1>4. /\ x \o y \in Seq(S)
        /\ Len(x \o y) = Len(x) + Len(y)
        /\ \A n \in 1..(Len(x) + Len(y)) : (x \o y)[n] =
              IF n <= Len(x) THEN x[n] ELSE y[n - Len(x)]
    BY <1>1, <1>2, ConcatProperties
  <1>5. Len(q) \in Nat
    OBVIOUS
  <1> QED
    BY <1>1, <1>2, <1>3, <1>4, <1>5

GoodPage(p) ==
    /\ p \in Page
    /\ ClipsNumbered(p) /\ ShowsOwn(p) /\ LaidOutFor(p) /\ Clipped(p)

(* The recorded operations of a page are numbered at most n.               *)
UpTo(p, n) == \A k \in Recorded(p) : p.dcs[k].op.n <= n

----------------------------------------------------------------------------
(* Sizes.                                                                  *)

LEMMA SizeCoordinates ==
    ASSUME NEW f
    PROVE  f \in Size <=> f = [c \in {1, 2} |-> f[c]] /\ \A c \in {1, 2} : f[c] \in Int
  <1>1. 1..2 = {1, 2}
    OBVIOUS
  <1>2. f \in Size <=> \E a, b \in Int : f = <<a, b>>
    BY DEF Size, Pair
  <1>3. ASSUME NEW a \in Int, NEW b \in Int, f = <<a, b>>
        PROVE  f = [c \in {1, 2} |-> f[c]] /\ \A c \in {1, 2} : f[c] \in Int
    BY <1>1, <1>3
  <1>4. ASSUME f = [c \in {1, 2} |-> f[c]], \A c \in {1, 2} : f[c] \in Int
        PROVE  f = <<f[1], f[2]>> /\ f[1] \in Int /\ f[2] \in Int
    BY <1>1, <1>4
  <1> QED
    BY <1>2, <1>3, <1>4

LEMMA FitSize ==
    ASSUME NEW z \in Size
    PROVE  Fit(z) \in Size /\ Fit(Fit(z)) = Fit(z)
  <1>1. \A c \in {1, 2} : z[c] \in Int /\ MinSize[c] \in Int
    <2>1. MinSize \in Size
      BY DeviceAssumption DEF Size, Pair
    <2> QED
      BY <2>1, SizeCoordinates
  <1>2. /\ Fit(z) = [c \in {1, 2} |-> Fit(z)[c]]
        /\ \A c \in {1, 2} : Fit(z)[c] = IF z[c] < MinSize[c] THEN MinSize[c] ELSE z[c]
    BY DEF Fit
  <1>3. \A c \in {1, 2} : Fit(z)[c] \in Int /\ ~ (Fit(z)[c] < MinSize[c])
    BY <1>1, <1>2
  <1>4. Fit(z) \in Size
    BY <1>2, <1>3, SizeCoordinates
  <1>5. Fit(Fit(z)) = [c \in {1, 2} |-> Fit(z)[c]]
    BY <1>3 DEF Fit
  <1> QED
    BY <1>2, <1>4, <1>5

----------------------------------------------------------------------------
(* Pages.                                                                  *)

LEMMA FullRect == ASSUME NEW z \in Size PROVE Full(z) \in Rect
  BY DEF Full, Rect

LEMMA ClipRect == ASSUME NEW op PROVE ClipOf(op) \in Rect
  BY DEF ClipOf, Rect

(* A page whose clips and draw calls are gone gets clip 0.                 *)
LEMMA FirstClip ==
    ASSUME NEW p \in Page, p.cps = <<>>, p.dcs = <<>>
    PROVE  LET q == WithClip(p, Full(p.size)) IN
             GoodPage(q) /\ q.id = p.id /\ q.size = p.size /\ q.dcs = <<>>
  <1> DEFINE c == [id |-> 0, rect |-> Full(p.size)]
             q == [p EXCEPT !.cps = <<c>>]
  <1>1. WithClip(p, Full(p.size)) = q
    BY DEF WithClip, Page
  <1>2. c \in Clip /\ <<c>> \in Seq(Clip)
    <2>1. Full(p.size) \in Rect
      BY FullRect DEF Page
    <2> QED
      BY <2>1 DEF Clip
  <1>3. q \in Page /\ q.id = p.id /\ q.size = p.size /\ q.dcs = <<>> /\ q.cps = <<c>>
    BY <1>2 DEF Page
  <1>4. ClipsNumbered(q) /\ Recorded(q) = {}
    BY <1>3 DEF ClipsNumbered, Recorded
  <1>5. GoodPage(q)
    BY <1>3, <1>4 DEF GoodPage, ShowsOwn, LaidOutFor, Clipped
  <1> QED
    BY <1>1, <1>3, <1>5

LEMMA WithDrawCalls ==
    ASSUME NEW p \in Page, NEW a \in Seq(DrawCall)
    PROVE  LET q == [p EXCEPT !.dcs = a] IN
             q \in Page /\ q.id = p.id /\ q.size = p.size /\ q.dcs = a /\ q.cps = p.cps
  BY DEF Page

LEMMA WithClips ==
    ASSUME NEW p \in Page, NEW b \in Seq(Clip)
    PROVE  LET q == [p EXCEPT !.cps = b] IN
             q \in Page /\ q.id = p.id /\ q.size = p.size /\ q.dcs = p.dcs /\ q.cps = b
  BY DEF Page

LEMMA ClearedGood ==
    ASSUME NEW p \in Page
    PROVE  LET q == Cleared(p) IN
             GoodPage(q) /\ q.id = p.id /\ q.size = p.size /\ q.dcs = <<>>
  <1> DEFINE d == [p EXCEPT !.dcs = <<>>]
             e == [d EXCEPT !.cps = <<>>]
  <1>0. <<>> \in Seq(DrawCall) /\ <<>> \in Seq(Clip)
    OBVIOUS
  <1>1. d \in Page /\ d.dcs = <<>> /\ d.size = p.size /\ d.id = p.id
    BY <1>0, WithDrawCalls, Zenon
  <1> HIDE DEF d
  <1>2. e \in Page /\ e.cps = <<>> /\ e.dcs = <<>> /\ e.size = p.size /\ e.id = p.id
    BY <1>0, <1>1, WithClips, Zenon
  <1> HIDE DEF e
  <1>3. Cleared(p) = WithClip(e, Full(e.size))
    BY <1>2 DEF Cleared, d, e
  <1> QED
    BY <1>2, <1>3, FirstClip

LEMMA ResizedGood ==
    ASSUME NEW p \in Page, NEW z \in Size
    PROVE  LET q == Cleared([p EXCEPT !.size = z]) IN
             GoodPage(q) /\ q.id = p.id /\ q.size = z /\ q.dcs = <<>>
  <1> DEFINE r == [p EXCEPT !.size = z]
  <1>1. r \in Page /\ r.id = p.id /\ r.size = z
    BY DEF Page
  <1> HIDE DEF r
  <1>2. LET q == Cleared(r) IN
          GoodPage(q) /\ q.id = p.id /\ q.size = z /\ q.dcs = <<>>
    BY <1>1, ClearedGood
  <1> QED
    BY <1>2 DEF r

LEMMA NewPageGood ==
    ASSUME NEW id \in 0..(MaxPlots - 1), NEW z \in Size
    PROVE  LET q == NewPage(id, z) IN
             GoodPage(q) /\ q.id = id /\ q.size = z /\ q.dcs = <<>>
  <1> DEFINE e == [id |-> id, size |-> z, dcs |-> <<>>, cps |-> <<>>]
  <1>1. e \in Page /\ e.cps = <<>> /\ e.dcs = <<>> /\ e.size = z /\ e.id = id
    BY DEF Page
  <1>2. NewPage(id, z) = WithClip(e, Full(e.size))
    BY <1>1 DEF NewPage
  <1> HIDE DEF e
  <1> QED
    BY <1>1, <1>2, FirstClip

LEMMA WithClipGood ==
    ASSUME NEW p, GoodPage(p), NEW rect \in Rect
    PROVE  LET q == WithClip(p, rect) IN
             /\ GoodPage(q)
             /\ q.id = p.id /\ q.size = p.size /\ q.dcs = p.dcs
             /\ q.cps[Len(q.cps)].rect = rect
  <1> DEFINE c == [id |-> Len(p.cps), rect |-> rect]
             m == Len(p.cps)
             b == Append(p.cps, c)
             q == [p EXCEPT !.cps = b]
  <1>1. p \in Page /\ p.cps \in Seq(Clip) /\ p.dcs \in Seq(DrawCall) /\ p.cps # <<>>
    BY DEF GoodPage, Page, ClipsNumbered
  <1>2. c \in Clip
    BY <1>1 DEF Clip
  <1>3. /\ b \in Seq(Clip)
        /\ Len(b) = m + 1
        /\ \A n \in 1..m : b[n] = p.cps[n]
        /\ b[m + 1] = c
    BY <1>1, <1>2, AppendProperties
  <1>4. /\ q \in Page /\ q.cps = b /\ q.dcs = p.dcs /\ q.size = p.size /\ q.id = p.id
    BY <1>1, <1>3 DEF Page
  <1>5. m \in Nat /\ m > 0 /\ \A k \in 1..Len(p.dcs) : p.dcs[k].clip \in 0..(m - 1)
    <2>1. \A k \in 1..Len(p.dcs) : p.dcs[k] \in DrawCall
      BY <1>1
    <2>2. \A k \in 1..Len(p.dcs) : p.dcs[k].clip \in Nat
      BY <2>1 DEF DrawCall
    <2> QED
      BY <1>1, <2>2 DEF GoodPage, ClipsNumbered
  <1>6. CASE p.cps # <<>> /\ Last(p.cps).rect = rect
    BY <1>1, <1>6, LastOf DEF WithClip
  <1>7. CASE ~ (p.cps # <<>> /\ Last(p.cps).rect = rect)
    <2>1. WithClip(p, rect) = q
      BY <1>7 DEF WithClip
    <2>2. c.id = m /\ c.rect = rect
      OBVIOUS
    <2> HIDE DEF b, q, c
    <2>3. ClipsNumbered(q)
      <3>1. b # <<>>
        BY <1>3, <1>5
      <3>2. \A k \in 1..(m + 1) : b[k].id = k - 1
        <4>1. \A k \in 1..m : p.cps[k].id = k - 1
          BY DEF GoodPage, ClipsNumbered
        <4>2. \A k \in 1..(m + 1) : k \in 1..m \/ k = m + 1
          BY <1>5
        <4> QED
          BY <1>3, <1>5, <2>2, <4>1, <4>2
      <3>3. \A k \in 1..Len(p.dcs) : p.dcs[k].clip < m + 1
        BY <1>5
      <3> QED
        BY <1>3, <1>4, <3>1, <3>2, <3>3 DEF ClipsNumbered
    <2>4. ShowsOwn(q) /\ LaidOutFor(q)
      BY <1>4 DEF GoodPage, ShowsOwn, LaidOutFor, Recorded
    <2>5. Clipped(q)
      <3> SUFFICES ASSUME NEW k \in 1..Len(p.dcs), p.dcs[k].op.n # 0
                   PROVE  b[p.dcs[k].clip + 1].rect = ClipOf(p.dcs[k].op)
        BY <1>4 DEF Clipped, Recorded
      <3>1. p.dcs[k].clip + 1 \in 1..m
        BY <1>5
      <3>2. p.cps[p.dcs[k].clip + 1].rect = ClipOf(p.dcs[k].op)
        BY DEF GoodPage, Clipped, Recorded
      <3> QED
        BY <1>3, <3>1, <3>2
    <2> QED
      BY <1>3, <1>4, <2>1, <2>2, <2>3, <2>4, <2>5 DEF GoodPage
  <1> QED
    BY <1>6, <1>7

(* What dev_mode(0) does to the page after a drawing callback: the clip of *)
(* the operation, what is left in the buffer, the operation.               *)
Drawn(p, b, op) == WithDcs(WithClip(p, ClipOf(op)), Append(b, op))

(* Draw calls that are put on a page keep those that are there.            *)
LEMMA WithDcsElements ==
    ASSUME NEW p, GoodPage(p), NEW ops \in Seq(DrawnOp)
    PROVE  LET q == WithDcs(p, ops)
               m == Len(p.dcs) IN
             /\ q \in Page /\ q.id = p.id /\ q.size = p.size /\ q.cps = p.cps
             /\ m \in Nat /\ Len(q.dcs) = m + Len(ops)
             /\ \A k \in 1..m : q.dcs[k] = p.dcs[k]
             /\ \A k \in 1..Len(ops) :
                  q.dcs[m + k].op = ops[k] /\ q.dcs[m + k].clip = Len(p.cps) - 1
             /\ Len(p.cps) \in Nat /\ Len(p.cps) > 0
  <1> DEFINE clip == Last(p.cps).id
             new == [n \in 1..Len(ops) |-> [op |-> ops[n], clip |-> clip]]
             m == Len(p.dcs)
             a == p.dcs \o new
             q == [p EXCEPT !.dcs = a]
  <1>1. p \in Page /\ p.cps \in Seq(Clip) /\ p.dcs \in Seq(DrawCall) /\ p.cps # <<>>
    BY DEF GoodPage, Page, ClipsNumbered
  <1>2. clip = Len(p.cps) - 1 /\ clip \in Nat
    BY <1>1, LastOf DEF GoodPage, ClipsNumbered
  <1>3. /\ new \in Seq(DrawCall) /\ Len(new) = Len(ops)
        /\ \A k \in 1..Len(ops) : new[k].op = ops[k] /\ new[k].clip = clip
    <2>1. \A k \in 1..Len(ops) : [op |-> ops[k], clip |-> clip] \in DrawCall
      BY <1>2 DEF DrawCall
    <2> HIDE DEF clip
    <2>2. Len(ops) \in Nat /\ new \in [1..Len(ops) -> DrawCall]
      BY <2>1
    <2>3. new \in Seq(DrawCall) /\ Len(new) = Len(ops)
      BY <2>2, SeqDef, LenProperties
    <2>4. \A k \in 1..Len(ops) : new[k].op = ops[k] /\ new[k].clip = clip
      OBVIOUS
    <2> QED
      BY <2>3, <2>4
  <1> HIDE DEF clip, new
  <1>4. /\ a \in Seq(DrawCall)
        /\ Len(a) = m + Len(ops)
        /\ \A k \in 1..(m + Len(ops)) : a[k] = IF k <= m THEN p.dcs[k] ELSE new[k - m]
    <2>0. p.dcs \in Seq(DrawCall) /\ new \in Seq(DrawCall)
      BY <1>1, <1>3
    <2>1. /\ p.dcs \o new \in Seq(DrawCall)
          /\ Len(p.dcs \o new) = Len(p.dcs) + Len(new)
          /\ \A k \in 1..(Len(p.dcs) + Len(new)) : (p.dcs \o new)[k] =
                IF k <= Len(p.dcs) THEN p.dcs[k] ELSE new[k - Len(p.dcs)]
      BY <2>0, ConcatProperties, Z3
    <2> QED
      BY <1>3, <2>1
  <1>5. m \in Nat /\ Len(ops) \in Nat
    BY <1>1
  <1>6. /\ \A k \in 1..m : a[k] = p.dcs[k]
        /\ \A k \in 1..Len(ops) : a[m + k] = new[k]
    <2> HIDE DEF a, m
    <2> QED
      BY <1>4, <1>5
  <1>7. WithDcs(p, ops) = q
    BY DEF WithDcs, new, clip
  <1> HIDE DEF a
  <1>8. q \in Page /\ q.dcs = a /\ q.cps = p.cps /\ q.size = p.size /\ q.id = p.id
    BY <1>1, <1>4, WithDrawCalls, Zenon
  <1>9. Len(p.cps) \in Nat /\ Len(p.cps) > 0
    BY <1>1
  <1> HIDE DEF q
  <1> QED
    BY <1>2, <1>3, <1>4, <1>5, <1>6, <1>7, <1>8, <1>9

(* An operation that belongs on a page leaves it good, and whole if it was *)
(* whole before.                                                           *)
LEMMA DrawnGood ==
    ASSUME NEW p, GoodPage(p),
           NEW b \in Seq(DrawnOp), \A k \in 1..Len(b) : b[k].n = 0,
           NEW op \in DrawnOp, op.n # 0, op.plot = p.id, op.size = Fit(p.size),
           UpTo(p, op.n - 1)
    PROVE  LET q == Drawn(p, b, op) IN
             /\ GoodPage(q) /\ q.id = p.id /\ q.size = p.size
             /\ q.dcs # <<>>
             /\ UpTo(q, op.n)
             /\ b = <<>> /\ Whole(p, op.n - 1) => Whole(q, op.n)
  <1> DEFINE r == WithClip(p, ClipOf(op))
             ops == Append(b, op)
             q == Drawn(p, b, op)
             m == Len(p.dcs)
  <1>1. /\ GoodPage(r) /\ r.id = p.id /\ r.size = p.size /\ r.dcs = p.dcs
        /\ r.cps[Len(r.cps)].rect = ClipOf(op)
    BY ClipRect, WithClipGood
  <1>2. /\ ops \in Seq(DrawnOp) /\ Len(ops) = Len(b) + 1 /\ Len(b) \in Nat
        /\ \A k \in 1..Len(b) : ops[k].n = 0
        /\ ops[Len(b) + 1] = op
    BY AppendProperties
  <1>3. q = WithDcs(r, ops)
    BY DEF Drawn
  <1> HIDE DEF r, ops, q
  <1>4. /\ q \in Page /\ q.id = r.id /\ q.size = r.size /\ q.cps = r.cps
        /\ m \in Nat /\ Len(q.dcs) = m + Len(ops)
        /\ \A k \in 1..m : q.dcs[k] = p.dcs[k]
        /\ \A k \in 1..Len(ops) :
              q.dcs[m + k].op = ops[k] /\ q.dcs[m + k].clip = Len(r.cps) - 1
        /\ Len(r.cps) \in Nat /\ Len(r.cps) > 0
    <2>1. LET x == WithDcs(r, ops)
              y == Len(r.dcs) IN
            /\ x \in Page /\ x.id = r.id /\ x.size = r.size /\ x.cps = r.cps
            /\ y \in Nat /\ Len(x.dcs) = y + Len(ops)
            /\ \A k \in 1..y : x.dcs[k] = r.dcs[k]
            /\ \A k \in 1..Len(ops) :
                  x.dcs[y + k].op = ops[k] /\ x.dcs[y + k].clip = Len(r.cps) - 1
            /\ Len(r.cps) \in Nat /\ Len(r.cps) > 0
      BY <1>1, <1>2, WithDcsElements, Zenon
    <2> QED
      BY <1>1, <1>3, <2>1
  <1>a. m = Len(p.dcs)
    BY DEF m
  <1> HIDE DEF m
  <1> DEFINE l == m + Len(b) + 1
  <1>5. Len(q.dcs) = l /\ l \in Nat /\ l > m
    BY <1>2, <1>4 DEF l
  <1>b. l = m + Len(b) + 1
    BY DEF l
  <1> HIDE DEF l
  <1>6. op.n \in Nat /\ \A k \in 1..m : p.dcs[k].op.n \in Nat
    <2>1. p.dcs \in Seq(DrawCall)
      BY DEF GoodPage, Page
    <2>2. \A k \in 1..m : p.dcs[k] \in DrawCall
      BY <1>a, <2>1
    <2> QED
      BY <2>2 DEF DrawCall, DrawnOp
  <1>7. q.dcs[l].op = op /\ q.dcs[l].clip + 1 = Len(q.cps)
    <2>1. Len(b) + 1 \in 1..Len(ops) /\ m + (Len(b) + 1) = l
      BY <1>b, <1>2, <1>4
    <2> QED
      BY <1>2, <1>4, <2>1
  (* The recorded operations: those of p and the new one.                  *)
  <1>8. \A k \in Recorded(q) :
            \/ k \in Recorded(p) /\ k <= m /\ q.dcs[k] = p.dcs[k]
            \/ k = l
    <2> SUFFICES ASSUME NEW k \in 1..l, q.dcs[k].op.n # 0, k # l
                 PROVE  k \in 1..m /\ q.dcs[k] = p.dcs[k]
      BY <1>a, <1>5 DEF Recorded
    <2>1. CASE k <= m
      BY <1>4, <2>1
    <2>2. CASE k > m
      <3>1. k - m \in 1..Len(b) /\ k - m \in 1..Len(ops) /\ m + (k - m) = k
        <4> DEFINE u == Len(b)
                   v == Len(ops)
        <4>1. m \in Nat /\ u \in Nat /\ v = u + 1 /\ l = m + u + 1
          BY <1>b, <1>2, <1>4
        <4> HIDE DEF u, v
        <4>2. k - m \in 1..u /\ k - m \in 1..v /\ m + (k - m) = k
          BY <2>2, <4>1
        <4> QED
          BY <4>2 DEF u, v
      <3>2. q.dcs[k].op = ops[k - m] /\ ops[k - m].n = 0
        BY <1>2, <1>4, <3>1
      <3> QED
        BY <3>2
    <2> QED
      BY <1>4, <2>1, <2>2
  <1>9. ClipsNumbered(q)
    <2>1. \A k \in 1..l : q.dcs[k].clip < Len(r.cps)
      <3> TAKE k \in 1..l
      <3>1. CASE k <= m
        <4>1. k \in 1..m /\ q.dcs[k] = p.dcs[k]
          BY <1>4, <3>1
        <4> QED
          BY <1>a, <1>1, <4>1 DEF GoodPage, ClipsNumbered
      <3>2. CASE k > m
        <4>1. k - m \in 1..Len(ops) /\ m + (k - m) = k
          BY <1>b, <1>2, <1>4, <3>2
        <4>2. q.dcs[m + (k - m)].clip = Len(r.cps) - 1
          BY <1>4, <4>1
        <4> QED
          BY <1>4, <4>1, <4>2
      <3> QED
        BY <1>4, <3>1, <3>2
    <2> QED
      BY <1>1, <1>4, <1>5, <2>1 DEF GoodPage, ClipsNumbered
  <1>10. ShowsOwn(q)
    <2>1. \A k \in Recorded(q) : q.dcs[k].op.plot = q.id
      BY <1>1, <1>4, <1>7, <1>8 DEF GoodPage, ShowsOwn
    <2>2. ASSUME NEW j \in Recorded(q), NEW k \in Recorded(q), j < k
          PROVE  q.dcs[j].op.n < q.dcs[k].op.n
      <3>1. j \in 1..l /\ k \in 1..l
        BY <1>5 DEF Recorded
      <3>2. j # l
        BY <1>5, <2>2, <3>1
      <3>3. j \in Recorded(p) /\ q.dcs[j] = p.dcs[j]
        BY <1>8, <3>2
      <3>4. CASE k = l
        <4>1. p.dcs[j].op.n <= op.n - 1 /\ p.dcs[j].op.n \in Nat
          BY <1>a, <1>6, <3>3 DEF UpTo, Recorded
        <4> QED
          BY <1>6, <1>7, <3>3, <3>4, <4>1
      <3>5. CASE k # l
        BY <1>8, <2>2, <3>3, <3>5 DEF GoodPage, ShowsOwn
      <3> QED
        BY <3>4, <3>5
    <2> QED
      BY <2>1, <2>2 DEF ShowsOwn
  <1>11. LaidOutFor(q)
    BY <1>1, <1>4, <1>7, <1>8 DEF GoodPage, LaidOutFor
  <1>12. Clipped(q)
    <2> SUFFICES ASSUME NEW k \in Recorded(q)
                 PROVE  q.cps[q.dcs[k].clip + 1].rect = ClipOf(q.dcs[k].op)
      BY DEF Clipped
    <2>1. CASE k = l
      BY <1>1, <1>4, <1>7, <2>1
    <2>2. CASE k # l
      <3>1. k \in Recorded(r) /\ q.dcs[k] = r.dcs[k]
        BY <1>1, <1>8, <2>2 DEF Recorded
      <3> QED
        BY <1>1, <1>4, <3>1 DEF GoodPage, Clipped
    <2> QED
      BY <2>1, <2>2
  <1>13. UpTo(q, op.n)
    <2> SUFFICES ASSUME NEW k \in Recorded(q)
                 PROVE  q.dcs[k].op.n <= op.n
      BY DEF UpTo
    <2>1. CASE k = l
      BY <1>6, <1>7, <2>1
    <2>2. CASE k # l
      <3>1. k \in Recorded(p) /\ q.dcs[k] = p.dcs[k] /\ k \in 1..m
        BY <1>a, <1>8, <2>2 DEF Recorded
      <3>2. p.dcs[k].op.n <= op.n - 1
        BY <3>1 DEF UpTo
      <3> QED
        BY <1>6, <3>1, <3>2
    <2> QED
      BY <2>1, <2>2
  <1>14. ASSUME b = <<>>, Whole(p, op.n - 1)
         PROVE  Whole(q, op.n)
    <2>1. l = op.n /\ m = op.n - 1
      BY <1>a, <1>b, <1>6, <1>14 DEF Whole
    <2>2. \A k \in 1..op.n : q.dcs[k].op.n = k
      <3> TAKE k \in 1..op.n
      <3>1. CASE k = op.n
        BY <1>7, <2>1, <3>1
      <3>2. CASE k # op.n
        <4>1. k \in 1..m
          BY <1>6, <2>1, <3>2
        <4> QED
          BY <1>4, <1>14, <2>1, <4>1 DEF Whole
      <3> QED
        BY <3>1, <3>2
    <2> QED
      BY <1>5, <2>1, <2>2 DEF Whole
  <1>15. q.dcs # <<>>
    BY <1>5, <1>4
  <1>16. GoodPage(q)
    BY <1>4, <1>9, <1>10, <1>11, <1>12 DEF GoodPage
  <1> QED
    BY <1>1, <1>4, <1>13, <1>14, <1>15, <1>16 DEF q

----------------------------------------------------------------------------
(* Stores.                                                                 *)

(* The store t is s with another page at position n.                       *)
OnlyPage(s, t, n) ==
    /\ t \in Store
    /\ t.idCounter = s.idCounter /\ t.active = s.active
    /\ Len(t.pages) = Len(s.pages)
    /\ \A k \in 1..Len(s.pages) : k # n => t.pages[k] = s.pages[k]

LEMMA IndexOf ==
    ASSUME NEW s \in Store, NEW i \in Nat
    PROVE  /\ ValidIndex(s, i) <=> i < Len(s.pages)
           /\ Pos(s, i) = i + 1
           /\ Len(s.pages) \in Nat
  BY DEF Store, ValidIndex, Pos

LEMMA PageAt ==
    ASSUME NEW s \in Store, NEW n \in 1..Len(s.pages)
    PROVE  s.pages[n] \in Page
  BY DEF Store

LEMMA UpdatePage ==
    ASSUME NEW s \in Store, NEW n \in 1..Len(s.pages), NEW q \in Page
    PROVE  LET t == [s EXCEPT !.pages[n] = q] IN
             OnlyPage(s, t, n) /\ t.pages[n] = q
  <1> DEFINE a == s.pages
             b == [a EXCEPT ![n] = q]
             t == [s EXCEPT !.pages = b]
  <1>1. a \in Seq(Page)
    BY DEF Store
  <1>2. b \in Seq(Page) /\ Len(b) = Len(a) /\ b[n] = q
    BY <1>1
  <1>3. \A k \in 1..Len(a) : k # n => b[k] = a[k]
    OBVIOUS
  <1>4. [s EXCEPT !.pages[n] = q] = t
    OBVIOUS
  <1> HIDE DEF b
  <1>5. t \in Store /\ t.pages = b /\ t.idCounter = s.idCounter /\ t.active = s.active
    BY <1>2 DEF Store
  <1> HIDE DEF t
  <1> QED
    BY <1>2, <1>3, <1>4, <1>5 DEF OnlyPage

LEMMA TouchStore ==
    ASSUME NEW s \in Store, NEW silent \in BOOLEAN
    PROVE  LET t == Touch(s, silent) IN
             /\ t \in Store /\ t.pages = s.pages
             /\ t.idCounter = s.idCounter /\ t.active = s.active
  BY CounterAssumption DEF Touch, Store, IncWrap

LEMMA ClearPageStore ==
    ASSUME NEW s \in Store, NEW i \in Nat, i < Len(s.pages)
    PROVE  LET t == ClearPage(s, i, TRUE) IN
             OnlyPage(s, t, i + 1) /\ t.pages[i + 1] = Cleared(s.pages[i + 1])
  <1> DEFINE q == Cleared(s.pages[i + 1])
  <1>1. i + 1 \in 1..Len(s.pages) /\ ValidIndex(s, i) /\ Pos(s, i) = i + 1
    BY IndexOf
  <1>2. q \in Page
    BY <1>1, PageAt, ClearedGood DEF GoodPage
  <1>3. ClearPage(s, i, TRUE) = [s EXCEPT !.pages[i + 1] = q]
    BY <1>1 DEF ClearPage, Touch
  <1> HIDE DEF q
  <1>4. LET t == [s EXCEPT !.pages[i + 1] = q] IN
          OnlyPage(s, t, i + 1) /\ t.pages[i + 1] = q
    BY <1>1, <1>2, UpdatePage, Zenon
  <1> QED
    BY <1>3, <1>4 DEF q

LEMMA ResizeStore ==
    ASSUME NEW s \in Store, NEW i \in Nat, i < Len(s.pages), NEW z \in Size
    PROVE  LET t == Resize(s, i, z)
               p == s.pages[i + 1]
               q == t.pages[i + 1] IN
             /\ OnlyPage(s, t, i + 1)
             /\ GoodPage(q) /\ q.id = p.id /\ q.size = z /\ q.dcs = <<>>
  <1> DEFINE q == Cleared([s.pages[i + 1] EXCEPT !.size = z])
  <1>1. i + 1 \in 1..Len(s.pages) /\ ValidIndex(s, i) /\ Pos(s, i) = i + 1
    BY IndexOf
  <1>2. GoodPage(q) /\ q.id = s.pages[i + 1].id /\ q.size = z /\ q.dcs = <<>>
    BY <1>1, PageAt, ResizedGood, Zenon
  <1>3. Resize(s, i, z) = [s EXCEPT !.pages[i + 1] = q]
    BY <1>1 DEF Resize
  <1> HIDE DEF q
  <1>4. LET t == [s EXCEPT !.pages[i + 1] = q] IN
          OnlyPage(s, t, i + 1) /\ t.pages[i + 1] = q
    BY <1>1, <1>2, UpdatePage, Zenon DEF GoodPage
  <1> QED
    BY <1>2, <1>3, <1>4

LEMMA ClipPageStore ==
    ASSUME NEW s \in Store, NEW i \in Nat, i < Len(s.pages), NEW rect \in Rect,
           GoodPage(s.pages[i + 1])
    PROVE  LET t == ClipPage(s, i, rect) IN
             OnlyPage(s, t, i + 1) /\ t.pages[i + 1] = WithClip(s.pages[i + 1], rect)
  <1> DEFINE q == WithClip(s.pages[i + 1], rect)
  <1>1. i + 1 \in 1..Len(s.pages) /\ ValidIndex(s, i) /\ Pos(s, i) = i + 1
    BY IndexOf
  <1>2. q \in Page
    BY WithClipGood DEF GoodPage
  <1>3. ClipPage(s, i, rect) = [s EXCEPT !.pages[i + 1] = q]
    BY <1>1 DEF ClipPage
  <1> HIDE DEF q
  <1>4. LET t == [s EXCEPT !.pages[i + 1] = q] IN
          OnlyPage(s, t, i + 1) /\ t.pages[i + 1] = q
    BY <1>1, <1>2, UpdatePage, Zenon
  <1> QED
    <2>1. OnlyPage(s, ClipPage(s, i, rect), i + 1) /\ ClipPage(s, i, rect).pages[i + 1] = q
      BY <1>3, <1>4, Zenon
    <2> QED
      BY <2>1 DEF q

LEMMA AddDcsStore ==
    ASSUME NEW s \in Store, NEW i \in Nat, i < Len(s.pages),
           NEW ops \in Seq(DrawnOp), NEW silent \in BOOLEAN, GoodPage(s.pages[i + 1])
    PROVE  LET t == AddDcs(s, i, ops, silent) IN
             OnlyPage(s, t, i + 1) /\ t.pages[i + 1] = WithDcs(s.pages[i + 1], ops)
  <1> DEFINE q == WithDcs(s.pages[i + 1], ops)
             u == [s EXCEPT !.pages[i + 1] = q]
  <1>1. i + 1 \in 1..Len(s.pages) /\ ValidIndex(s, i) /\ Pos(s, i) = i + 1
    BY IndexOf
  <1>2. q \in Page
    BY WithDcsElements
  <1>3. AddDcs(s, i, ops, silent) = Touch(u, silent)
    BY <1>1 DEF AddDcs
  <1> HIDE DEF q
  <1>4. OnlyPage(s, u, i + 1) /\ u.pages[i + 1] = q
    BY <1>1, <1>2, UpdatePage, Zenon
  <1> HIDE DEF u
  <1> QED
    BY <1>3, <1>4, TouchStore DEF q, OnlyPage

LEMMA OnlyPageTrans ==
    ASSUME NEW r, NEW s, NEW t, NEW n, OnlyPage(r, s, n), OnlyPage(s, t, n)
    PROVE  OnlyPage(r, t, n)
  BY DEF OnlyPage

(* An operation on the page it goes to.                                    *)
LEMMA DrawOnPage ==
    ASSUME NEW s \in Store, NEW i \in Nat, i < Len(s.pages),
           NEW b \in Seq(DrawnOp), NEW op \in DrawnOp, NEW silent \in BOOLEAN,
           GoodPage(s.pages[i + 1])
    PROVE  LET t == AddDcs(ClipPage(s, i, ClipOf(op)), i, Append(b, op), silent) IN
             OnlyPage(s, t, i + 1) /\ t.pages[i + 1] = Drawn(s.pages[i + 1], b, op)
  <1> DEFINE u == ClipPage(s, i, ClipOf(op))
             ops == Append(b, op)
             t == AddDcs(u, i, ops, silent)
  <1>1. OnlyPage(s, u, i + 1) /\ u.pages[i + 1] = WithClip(s.pages[i + 1], ClipOf(op))
    BY ClipRect, ClipPageStore
  <1>2. GoodPage(u.pages[i + 1])
    BY <1>1, ClipRect, WithClipGood
  <1>3. ops \in Seq(DrawnOp)
    OBVIOUS
  <1>4. u \in Store /\ i < Len(u.pages)
    BY <1>1 DEF OnlyPage
  <1> HIDE DEF u, ops
  <1>5. OnlyPage(u, t, i + 1) /\ t.pages[i + 1] = WithDcs(u.pages[i + 1], ops)
    BY <1>2, <1>3, <1>4, AddDcsStore
  <1> HIDE DEF t
  <1>6. OnlyPage(s, t, i + 1)
    BY <1>1, <1>5, OnlyPageTrans
  <1> QED
    BY <1>1, <1>5, <1>6 DEF u, ops, t, Drawn

LEMMA IdsOf ==
    ASSUME NEW s \in Store
    PROVE  /\ Ids(s) \in Seq(0..(MaxPlots - 1))
           /\ Len(Ids(s)) = Len(s.pages)
           /\ \A n \in 1..Len(s.pages) : Ids(s)[n] = s.pages[n].id
  <1>1. Len(s.pages) \in Nat
    BY DEF Store
  <1>2. \A n \in 1..Len(s.pages) : s.pages[n].id \in 0..(MaxPlots - 1)
    BY PageAt DEF Page
  <1>3. Ids(s) \in [1..Len(s.pages) -> 0..(MaxPlots - 1)]
    BY <1>2 DEF Ids
  <1>4. Ids(s) \in Seq(0..(MaxPlots - 1))
    BY <1>1, <1>3, SeqDef
  <1>5. Len(Ids(s)) = Len(s.pages)
    BY <1>1, <1>3, <1>4, LenProperties
  <1> QED
    BY <1>4, <1>5 DEF Ids

----------------------------------------------------------------------------
(* Induction on the operations of a replay needs the equation of the       *)
(* recursive function Progress: functions on 0..n that satisfy it up to n  *)
(* exist and agree, together they satisfy it on the natural numbers.       *)

PartialProgress(g, d, drawing, n) ==
    g = [k \in 0..n |->
            IF k = 0 THEN NewPageReplay(d) ELSE ReplayOp(g[k - 1], drawing, k)]

LEMMA PartialProgressExists ==
    ASSUME NEW d, NEW drawing, NEW n \in Nat
    PROVE  \E g : PartialProgress(g, d, drawing, n)
  <1> DEFINE S == {m \in Nat : \E g : PartialProgress(g, d, drawing, m)}
  <1>1. 0 \in S
    <2> DEFINE g == [k \in 0..0 |-> NewPageReplay(d)]
    <2>1. PartialProgress(g, d, drawing, 0)
      BY DEF PartialProgress
    <2> QED
      BY <2>1
  <1>2. ASSUME NEW m \in Nat, m \in S
        PROVE  m + 1 \in S
    <2>1. PICK g : PartialProgress(g, d, drawing, m)
      BY <1>2
    <2> DEFINE h == [k \in 0..(m + 1) |-> IF k <= m THEN g[k] ELSE ReplayOp(g[m], drawing, k)]
    <2>2. \A k \in 0..m : g[k] = IF k = 0 THEN NewPageReplay(d)
                                 ELSE ReplayOp(g[k - 1], drawing, k)
      BY <2>1 DEF PartialProgress
    <2>3. \A k \in 0..(m + 1) : h[k] = IF k = 0 THEN NewPageReplay(d)
                                       ELSE ReplayOp(h[k - 1], drawing, k)
      <3> TAKE k \in 0..(m + 1)
      <3>1. CASE k = 0
        BY <2>2, <3>1
      <3>2. CASE k \in 1..m
        <4>1. k - 1 \in 0..m /\ k \in 0..m
          BY <3>2
        <4> QED
          BY <2>2, <3>2, <4>1
      <3>3. CASE k = m + 1
        BY <3>3
      <3> QED
        BY <3>1, <3>2, <3>3
    <2>4. h = [k \in 0..(m + 1) |-> h[k]]
      OBVIOUS
    <2> HIDE DEF h
    <2>5. PartialProgress(h, d, drawing, m + 1)
      BY <2>3, <2>4 DEF PartialProgress
    <2> QED
      BY <2>5
  <1> HIDE DEF S
  <1>3. Nat \subseteq S
    BY <1>1, <1>2, SetInduction
  <1> QED
    BY <1>3 DEF S

LEMMA PartialProgressAgrees ==
    ASSUME NEW d, NEW drawing, NEW m \in Nat, NEW n \in Nat, NEW g, NEW h,
           PartialProgress(g, d, drawing, m), PartialProgress(h, d, drawing, n)
    PROVE  \A k \in Nat : k <= m /\ k <= n => g[k] = h[k]
  <1> DEFINE S == {k \in Nat : k <= m /\ k <= n => g[k] = h[k]}
  <1>1. /\ \A k \in 0..m : g[k] = IF k = 0 THEN NewPageReplay(d)
                                  ELSE ReplayOp(g[k - 1], drawing, k)
        /\ \A k \in 0..n : h[k] = IF k = 0 THEN NewPageReplay(d)
                                  ELSE ReplayOp(h[k - 1], drawing, k)
    BY DEF PartialProgress
  <1>2. 0 \in S
    BY <1>1
  <1>3. ASSUME NEW k \in Nat, k \in S
        PROVE  k + 1 \in S
    BY <1>1, <1>3
  <1> HIDE DEF S
  <1>4. Nat \subseteq S
    BY <1>2, <1>3, SetInduction
  <1> QED
    BY <1>4 DEF S

LEMMA ProgressEquation ==
    ASSUME NEW d, NEW drawing
    PROVE  /\ Progress(d, drawing)[0] = NewPageReplay(d)
           /\ \A k \in Nat : Progress(d, drawing)[k + 1]
                               = ReplayOp(Progress(d, drawing)[k], drawing, k + 1)
  <1> DEFINE part(n) == CHOOSE g : PartialProgress(g, d, drawing, n)
             f == [n \in Nat |-> part(n)[n]]
             Solves(h) == h = [k \in Nat |-> IF k = 0 THEN NewPageReplay(d)
                                             ELSE ReplayOp(h[k - 1], drawing, k)]
  <1>1. \A n \in Nat : PartialProgress(part(n), d, drawing, n)
    BY PartialProgressExists
  <1> HIDE DEF part
  <1>2. \A k \in Nat : f[k] = IF k = 0 THEN NewPageReplay(d)
                              ELSE ReplayOp(f[k - 1], drawing, k)
    <2> TAKE k \in Nat
    <2>1. part(k)[k] = IF k = 0 THEN NewPageReplay(d)
                       ELSE ReplayOp(part(k)[k - 1], drawing, k)
      BY <1>1 DEF PartialProgress
    <2>2. CASE k = 0
      BY <2>1, <2>2
    <2>3. CASE k # 0
      <3>1. k - 1 \in Nat /\ k - 1 <= k
        BY <2>3
      <3>2. part(k)[k - 1] = part(k - 1)[k - 1]
        <4>1. /\ PartialProgress(part(k), d, drawing, k)
              /\ PartialProgress(part(k - 1), d, drawing, k - 1)
          BY <1>1, <3>1
        <4> QED
          BY <3>1, <4>1, PartialProgressAgrees
      <3> QED
        BY <2>1, <2>3, <3>1, <3>2
    <2> QED
      BY <2>2, <2>3
  <1>3. f = [k \in Nat |-> f[k]]
    OBVIOUS
  <1> HIDE DEF f
  <1>4. Solves(f)
    BY <1>2, <1>3
  <1>5. Progress(d, drawing) = CHOOSE h : Solves(h)
    BY DEF Progress
  <1>6. Solves(Progress(d, drawing))
    <2> HIDE DEF Solves
    <2> QED
      BY <1>4, <1>5
  <1> DEFINE h == Progress(d, drawing)
  <1> HIDE DEF h
  <1>7. Solves(h)
    BY <1>6 DEF h
  <1>8. h[0] = NewPageReplay(d)
    BY <1>7
  <1>9. \A k \in Nat : h[k + 1] = ReplayOp(h[k], drawing, k + 1)
    BY <1>7
  <1> QED
    BY <1>8, <1>9 DEF h

----------------------------------------------------------------------------
(* Devices.                                                                *)

DeviceType ==
    [store : Store, target : Target, history : Seq(Drawing), buffer : Seq(DrawnOp),
     replaying : BOOLEAN, initialized : BOOLEAN, displayList : Drawing,
     devSize : Size, told : Seq(0..(MaxPlots - 1))]

(* What the callbacks of the device leave alone.                           *)
KeepsRest(d, e) ==
    /\ e \in DeviceType
    /\ e.target = d.target /\ e.history = d.history
    /\ e.replaying = d.replaying /\ e.initialized = d.initialized
    /\ e.displayList = d.displayList /\ e.devSize = d.devSize

(* A device whose target is the page of index i, or no page.               *)
Targets(d, i) ==
    /\ d \in DeviceType
    /\ i \in Nat /\ i < Len(d.store.pages)
    /\ d.target.index = i /\ ~d.target.void

TargetsNone(d) ==
    /\ d \in DeviceType
    /\ ~d.target.void => d.target.index >= Len(d.store.pages)

LEMMA WithStore ==
    ASSUME NEW d \in DeviceType, NEW s \in Store
    PROVE  LET e == [d EXCEPT !.store = s] IN
             KeepsRest(d, e) /\ e.store = s /\ e.buffer = d.buffer /\ e.told = d.told
  BY DEF DeviceType, KeepsRest

LEMMA WithBuffer ==
    ASSUME NEW d \in DeviceType, NEW b \in Seq(DrawnOp)
    PROVE  LET e == [d EXCEPT !.buffer = b] IN
             KeepsRest(d, e) /\ e.store = d.store /\ e.buffer = b /\ e.told = d.told
  BY DEF DeviceType, KeepsRest

LEMMA StateChangeFields ==
    ASSUME NEW d \in DeviceType
    PROVE  LET e == StateChange(d) IN
             /\ KeepsRest(d, e) /\ e.store = d.store /\ e.buffer = d.buffer
             /\ e.told = Ids(d.store)
  <1> DEFINE a == Ids(d.store)
  <1>1. a \in Seq(0..(MaxPlots - 1))
    BY IdsOf DEF DeviceType
  <1>2. StateChange(d) = [d EXCEPT !.told = a]
    BY DEF StateChange
  <1> HIDE DEF a
  <1>3. LET e == [d EXCEPT !.told = a] IN
          KeepsRest(d, e) /\ e.store = d.store /\ e.buffer = d.buffer /\ e.told = a
    BY <1>1 DEF DeviceType, KeepsRest
  <1> QED
    BY <1>2, <1>3 DEF a

LEMMA KeepsRestTrans ==
    ASSUME NEW d, NEW e, NEW f, KeepsRest(d, e), KeepsRest(e, f)
    PROVE  KeepsRest(d, f)
  BY DEF KeepsRest

(* A drawing operation with its dev_mode(0), on its page.                  *)
LEMMA OperationOnPage ==
    ASSUME NEW d, NEW i, Targets(d, i), NEW op \in DrawnOp,
           GoodPage(d.store.pages[i + 1])
    PROVE  LET e == Operation(d, op) IN
             /\ KeepsRest(d, e)
             /\ OnlyPage(d.store, e.store, i + 1)
             /\ e.store.pages[i + 1] = Drawn(d.store.pages[i + 1], d.buffer, op)
             /\ e.buffer = <<>> /\ e.told = Ids(e.store)
  <1>1. d \in DeviceType /\ d.store \in Store /\ d.buffer \in Seq(DrawnOp)
        /\ d.replaying \in BOOLEAN
    BY DEF Targets, DeviceType
  <1> DEFINE u == ClipPage(d.store, i, ClipOf(op))
             ops == Append(d.buffer, op)
             a == [d EXCEPT !.store = u]
             b == [a EXCEPT !.buffer = ops]
             t == AddDcs(u, i, ops, d.replaying)
             v == [b EXCEPT !.store = t]
             w == [v EXCEPT !.buffer = <<>>]
  <1>2. u \in Store
    BY <1>1, ClipRect, ClipPageStore DEF OnlyPage, Targets
  <1>3. ops \in Seq(DrawnOp)
    BY <1>1
  <1>4. OnlyPage(d.store, t, i + 1) /\ t.pages[i + 1] = Drawn(d.store.pages[i + 1], d.buffer, op)
    BY <1>1, DrawOnPage DEF Targets
  <1>5. t \in Store
    BY <1>4 DEF OnlyPage
  <1> HIDE DEF u, ops, t
  <1>6. KeepsRest(d, a) /\ a.store = u /\ a.buffer = d.buffer
    BY <1>1, <1>2, WithStore, Zenon
  <1>7. ClipAndPut(d, op) = b
    BY <1>6 DEF ClipAndPut, Targets, u, ops
  <1> HIDE DEF a
  <1>8. KeepsRest(d, b) /\ b.store = u /\ b.buffer = ops
    <2>1. a \in DeviceType
      BY <1>6 DEF KeepsRest
    <2>2. KeepsRest(a, b) /\ b.store = a.store /\ b.buffer = ops
      BY <2>1, <1>3, WithBuffer, Zenon
    <2> QED
      BY <1>6, <2>2, KeepsRestTrans
  <1> HIDE DEF b
  <1>9. KeepsRest(d, v) /\ v.store = t
    <2>1. b \in DeviceType
      BY <1>8 DEF KeepsRest
    <2>2. KeepsRest(b, v) /\ v.store = t
      BY <2>1, <1>5, WithStore, Zenon
    <2> QED
      BY <1>8, <2>2, KeepsRestTrans
  <1> HIDE DEF v
  <1>10. KeepsRest(d, w) /\ w.store = t /\ w.buffer = <<>>
    <2>1. v \in DeviceType /\ <<>> \in Seq(DrawnOp)
      BY <1>9 DEF KeepsRest
    <2>2. KeepsRest(v, w) /\ w.store = v.store /\ w.buffer = <<>>
      BY <2>1, WithBuffer, Zenon
    <2> QED
      BY <1>9, <2>2, KeepsRestTrans
  <1>11. Operation(d, op) = StateChange(w)
    BY <1>7, <1>8 DEF Operation, Flush, Targets, KeepsRest, w, v, t
  <1> HIDE DEF w
  <1>12. w \in DeviceType
    BY <1>10 DEF KeepsRest
  <1>13. LET e == StateChange(w) IN
           KeepsRest(w, e) /\ e.store = t /\ e.buffer = <<>> /\ e.told = Ids(t)
    BY <1>10, <1>12, StateChangeFields
  <1>14. KeepsRest(d, StateChange(w))
    BY <1>10, <1>13, KeepsRestTrans
  <1> QED
    BY <1>4, <1>11, <1>13, <1>14

(* ... and where there is no page for it.                                  *)
LEMMA OperationLost ==
    ASSUME NEW d, TargetsNone(d), NEW op \in DrawnOp
    PROVE  LET e == Operation(d, op) IN
             /\ KeepsRest(d, e) /\ e.store = d.store
             /\ d.target.void => e = d
             /\ ~d.target.void => e.buffer = <<>> /\ e.told = Ids(d.store)
  <1>1. d \in DeviceType /\ d.store \in Store /\ d.buffer \in Seq(DrawnOp)
    BY DEF TargetsNone, DeviceType
  <1>2. CASE d.target.void
    BY <1>1, <1>2 DEF Operation, Flush, ClipAndPut, KeepsRest
  <1>3. CASE ~d.target.void
    <2> DEFINE s == d.store
               i == d.target.index
               ops == Append(d.buffer, op)
               a == [d EXCEPT !.store = s]
               b == [a EXCEPT !.buffer = ops]
               v == [b EXCEPT !.store = s]
               w == [v EXCEPT !.buffer = <<>>]
    <2>1. ~ValidIndex(s, i)
      <3>1. i \in Int /\ Len(s.pages) \in Nat /\ i >= Len(s.pages)
        BY <1>1, <1>3 DEF TargetsNone, DeviceType, Target, Store
      <3> QED
        BY <3>1 DEF ValidIndex
    <2>2. \A rect : ClipPage(s, i, rect) = s
      BY <2>1 DEF ClipPage
    <2>3. \A o, silent : AddDcs(s, i, o, silent) = s
      BY <2>1 DEF AddDcs
    <2>4. KeepsRest(d, a) /\ a.store = s
      BY <1>1, WithStore, Zenon
    <2>5. ClipAndPut(d, op) = b
      BY <1>1, <1>3, <2>2, <2>4 DEF ClipAndPut, DeviceType, KeepsRest
    <2> HIDE DEF a
    <2>6. KeepsRest(d, b) /\ b.store = s
      <3>1. a \in DeviceType /\ ops \in Seq(DrawnOp)
        BY <1>1, <2>4 DEF KeepsRest
      <3> HIDE DEF ops
      <3>2. KeepsRest(a, b) /\ b.store = a.store
        BY <3>1, WithBuffer, Zenon
      <3> QED
        BY <2>4, <3>2, KeepsRestTrans
    <2> HIDE DEF b
    <2>7. KeepsRest(d, v) /\ v.store = s
      <3>1. b \in DeviceType
        BY <2>6 DEF KeepsRest
      <3>2. KeepsRest(b, v) /\ v.store = s
        BY <1>1, <3>1, WithStore, Zenon
      <3> QED
        BY <2>6, <3>2, KeepsRestTrans
    <2>8. b.target = d.target
      BY <2>6 DEF KeepsRest
    <2>9. Flush(b) = StateChange(w)
      <3>1. AddDcs(b.store, b.target.index, b.buffer, b.replaying) = s
        BY <2>3, <2>6, <2>8
      <3>2. Flush(b) = StateChange(
              [b EXCEPT !.store = AddDcs(b.store, b.target.index, b.buffer, b.replaying),
                        !.buffer = <<>>])
        BY <1>3, <2>8 DEF Flush
      <3> QED
        BY <3>1, <3>2
    <2> HIDE DEF v
    <2>10. KeepsRest(d, w) /\ w.store = s /\ w.buffer = <<>>
      <3>1. v \in DeviceType /\ <<>> \in Seq(DrawnOp)
        BY <2>7 DEF KeepsRest
      <3>2. KeepsRest(v, w) /\ w.store = v.store /\ w.buffer = <<>>
        BY <3>1, WithBuffer, Zenon
      <3> QED
        BY <2>7, <3>2, KeepsRestTrans
    <2> HIDE DEF w
    <2>11. LET e == StateChange(w) IN
             KeepsRest(w, e) /\ e.store = s /\ e.buffer = <<>> /\ e.told = Ids(s)
      <3>1. w \in DeviceType
        BY <2>10 DEF KeepsRest
      <3> QED
        BY <2>10, <3>1, StateChangeFields
    <2>12. KeepsRest(d, StateChange(w))
      BY <2>10, <2>11, KeepsRestTrans
    <2> QED
      BY <1>3, <2>5, <2>9, <2>11, <2>12 DEF Operation
  <1> QED
    BY <1>2, <1>3

(* The device e is d after k operations of a drawing were replayed on the  *)
(* page at position n.                                                     *)
Redrawn(d, e, n, k) ==
    LET p == d.store.pages[n]
        q == e.store.pages[n] IN
    /\ KeepsRest(d, e)
    /\ OnlyPage(d.store, e.store, n)
    /\ GoodPage(q) /\ q.id = p.id /\ q.size = p.size
    /\ UpTo(q, k)
    /\ d.buffer = <<>> => Whole(q, k)
    /\ k = 0 => q.dcs = <<>> /\ e.buffer = d.buffer /\ e.told = d.told
    /\ k # 0 => e.buffer = <<>> /\ e.told = Ids(e.store)

LEMMA NewPageReplayOnPage ==
    ASSUME NEW d, NEW i, Targets(d, i)
    PROVE  Redrawn(d, NewPageReplay(d), i + 1, 0)
  <1>0. d \in DeviceType /\ d.store \in Store /\ i \in Nat /\ i < Len(d.store.pages)
    BY DEF Targets, DeviceType
  <1>1. i + 1 \in 1..Len(d.store.pages)
    BY <1>0, IndexOf
  <1> DEFINE t == ClearPage(d.store, i, TRUE)
             q == Cleared(d.store.pages[i + 1])
             e == [d EXCEPT !.store = t]
  <1>2. OnlyPage(d.store, t, i + 1) /\ t.pages[i + 1] = q
    BY <1>0, <1>1, ClearPageStore DEF Targets
  <1>3. /\ GoodPage(q) /\ q.id = d.store.pages[i + 1].id
        /\ q.size = d.store.pages[i + 1].size /\ q.dcs = <<>>
    BY <1>0, <1>1, PageAt, ClearedGood
  <1>4. t \in Store
    BY <1>2 DEF OnlyPage
  <1>5. NewPageReplay(d) = e
    BY DEF NewPageReplay, Targets
  <1> HIDE DEF t, q
  <1>6. KeepsRest(d, e) /\ e.store = t /\ e.buffer = d.buffer /\ e.told = d.told
    BY <1>0, <1>1, <1>4, WithStore, Zenon
  <1> HIDE DEF e
  <1>7. UpTo(q, 0) /\ Whole(q, 0)
    BY <1>3 DEF UpTo, Whole, Recorded
  <1> QED
    BY <1>2, <1>3, <1>5, <1>6, <1>7 DEF Redrawn

(* One more operation.                                                     *)
LEMMA RedrawnStep ==
    ASSUME NEW d, NEW e, NEW i, Targets(d, i),
           \A k \in 1..Len(d.buffer) : d.buffer[k].n = 0,
           d.devSize = Fit(d.store.pages[i + 1].size),
           NEW drawing, drawing.plot = d.store.pages[i + 1].id,
           NEW k \in Nat, k + 1 <= MaxOps, Redrawn(d, e, i + 1, k)
    PROVE  Redrawn(d, ReplayOp(e, drawing, k + 1), i + 1, k + 1)
  <1> DEFINE p == e.store.pages[i + 1]
             op == [plot |-> drawing.plot, n |-> k + 1, size |-> e.devSize]
             f == Operation(e, op)
             q == f.store.pages[i + 1]
  <1>1. /\ d.store \in Store /\ d.devSize \in Size
        /\ KeepsRest(d, e) /\ OnlyPage(d.store, e.store, i + 1)
        /\ GoodPage(p) /\ p.id = d.store.pages[i + 1].id
        /\ p.size = d.store.pages[i + 1].size
        /\ UpTo(p, k)
    BY DEF Redrawn, Targets, DeviceType
  <1>2. Targets(e, i)
    BY <1>1 DEF Targets, KeepsRest, OnlyPage
  <1>3. op \in DrawnOp
    <2>1. drawing.plot \in 0..(MaxPlots - 1)
      BY <1>1 DEF GoodPage, Page
    <2>2. e.devSize \in Size
      BY <1>1 DEF KeepsRest
    <2>3. k + 1 \in 0..MaxOps
      BY DeviceAssumption
    <2> QED
      BY <2>1, <2>2, <2>3 DEF DrawnOp
  <1>4. op.n = k + 1 /\ op.plot = p.id /\ op.size = Fit(p.size)
    BY <1>1 DEF KeepsRest
  <1> HIDE DEF op, f
  <1>5. /\ KeepsRest(e, f)
        /\ OnlyPage(e.store, f.store, i + 1)
        /\ q = Drawn(p, e.buffer, op)
        /\ f.buffer = <<>> /\ f.told = Ids(f.store)
    BY <1>1, <1>2, <1>3, OperationOnPage DEF f
  <1>6. e.buffer \in Seq(DrawnOp) /\ \A m \in 1..Len(e.buffer) : e.buffer[m].n = 0
    BY <1>1 DEF Redrawn, KeepsRest, DeviceType
  <1>7. UpTo(p, op.n - 1)
    <2>1. op.n - 1 = k
      BY <1>4
    <2> QED
      BY <1>1, <2>1
  <1> HIDE DEF p, q
  <1>8. /\ GoodPage(q) /\ q.id = p.id /\ q.size = p.size
        /\ UpTo(q, op.n)
        /\ e.buffer = <<>> /\ Whole(p, op.n - 1) => Whole(q, op.n)
    <2>1. op.n # 0
      BY <1>4
    <2>2. LET r == Drawn(p, e.buffer, op) IN
            /\ GoodPage(r) /\ r.id = p.id /\ r.size = p.size
            /\ r.dcs # <<>>
            /\ UpTo(r, op.n)
            /\ e.buffer = <<>> /\ Whole(p, op.n - 1) => Whole(r, op.n)
      BY <1>1, <1>3, <1>4, <1>6, <1>7, <2>1, DrawnGood, Zenon
    <2> QED
      BY <1>5, <2>2
  <1>9. d.buffer = <<>> => Whole(q, k + 1)
    <2>1. d.buffer = <<>> => e.buffer = <<>> /\ Whole(p, k)
      BY DEF Redrawn, p
    <2>2. op.n - 1 = k
      BY <1>4
    <2> QED
      BY <1>4, <1>8, <2>1, <2>2
  <1>10. KeepsRest(d, f) /\ OnlyPage(d.store, f.store, i + 1)
    BY <1>1, <1>5, KeepsRestTrans, OnlyPageTrans
  <1>11. ReplayOp(e, drawing, k + 1) = f
    BY DEF ReplayOp, f, op
  <1> QED
    BY <1>1, <1>4, <1>5, <1>8, <1>9, <1>10, <1>11 DEF Redrawn, q

(* ... and one that stops half-way: its clip is there, its draw call is in *)
(* the buffer.                                                             *)
LEMMA ClipAndPutOnPage ==
    ASSUME NEW d, NEW i, Targets(d, i), NEW op \in DrawnOp,
           GoodPage(d.store.pages[i + 1])
    PROVE  LET e == ClipAndPut(d, op) IN
             /\ KeepsRest(d, e)
             /\ OnlyPage(d.store, e.store, i + 1)
             /\ e.store.pages[i + 1] = WithClip(d.store.pages[i + 1], ClipOf(op))
             /\ e.buffer = Append(d.buffer, op) /\ e.told = d.told
  <1>1. d \in DeviceType /\ d.store \in Store /\ d.buffer \in Seq(DrawnOp)
    BY DEF Targets, DeviceType
  <1> DEFINE u == ClipPage(d.store, i, ClipOf(op))
             ops == Append(d.buffer, op)
             a == [d EXCEPT !.store = u]
             b == [a EXCEPT !.buffer = ops]
  <1>2. /\ OnlyPage(d.store, u, i + 1)
        /\ u.pages[i + 1] = WithClip(d.store.pages[i + 1], ClipOf(op))
    BY <1>1, ClipRect, ClipPageStore DEF Targets
  <1>3. u \in Store
    BY <1>2 DEF OnlyPage
  <1>4. ops \in Seq(DrawnOp)
    BY <1>1
  <1> HIDE DEF u, ops
  <1>5. KeepsRest(d, a) /\ a.store = u /\ a.buffer = d.buffer /\ a.told = d.told
    BY <1>1, <1>3, WithStore, Zenon
  <1>6. ClipAndPut(d, op) = b
    BY <1>5 DEF ClipAndPut, Targets, u, ops
  <1> HIDE DEF a
  <1>7. a \in DeviceType
    BY <1>5 DEF KeepsRest
  <1>8. KeepsRest(a, b) /\ b.store = a.store /\ b.buffer = ops /\ b.told = a.told
    BY <1>4, <1>7, WithBuffer, Zenon
  <1> HIDE DEF b
  <1>9. KeepsRest(d, b)
    BY <1>5, <1>8, KeepsRestTrans
  <1> QED
    BY <1>2, <1>5, <1>6, <1>8, <1>9 DEF ops

(* What a replay leaves in the buffer: of the operation that it stopped in *)
(* the middle of; and what the client has been told.                       *)
LeftBy(d, e, q, upto) ==
    /\ \A m \in 1..Len(e.buffer) : e.buffer[m].n = 0
    /\ upto >= 0 => e.buffer = d.buffer \/ e.buffer = <<>>
    /\ (q.dcs = <<>> /\ e.told = d.told) \/ e.told = Ids(e.store)

(* The device e is d after a replay on the page at position n.             *)
ReplayedOn(d, e, n, k, upto) ==
    LET p == d.store.pages[n]
        q == e.store.pages[n] IN
    /\ KeepsRest(d, e)
    /\ OnlyPage(d.store, e.store, n)
    /\ GoodPage(q) /\ q.id = p.id /\ q.size = p.size
    /\ UpTo(q, k)
    /\ d.buffer = <<>> => Whole(q, k)
    /\ LeftBy(d, e, q, upto)

(* Pages with the ids they had.                                            *)
LEMMA SameIds ==
    ASSUME NEW s, NEW t, NEW n, OnlyPage(s, t, n), t.pages[n].id = s.pages[n].id
    PROVE  Ids(t) = Ids(s)
  BY DEF OnlyPage, Ids

LEMMA CompletedOf ==
    ASSUME NEW upto \in Int, NEW ops \in Nat
    PROVE  /\ Completed(upto, ops) \in Nat /\ Completed(upto, ops) <= ops
           /\ upto >= ops => Completed(upto, ops) = ops
  BY DEF Completed

LEMMA ReplayOnPage ==
    ASSUME NEW d, NEW i, Targets(d, i),
           \A k \in 1..Len(d.buffer) : d.buffer[k].n = 0,
           d.devSize = Fit(d.store.pages[i + 1].size),
           NEW drawing \in Drawing, drawing.plot = d.store.pages[i + 1].id,
           NEW upto \in Int
    PROVE  ReplayedOn(d, Replay(d, drawing, upto), i + 1,
                      Completed(upto, drawing.ops), upto)
  <1> DEFINE f == Progress(d, drawing)
             S == {k \in Nat : k <= drawing.ops => Redrawn(d, f[k], i + 1, k)}
  <1>1. drawing.ops \in Nat /\ drawing.ops <= MaxOps
    BY DeviceAssumption DEF Drawing
  <1>2. f[0] = NewPageReplay(d) /\ \A k \in Nat : f[k + 1] = ReplayOp(f[k], drawing, k + 1)
    BY ProgressEquation
  <1> HIDE DEF f
  <1>3. 0 \in S
    BY <1>2, NewPageReplayOnPage
  <1>4. ASSUME NEW k \in Nat, k \in S
        PROVE  k + 1 \in S
    <2> SUFFICES ASSUME k + 1 <= drawing.ops
                 PROVE  Redrawn(d, f[k + 1], i + 1, k + 1)
      OBVIOUS
    <2>1. Redrawn(d, f[k], i + 1, k)
      BY <1>1, <1>4
    <2>2. k + 1 <= MaxOps
      BY <1>1, DeviceAssumption
    <2>3. Redrawn(d, ReplayOp(f[k], drawing, k + 1), i + 1, k + 1)
      BY <2>1, <2>2, RedrawnStep
    <2> QED
      BY <1>2, <2>3
  <1> HIDE DEF S
  <1>5. Nat \subseteq S
    BY <1>3, <1>4, SetInduction
  <1> DEFINE m == Completed(upto, drawing.ops)
             g == f[m]
             op == [plot |-> drawing.plot, n |-> 0, size |-> g.devSize]
             e == ClipAndPut(g, op)
             p == g.store.pages[i + 1]
  <1>6. m \in Nat /\ m <= drawing.ops
    <2> DEFINE ops == drawing.ops
    <2>1. ops \in Nat
      BY <1>1
    <2> HIDE DEF ops
    <2>2. Completed(upto, ops) \in Nat /\ Completed(upto, ops) <= ops
      BY <2>1, CompletedOf, Zenon
    <2> HIDE DEF g, op, e, p
    <2> QED
      BY <2>2 DEF ops
  <1>7. Replay(d, drawing, upto)
          = IF upto < 0 /\ -upto <= drawing.ops THEN e ELSE g
    BY DEF Replay, f
  <1> HIDE DEF m
  <1>8. Redrawn(d, g, i + 1, m)
    BY <1>5, <1>6 DEF S
  <1> HIDE DEF g
  <1>9. d.buffer \in Seq(DrawnOp) /\ g.buffer \in Seq(DrawnOp)
        /\ KeepsRest(d, g) /\ OnlyPage(d.store, g.store, i + 1)
        /\ GoodPage(p) /\ p.id = d.store.pages[i + 1].id
        /\ p.size = d.store.pages[i + 1].size
        /\ UpTo(p, m) /\ (d.buffer = <<>> => Whole(p, m))
    BY <1>8 DEF Redrawn, KeepsRest, DeviceType, Targets
  <1>10. /\ g.buffer = d.buffer \/ g.buffer = <<>>
         /\ \A n \in 1..Len(g.buffer) : g.buffer[n].n = 0
         /\ (p.dcs = <<>> /\ g.told = d.told) \/ g.told = Ids(g.store)
    BY <1>8 DEF Redrawn
  <1>11. CASE ~ (upto < 0 /\ -upto <= drawing.ops)
    BY <1>7, <1>9, <1>10, <1>11 DEF ReplayedOn, LeftBy, m
  <1>12. CASE upto < 0 /\ -upto <= drawing.ops
    <2>1. op \in DrawnOp /\ op.n = 0
      <3>1. drawing.plot \in 0..(MaxPlots - 1)
        BY <1>9 DEF GoodPage, Page
      <3>2. g.devSize \in Size
        BY <1>9 DEF KeepsRest, DeviceType
      <3>3. 0 \in 0..MaxOps
        BY DeviceAssumption
      <3> QED
        BY <3>1, <3>2, <3>3 DEF DrawnOp
    <2> HIDE DEF op
    <2>2. Targets(g, i)
      BY <1>9 DEF Targets, KeepsRest, OnlyPage
    <2> DEFINE q == WithClip(p, ClipOf(op))
    <2>3. /\ KeepsRest(g, e) /\ OnlyPage(g.store, e.store, i + 1)
          /\ e.store.pages[i + 1] = q
          /\ e.buffer = Append(g.buffer, op) /\ e.told = g.told
      BY <1>9, <2>1, <2>2, ClipAndPutOnPage
    <2>4. GoodPage(q) /\ q.id = p.id /\ q.size = p.size /\ q.dcs = p.dcs
      BY <1>9, <2>1, ClipRect, WithClipGood
    <2> HIDE DEF e, p, q
    <2>5. KeepsRest(d, e) /\ OnlyPage(d.store, e.store, i + 1)
      BY <1>9, <2>3, KeepsRestTrans, OnlyPageTrans
    <2>6. UpTo(q, m) /\ (d.buffer = <<>> => Whole(q, m))
      BY <1>9, <2>4 DEF UpTo, Whole, Recorded
    <2>7. \A n \in 1..Len(e.buffer) : e.buffer[n].n = 0
      BY <1>9, <1>10, <2>1, <2>3
    <2>8. (q.dcs = <<>> /\ e.told = d.told) \/ e.told = Ids(e.store)
      <3>1. Ids(e.store) = Ids(g.store)
        BY <2>3, <2>4, SameIds DEF p
      <3> QED
        BY <1>10, <2>3, <2>4, <3>1
    <2>9. LeftBy(d, e, q, upto)
      BY <1>12, <2>7, <2>8 DEF LeftBy
    <2> QED
      BY <1>7, <1>9, <1>12, <2>3, <2>4, <2>5, <2>6, <2>9 DEF ReplayedOn, m
  <1> QED
    BY <1>11, <1>12

(* While there is no target a replay passes the device by.                 *)
LEMMA ReplayVoid ==
    ASSUME NEW d, d.target.void, NEW drawing \in Drawing, NEW upto \in Int
    PROVE  Replay(d, drawing, upto) = d
  <1> DEFINE f == Progress(d, drawing)
             S == {k \in Nat : f[k] = d}
  <1>1. drawing.ops \in Nat
    BY DeviceAssumption DEF Drawing
  <1>2. f[0] = NewPageReplay(d) /\ \A k \in Nat : f[k + 1] = ReplayOp(f[k], drawing, k + 1)
    BY ProgressEquation
  <1> HIDE DEF f
  <1>3. 0 \in S
    BY <1>2 DEF NewPageReplay
  <1>4. ASSUME NEW k \in Nat, k \in S
        PROVE  k + 1 \in S
    <2>1. ReplayOp(d, drawing, k + 1) = d
      BY DEF ReplayOp, Operation, Flush, ClipAndPut
    <2> QED
      BY <1>2, <1>4, <2>1
  <1> HIDE DEF S
  <1>5. Nat \subseteq S
    BY <1>3, <1>4, SetInduction
  <1> DEFINE m == Completed(upto, drawing.ops)
             op == [plot |-> drawing.plot, n |-> 0, size |-> f[m].devSize]
  <1>6. m \in Nat
    BY <1>1, CompletedOf
  <1>7. Replay(d, drawing, upto)
          = IF upto < 0 /\ -upto <= drawing.ops THEN ClipAndPut(f[m], op) ELSE f[m]
    BY DEF Replay, f
  <1> HIDE DEF m, op
  <1>8. f[m] = d
    BY <1>5, <1>6 DEF S
  <1>9. ClipAndPut(d, op) = d
    BY DEF ClipAndPut
  <1> QED
    BY <1>7, <1>8, <1>9

----------------------------------------------------------------------------
(* Methods, one field of the device after the other.                       *)

SameData(d, e) == e.store = d.store /\ e.buffer = d.buffer /\ e.told = d.told

LEMMA WithTarget ==
    ASSUME NEW d \in DeviceType, NEW t \in Target
    PROVE  LET e == [d EXCEPT !.target = t] IN
             /\ e \in DeviceType /\ SameData(d, e) /\ e.target = t
             /\ e.history = d.history /\ e.replaying = d.replaying
             /\ e.initialized = d.initialized /\ e.displayList = d.displayList
             /\ e.devSize = d.devSize
  BY DEF DeviceType, SameData

LEMMA WithHistory ==
    ASSUME NEW d \in DeviceType, NEW h \in Seq(Drawing)
    PROVE  LET e == [d EXCEPT !.history = h] IN
             /\ e \in DeviceType /\ SameData(d, e) /\ e.history = h
             /\ e.target = d.target /\ e.replaying = d.replaying
             /\ e.initialized = d.initialized /\ e.displayList = d.displayList
             /\ e.devSize = d.devSize
  BY DEF DeviceType, SameData

LEMMA WithReplaying ==
    ASSUME NEW d \in DeviceType, NEW r \in BOOLEAN
    PROVE  LET e == [d EXCEPT !.replaying = r] IN
             /\ e \in DeviceType /\ SameData(d, e) /\ e.replaying = r
             /\ e.target = d.target /\ e.history = d.history
             /\ e.initialized = d.initialized /\ e.displayList = d.displayList
             /\ e.devSize = d.devSize
  BY DEF DeviceType, SameData

LEMMA WithDisplayList ==
    ASSUME NEW d \in DeviceType, NEW l \in Drawing
    PROVE  LET e == [d EXCEPT !.displayList = l] IN
             /\ e \in DeviceType /\ SameData(d, e) /\ e.displayList = l
             /\ e.target = d.target /\ e.history = d.history
             /\ e.replaying = d.replaying /\ e.initialized = d.initialized
             /\ e.devSize = d.devSize
  BY DEF DeviceType, SameData

LEMMA WithDevSize ==
    ASSUME NEW d \in DeviceType, NEW z \in Size
    PROVE  LET e == [d EXCEPT !.devSize = z] IN
             /\ e \in DeviceType /\ SameData(d, e) /\ e.devSize = z
             /\ e.target = d.target /\ e.history = d.history
             /\ e.replaying = d.replaying /\ e.initialized = d.initialized
             /\ e.displayList = d.displayList
  BY DEF DeviceType, SameData

LEMMA TargetFields ==
    ASSUME NEW t \in Target, NEW i \in -1..(MaxPlots - 1), NEW void \in BOOLEAN
    PROVE  LET u == [t EXCEPT !.index = i, !.void = void] IN
             u \in Target /\ u.index = i /\ u.newest = t.newest /\ u.void = void
  <1> DEFINE u == [t EXCEPT !.index = i, !.void = void]
  <1>1. u \in Target /\ u.index = i /\ u.newest = t.newest
    BY DEF Target
  <1>2. u.void = void
    BY DEF Target
  <1> QED
    BY <1>1, <1>2

LEMMA SetIndexFields ==
    ASSUME NEW d \in DeviceType, NEW i \in 0..(MaxPlots - 1)
    PROVE  LET e == SetIndex(d, i) IN
             /\ e \in DeviceType /\ SameData(d, e)
             /\ e.target.index = i /\ e.target.newest = d.target.newest
             /\ e.target.void = FALSE
             /\ e.history = d.history /\ e.replaying = d.replaying
             /\ e.initialized = d.initialized /\ e.displayList = d.displayList
             /\ e.devSize = d.devSize
  <1> DEFINE t == [d.target EXCEPT !.index = i, !.void = FALSE]
  <1>1. d.target \in Target
    BY DEF DeviceType
  <1>2. t \in Target /\ t.index = i /\ t.newest = d.target.newest /\ t.void = FALSE
    <2>1. i \in -1..(MaxPlots - 1) /\ FALSE \in BOOLEAN
      BY DeviceAssumption
    <2> QED
      BY <1>1, <2>1, TargetFields, Zenon
  <1>3. SetIndex(d, i) = [d EXCEPT !.target = t]
    BY <1>2 DEF SetIndex, DeviceType
  <1> HIDE DEF t
  <1>4. LET e == [d EXCEPT !.target = t] IN
             /\ e \in DeviceType /\ SameData(d, e) /\ e.target = t
             /\ e.history = d.history /\ e.replaying = d.replaying
             /\ e.initialized = d.initialized /\ e.displayList = d.displayList
             /\ e.devSize = d.devSize
    BY <1>2, WithTarget, Zenon
  <1> QED
    BY <1>2, <1>3, <1>4

LEMMA SetVoidFields ==
    ASSUME NEW d \in DeviceType
    PROVE  LET e == SetVoid(d) IN
             /\ e \in DeviceType /\ SameData(d, e)
             /\ e.target.index = -1 /\ e.target.newest = d.target.newest
             /\ e.target.void = TRUE
             /\ e.history = d.history /\ e.replaying = d.replaying
             /\ e.initialized = d.initialized /\ e.displayList = d.displayList
             /\ e.devSize = d.devSize
  <1> DEFINE t == [d.target EXCEPT !.index = -1, !.void = TRUE]
  <1>1. d.target \in Target
    BY DEF DeviceType
  <1>2. t \in Target /\ t.index = -1 /\ t.newest = d.target.newest /\ t.void = TRUE
    <2>1. -1 \in -1..(MaxPlots - 1) /\ TRUE \in BOOLEAN
      BY DeviceAssumption
    <2> QED
      BY <1>1, <2>1, TargetFields, Zenon
  <1>3. SetVoid(d) = [d EXCEPT !.target = t]
    BY <1>2 DEF SetVoid, DeviceType
  <1> HIDE DEF t
  <1>4. LET e == [d EXCEPT !.target = t] IN
             /\ e \in DeviceType /\ SameData(d, e) /\ e.target = t
             /\ e.history = d.history /\ e.replaying = d.replaying
             /\ e.initialized = d.initialized /\ e.displayList = d.displayList
             /\ e.devSize = d.devSize
    BY <1>2, WithTarget, Zenon
  <1> QED
    BY <1>2, <1>3, <1>4

LEMMA SetNewestFields ==
    ASSUME NEW d \in DeviceType, NEW i \in -2..(MaxPlots - 1)
    PROVE  LET e == SetNewest(d, i) IN
             /\ e \in DeviceType /\ SameData(d, e)
             /\ e.target.index = d.target.index /\ e.target.newest = i
             /\ e.target.void = d.target.void
             /\ e.history = d.history /\ e.replaying = d.replaying
             /\ e.initialized = d.initialized /\ e.displayList = d.displayList
             /\ e.devSize = d.devSize
  <1> DEFINE t == [d.target EXCEPT !.newest = i]
  <1>1. d.target \in Target
    BY DEF DeviceType
  <1>2. t \in Target /\ t.index = d.target.index /\ t.newest = i /\ t.void = d.target.void
    BY <1>1, DeviceAssumption DEF Target
  <1>3. SetNewest(d, i) = [d EXCEPT !.target = t]
    BY <1>2 DEF SetNewest, DeviceType
  <1> HIDE DEF t
  <1>4. LET e == [d EXCEPT !.target = t] IN
             /\ e \in DeviceType /\ SameData(d, e) /\ e.target = t
             /\ e.history = d.history /\ e.replaying = d.replaying
             /\ e.initialized = d.initialized /\ e.displayList = d.displayList
             /\ e.devSize = d.devSize
    BY <1>2, WithTarget, Zenon
  <1> QED
    BY <1>2, <1>3, <1>4

(* The page that resize_device_to_page looks at.                           *)
LEMMA ResizeToPageFields ==
    ASSUME NEW d \in DeviceType, Current(d), NEW i \in Nat, i < Len(d.store.pages),
           i = IF d.target.void THEN d.target.newest ELSE d.target.index
    PROVE  LET e == ResizeToPage(d) IN
             /\ e \in DeviceType /\ SameData(d, e)
             /\ e.devSize = Fit(d.store.pages[i + 1].size)
             /\ e.target = d.target /\ e.history = d.history
             /\ e.replaying = d.replaying /\ e.initialized = d.initialized
             /\ e.displayList = d.displayList
  <1> DEFINE z == Fit(d.store.pages[i + 1].size)
  <1>1. d.store \in Store
    BY DEF DeviceType
  <1>2. SizeOf(d.store, i, <<10, 10>>) = d.store.pages[i + 1].size
    BY <1>1, IndexOf DEF SizeOf
  <1>3. z \in Size
    <2>1. Len(d.store.pages) \in Nat
      BY <1>1, IndexOf
    <2>2. i + 1 \in 1..Len(d.store.pages)
      BY <2>1
    <2>3. d.store.pages[i + 1] \in Page
      BY <1>1, <2>2, PageAt
    <2> QED
      BY <2>3, FitSize DEF Page
  <1>4. ResizeToPage(d) = [d EXCEPT !.devSize = z]
    BY <1>2 DEF ResizeToPage
  <1> HIDE DEF z
  <1>5. LET e == [d EXCEPT !.devSize = z] IN
             /\ e \in DeviceType /\ SameData(d, e) /\ e.devSize = z
             /\ e.target = d.target /\ e.history = d.history
             /\ e.replaying = d.replaying /\ e.initialized = d.initialized
             /\ e.displayList = d.displayList
    BY <1>3, WithDevSize, Zenon
  <1> QED
    BY <1>4, <1>5 DEF z

(* The history grows by one entry at most: nothing is left out.            *)
(* r is h with x at the index i, which may be the one after the last.      *)
PutInto(r, h, i, x) ==
    /\ r \in Seq(Drawing)
    /\ Len(r) = IF Len(h) = i THEN i + 1 ELSE Len(h)
    /\ r[i + 1] = x
    /\ \A n \in 1..Len(h) : n # i + 1 => r[n] = h[n]

LEMMA HistoryPutFields ==
    ASSUME NEW h \in Seq(Drawing), NEW i \in Nat, i <= Len(h), NEW x \in Drawing
    PROVE  PutInto(HistoryPut(h, i, x), h, i, x)
  <1> DEFINE l == IF Len(h) <= i THEN i + 1 ELSE Len(h)
             r == HistoryPut(h, i, x)
  <1>1. Len(h) \in Nat /\ l \in Nat /\ l = IF Len(h) = i THEN i + 1 ELSE Len(h)
    OBVIOUS
  <1>2. /\ DOMAIN r = 1..l
        /\ \A n \in 1..l : r[n] = IF n = i + 1 THEN x ELSE IF n <= Len(h) THEN h[n] ELSE NoDrawing
        /\ r = [n \in 1..l |-> r[n]]
    BY DEF HistoryPut
  <1> HIDE DEF r, l
  <1>3. \A n \in 1..l : n = i + 1 \/ n \in 1..Len(h)
    BY <1>1
  <1>4. \A n \in 1..l : r[n] \in Drawing
    BY <1>2, <1>3
  <1>5. r \in [1..l -> Drawing]
    BY <1>2, <1>4
  <1>6. r \in Seq(Drawing) /\ Len(r) = l
    BY <1>1, <1>5, SeqDef, LenProperties
  <1>7. i + 1 \in 1..l /\ \A n \in 1..Len(h) : n \in 1..l
    BY <1>1
  <1>8. r[i + 1] = x /\ \A n \in 1..Len(h) : n # i + 1 => r[n] = h[n]
    BY <1>2, <1>7
  <1> QED
    BY <1>1, <1>6, <1>8 DEF r, PutInto

LEMMA HistoryGetEntry ==
    ASSUME NEW h \in Seq(Drawing), NEW i \in Nat, i < Len(h)
    PROVE  HistoryGet(h, i) = h[i + 1] /\ h[i + 1] \in Drawing
  BY DEF HistoryGet

----------------------------------------------------------------------------
(* plt_prerender.                                                          *)

(* A device with plots, the store, the history and the engine aligned.     *)
Opened(d) ==
    /\ d \in DeviceType /\ Current(d)
    /\ d.target.newest \in Nat
    /\ Len(d.store.pages) = d.target.newest + 1
    /\ Len(d.history) \in {d.target.newest, d.target.newest + 1}
    /\ \A n \in 1..Len(d.history) : d.history[n].plot = d.store.pages[n].id
    /\ d.displayList.plot = d.store.pages[d.target.newest + 1].id
    /\ \A n \in 1..Len(d.buffer) : d.buffer[n].n = 0

(* The page at position n was resized to z and k operations were replayed. *)
RedrawnAs(d, e, n, z, k, upto) ==
    LET q == e.store.pages[n] IN
    /\ OnlyPage(d.store, e.store, n)
    /\ GoodPage(q) /\ q.id = d.store.pages[n].id /\ q.size = z
    /\ UpTo(q, k)
    /\ d.buffer = <<>> => Whole(q, k)
    /\ LeftBy(d, e, q, upto)

LEMMA OpenedFields ==
    ASSUME NEW d, Opened(d)
    PROVE  /\ d \in DeviceType /\ d.store \in Store
           /\ d.history \in Seq(Drawing) /\ d.displayList \in Drawing
           /\ d.target.newest \in 0..(MaxPlots - 1)
           /\ d.displayList # NoDrawing
           /\ \A n \in 1..Len(d.history) : d.history[n] # NoDrawing
  <1>1. /\ d \in DeviceType /\ d.store \in Store
        /\ d.history \in Seq(Drawing) /\ d.displayList \in Drawing
        /\ d.target.newest \in 0..(MaxPlots - 1)
        /\ Len(d.history) \in Nat
    BY DeviceAssumption DEF Opened, DeviceType, Target
  <1>2. \A n \in 1..Len(d.store.pages) : d.store.pages[n].id >= 0
    BY <1>1, PageAt DEF Page
  <1>3. /\ d.displayList.plot >= 0
        /\ \A n \in 1..Len(d.history) : d.history[n].plot >= 0
    <2>1. d.target.newest + 1 \in 1..Len(d.store.pages)
      BY <1>1 DEF Opened
    <2>2. \A n \in 1..Len(d.history) : n \in 1..Len(d.store.pages)
      BY <1>1 DEF Opened
    <2> QED
      BY <1>2, <2>1, <2>2 DEF Opened
  <1>4. ~ (NoDrawing.plot >= 0)
    BY DEF NoDrawing
  <1> QED
    BY <1>1, <1>3, <1>4

LEMMA PreparedFields ==
    ASSUME NEW d, Opened(d), NEW i \in 0..d.target.newest, NEW z \in Size
    PROVE  LET a == [d EXCEPT !.replaying = TRUE, !.store = Resize(@, i, z)]
               q == a.store.pages[i + 1] IN
             /\ a \in DeviceType
             /\ OnlyPage(d.store, a.store, i + 1)
             /\ GoodPage(q) /\ q.id = d.store.pages[i + 1].id /\ q.size = z
             /\ q.dcs = <<>>
             /\ a.buffer = d.buffer /\ a.told = d.told /\ a.target = d.target
             /\ a.history = d.history /\ a.initialized = d.initialized
             /\ a.displayList = d.displayList
             /\ Current(a)
  <1> DEFINE s == Resize(d.store, i, z)
             b == [d EXCEPT !.replaying = TRUE]
             a == [b EXCEPT !.store = s]
  <1>1. d \in DeviceType /\ d.store \in Store /\ i \in Nat /\ i < Len(d.store.pages)
    BY OpenedFields DEF Opened
  <1>2. LET q == s.pages[i + 1] IN
          /\ OnlyPage(d.store, s, i + 1)
          /\ GoodPage(q) /\ q.id = d.store.pages[i + 1].id /\ q.size = z /\ q.dcs = <<>>
    BY <1>1, ResizeStore
  <1>3. s \in Store
    BY <1>2 DEF OnlyPage
  <1>4. /\ b \in DeviceType /\ SameData(d, b)
        /\ b.target = d.target /\ b.history = d.history
        /\ b.initialized = d.initialized /\ b.displayList = d.displayList
    <2>1. TRUE \in BOOLEAN
      OBVIOUS
    <2> QED
      BY <1>1, <2>1, WithReplaying, Zenon
  <1>5. [d EXCEPT !.replaying = TRUE, !.store = Resize(@, i, z)] = a
    BY <1>4 DEF SameData
  <1> HIDE DEF s, b
  <1>6. KeepsRest(b, a) /\ a.store = s /\ a.buffer = b.buffer /\ a.told = b.told
    BY <1>3, <1>4, WithStore, Zenon
  <1> HIDE DEF a
  <1> QED
    BY <1>1, <1>2, <1>4, <1>5, <1>6 DEF KeepsRest, SameData, Current, OnlyPage, Opened

(* The last step of plt_prerender, of plt_remove.                          *)
LEMMA ReplayingOff ==
    ASSUME NEW d \in DeviceType
    PROVE  LET e == [d EXCEPT !.replaying = FALSE] IN
             /\ e \in DeviceType /\ SameData(d, e) /\ e.replaying = FALSE
             /\ e.target = d.target /\ e.history = d.history
             /\ e.initialized = d.initialized /\ e.displayList = d.displayList
             /\ e.devSize = d.devSize
  <1>1. FALSE \in BOOLEAN
    OBVIOUS
  <1> QED
    BY <1>1, WithReplaying, Zenon

LEMMA PrerenderOpenFields ==
    ASSUME NEW d, Opened(d), NEW z \in Size, NEW upto \in Int
    PROVE  LET e == PrerenderOpen(d, z, upto)
               i == d.target.newest IN
             /\ e \in DeviceType
             /\ e.target.index = i /\ e.target.newest = i /\ e.target.void = FALSE
             /\ e.history = d.history /\ e.displayList = d.displayList
             /\ e.replaying = FALSE /\ e.initialized = d.initialized
             /\ e.devSize = Fit(z)
             /\ RedrawnAs(d, e, i + 1, z, Completed(upto, d.displayList.ops), upto)
  <1> DEFINE i == d.target.newest
             a == [d EXCEPT !.replaying = TRUE, !.store = Resize(@, d.target.newest, z)]
             x == SetIndex(a, i)
             b == ResizeToPage(x)
             c == Replay(b, b.displayList, upto)
             e == [c EXCEPT !.replaying = FALSE]
             k == Completed(upto, d.displayList.ops)
  <1>1. /\ d \in DeviceType /\ d.store \in Store /\ d.displayList \in Drawing
        /\ i \in 0..(MaxPlots - 1) /\ i \in Nat /\ i \in 0..i
        /\ d.displayList # NoDrawing
    BY OpenedFields, DeviceAssumption
  <1>2. /\ a \in DeviceType
        /\ OnlyPage(d.store, a.store, i + 1)
        /\ GoodPage(a.store.pages[i + 1])
        /\ a.store.pages[i + 1].id = d.store.pages[i + 1].id
        /\ a.store.pages[i + 1].size = z
        /\ a.buffer = d.buffer /\ a.told = d.told /\ a.target = d.target
        /\ a.history = d.history /\ a.initialized = d.initialized
        /\ a.displayList = d.displayList
        /\ Current(a)
    <2>1. LET y == [d EXCEPT !.replaying = TRUE, !.store = Resize(@, i, z)]
              q == y.store.pages[i + 1] IN
             /\ y \in DeviceType
             /\ OnlyPage(d.store, y.store, i + 1)
             /\ GoodPage(q) /\ q.id = d.store.pages[i + 1].id /\ q.size = z
             /\ q.dcs = <<>>
             /\ y.buffer = d.buffer /\ y.told = d.told /\ y.target = d.target
             /\ y.history = d.history /\ y.initialized = d.initialized
             /\ y.displayList = d.displayList
             /\ Current(y)
      BY <1>1, PreparedFields, Zenon
    <2> QED
      BY <2>1
  <1>3. i < Len(a.store.pages)
    BY <1>1, <1>2 DEF OnlyPage, Opened
  <1> HIDE DEF a
  <1>4. /\ x \in DeviceType /\ SameData(a, x)
        /\ x.target.index = i /\ x.target.newest = i /\ x.target.void = FALSE
        /\ x.history = d.history /\ x.initialized = d.initialized
        /\ x.displayList = d.displayList
    <2>1. LET y == SetIndex(a, i) IN
             /\ y \in DeviceType /\ SameData(a, y)
             /\ y.target.index = i /\ y.target.newest = a.target.newest
             /\ y.target.void = FALSE
             /\ y.history = a.history /\ y.replaying = a.replaying
             /\ y.initialized = a.initialized /\ y.displayList = a.displayList
             /\ y.devSize = a.devSize
      BY <1>1, <1>2, SetIndexFields, Zenon
    <2> QED
      BY <1>2, <2>1, Zenon
  <1> HIDE DEF x
  <1>5. /\ b \in DeviceType /\ SameData(a, b)
        /\ b.devSize = Fit(z)
        /\ b.target = x.target /\ b.history = d.history
        /\ b.initialized = d.initialized /\ b.displayList = d.displayList
    <2>1. Current(x) /\ i < Len(x.store.pages) /\ x.store.pages[i + 1].size = z
      BY <1>2, <1>3, <1>4 DEF SameData, Current
    <2>2. i = IF x.target.void THEN x.target.newest ELSE x.target.index
      BY <1>4
    <2>3. LET r == ResizeToPage(x) IN
             /\ r \in DeviceType /\ SameData(x, r)
             /\ r.devSize = Fit(x.store.pages[i + 1].size)
             /\ r.target = x.target /\ r.history = x.history
             /\ r.replaying = x.replaying /\ r.initialized = x.initialized
             /\ r.displayList = x.displayList
      BY <1>1, <1>4, <2>1, <2>2, ResizeToPageFields, Zenon
    <2> QED
      BY <1>4, <2>1, <2>3 DEF SameData
  <1>6. Current(b)
    BY <1>2, <1>5 DEF Current, SameData
  <1>7. PrerenderOpen(d, z, upto) = e
    BY <1>1, <1>5, <1>6 DEF PrerenderOpen, a, x, b, c
  <1> HIDE DEF b
  <1>8. ReplayedOn(b, c, i + 1, k, upto)
    <2>1. Targets(b, i)
      BY <1>1, <1>3, <1>4, <1>5 DEF Targets, SameData
    <2>2. \A n \in 1..Len(b.buffer) : b.buffer[n].n = 0
      BY <1>2, <1>5 DEF Opened, SameData
    <2>3. /\ b.devSize = Fit(b.store.pages[i + 1].size)
          /\ b.displayList \in Drawing
          /\ b.displayList.plot = b.store.pages[i + 1].id
          /\ k = Completed(upto, b.displayList.ops)
      <3>1. b.devSize = Fit(b.store.pages[i + 1].size)
        BY <1>2, <1>5 DEF SameData
      <3>2. b.displayList \in Drawing /\ k = Completed(upto, b.displayList.ops)
        BY <1>1, <1>5
      <3>3. d.displayList.plot = d.store.pages[i + 1].id
        BY DEF Opened
      <3>4. b.displayList.plot = b.store.pages[i + 1].id
        BY <1>2, <1>5, <3>3 DEF SameData
      <3> QED
        BY <3>1, <3>2, <3>4
    <2> HIDE DEF k
    <2> QED
      BY <2>1, <2>2, <2>3, ReplayOnPage, Zenon
  <1> HIDE DEF c, k
  <1>9. /\ c \in DeviceType /\ c.target = x.target /\ c.history = d.history
        /\ c.initialized = d.initialized /\ c.displayList = d.displayList
        /\ c.devSize = Fit(z)
    <2>1. KeepsRest(b, c)
      BY <1>8 DEF ReplayedOn
    <2> QED
      BY <1>5, <2>1 DEF KeepsRest
  <1>10. /\ e \in DeviceType /\ SameData(c, e) /\ e.replaying = FALSE
         /\ e.target = c.target /\ e.history = c.history
         /\ e.initialized = c.initialized /\ e.displayList = c.displayList
         /\ e.devSize = c.devSize
    <2>1. c \in DeviceType
      BY <1>9, Zenon
    <2> QED
      BY <2>1, ReplayingOff, Zenon
  <1> HIDE DEF e
  <1>11. RedrawnAs(d, e, i + 1, z, k, upto)
    <2>1. OnlyPage(d.store, c.store, i + 1)
      <3>1. b.store = a.store
        BY <1>5 DEF SameData
      <3>2. OnlyPage(d.store, a.store, i + 1) /\ OnlyPage(a.store, c.store, i + 1)
        BY <1>2, <1>8, <3>1 DEF ReplayedOn
      <3> QED
        BY <3>2, OnlyPageTrans
    <2> QED
      BY <1>2, <1>5, <1>8, <1>10, <2>1 DEF ReplayedOn, RedrawnAs, LeftBy, SameData
  <1> QED
    BY <1>4, <1>7, <1>9, <1>10, <1>11 DEF k

(* The target and the size of the device follow a page.                    *)
LEMMA GoToPage ==
    ASSUME NEW d \in DeviceType, Current(d),
           NEW i \in 0..(MaxPlots - 1), i < Len(d.store.pages)
    PROVE  LET e == ResizeToPage(SetIndex(d, i)) IN
             /\ Targets(e, i) /\ SameData(d, e)
             /\ e.target.newest = d.target.newest
             /\ e.devSize = Fit(d.store.pages[i + 1].size)
             /\ e.history = d.history /\ e.replaying = d.replaying
             /\ e.initialized = d.initialized /\ e.displayList = d.displayList
  <1> DEFINE x == SetIndex(d, i)
             e == ResizeToPage(x)
  <1>1. /\ x \in DeviceType /\ SameData(d, x)
        /\ x.target.index = i /\ x.target.newest = d.target.newest
        /\ x.target.void = FALSE
        /\ x.history = d.history /\ x.replaying = d.replaying
        /\ x.initialized = d.initialized /\ x.displayList = d.displayList
    BY SetIndexFields, Zenon
  <1> HIDE DEF x
  <1>2. Current(x) /\ i < Len(x.store.pages) /\ i \in Nat
    BY <1>1, DeviceAssumption DEF SameData, Current
  <1>3. i = IF x.target.void THEN x.target.newest ELSE x.target.index
    BY <1>1
  <1>4. /\ e \in DeviceType /\ SameData(x, e)
        /\ e.devSize = Fit(x.store.pages[i + 1].size)
        /\ e.target = x.target /\ e.history = x.history
        /\ e.replaying = x.replaying /\ e.initialized = x.initialized
        /\ e.displayList = x.displayList
    BY <1>1, <1>2, <1>3, ResizeToPageFields, Zenon
  <1> HIDE DEF e
  <1>5. Targets(e, i) /\ SameData(d, e)
    BY <1>1, <1>2, <1>4 DEF Targets, SameData
  <1> QED
    BY <1>1, <1>4, <1>5 DEF SameData, x, e

(* A snapshot is played on the page it is of.                              *)
LEMMA PlayOnPage ==
    ASSUME NEW d, NEW i, Targets(d, i), Current(d),
           \A n \in 1..Len(d.buffer) : d.buffer[n].n = 0,
           d.devSize = Fit(d.store.pages[i + 1].size),
           i < Len(d.history), d.history[i + 1].plot = d.store.pages[i + 1].id,
           NEW upto \in Int
    PROVE  LET e == Play(d, i, upto) IN
             /\ e \in DeviceType
             /\ e.target = d.target /\ e.history = d.history
             /\ e.replaying = d.replaying /\ e.initialized = d.initialized
             /\ e.displayList = d.history[i + 1] /\ e.devSize = d.devSize
             /\ RedrawnAs(d, e, i + 1, d.store.pages[i + 1].size,
                          Completed(upto, d.history[i + 1].ops), upto)
  <1> DEFINE l == d.history[i + 1]
             m == [d EXCEPT !.displayList = l]
             k == Completed(upto, l.ops)
             e == Replay(m, l, upto)
  <1>1. d \in DeviceType /\ d.store \in Store /\ d.history \in Seq(Drawing) /\ i \in Nat
    BY DEF Targets, DeviceType
  <1>2. HistoryGet(d.history, i) = l /\ l \in Drawing
    BY <1>1, HistoryGetEntry
  <1>3. l # NoDrawing
    <2>1. Len(d.store.pages) \in Nat /\ i < Len(d.store.pages)
      BY <1>1, IndexOf DEF Targets
    <2>2. i + 1 \in 1..Len(d.store.pages)
      BY <1>1, <2>1
    <2>3. l.plot >= 0
      BY <1>1, <2>2, PageAt DEF Page
    <2> QED
      BY <2>3 DEF NoDrawing
  <1>4. Play(d, i, upto) = e
    BY <1>2, <1>3 DEF Play
  <1> HIDE DEF l
  <1>5. /\ m \in DeviceType /\ SameData(d, m) /\ m.displayList = l
        /\ m.target = d.target /\ m.history = d.history
        /\ m.replaying = d.replaying /\ m.initialized = d.initialized
        /\ m.devSize = d.devSize
    BY <1>1, <1>2, WithDisplayList, Zenon
  <1> HIDE DEF m
  <1>6. /\ Targets(m, i)
        /\ \A n \in 1..Len(m.buffer) : m.buffer[n].n = 0
        /\ m.devSize = Fit(m.store.pages[i + 1].size)
        /\ l.plot = m.store.pages[i + 1].id
    BY <1>5 DEF Targets, SameData, l
  <1>7. ReplayedOn(m, e, i + 1, k, upto)
    BY <1>2, <1>6, ReplayOnPage, Zenon
  <1> HIDE DEF e, k
  <1> QED
    BY <1>4, <1>5, <1>7 DEF ReplayedOn, RedrawnAs, LeftBy, KeepsRest, SameData, l, k

(* A snapshot is played while there is no target: the drawing that is open *)
(* changes, nothing else.                                                  *)
LEMMA PlayVoid ==
    ASSUME NEW d \in DeviceType, d.target.void, Current(d),
           NEW i \in Nat, i < Len(d.history), d.history[i + 1] # NoDrawing,
           NEW upto \in Int
    PROVE  LET e == Play(d, i, upto) IN
             /\ e \in DeviceType /\ SameData(d, e)
             /\ e.target = d.target /\ e.history = d.history
             /\ e.replaying = d.replaying /\ e.initialized = d.initialized
             /\ e.displayList = d.history[i + 1] /\ e.devSize = d.devSize
  <1> DEFINE l == d.history[i + 1]
             m == [d EXCEPT !.displayList = l]
  <1>1. d.history \in Seq(Drawing)
    BY DEF DeviceType
  <1>2. HistoryGet(d.history, i) = l /\ l \in Drawing
    BY <1>1, HistoryGetEntry
  <1>3. Play(d, i, upto) = Replay(m, l, upto)
    BY <1>2 DEF Play
  <1> HIDE DEF l
  <1>4. /\ m \in DeviceType /\ SameData(d, m) /\ m.displayList = l
        /\ m.target = d.target /\ m.history = d.history
        /\ m.replaying = d.replaying /\ m.initialized = d.initialized
        /\ m.devSize = d.devSize
    BY <1>2, WithDisplayList, Zenon
  <1> HIDE DEF m
  <1>5. Replay(m, l, upto) = m
    BY <1>2, <1>4, ReplayVoid
  <1> QED
    BY <1>3, <1>4, <1>5 DEF l

LEMMA PrerenderOlderFields ==
    ASSUME NEW d, Opened(d), NEW i \in 0..(d.target.newest - 1), NEW z \in Size,
           NEW upto \in Int, NEW upto2 \in Int
    PROVE  LET e == PrerenderOlder(d, i, z, upto, upto2)
               newest == d.target.newest IN
             /\ e \in DeviceType
             /\ e.target.index = newest /\ e.target.newest = newest
             /\ e.target.void = FALSE
             /\ e.history = HistoryPut(d.history, newest, d.displayList)
             /\ e.displayList = d.displayList
             /\ e.replaying = FALSE /\ e.initialized = d.initialized
             /\ e.devSize = Fit(d.store.pages[newest + 1].size)
             /\ RedrawnAs(d, e, i + 1, z, Completed(upto, d.history[i + 1].ops), upto)
  <1> DEFINE newest == d.target.newest
             a == [d EXCEPT !.replaying = TRUE, !.store = Resize(@, i, z)]
             h == HistoryPut(d.history, newest, d.displayList)
             b == [a EXCEPT !.history = h]
             x == ResizeToPage(SetIndex(b, i))
             c == Play(x, i, upto)
             v == SetVoid(c)
             w == ResizeToPage(v)
             y == Play(w, newest, upto2)
             r == SetIndex(y, newest)
             e == [r EXCEPT !.replaying = FALSE]
             k == Completed(upto, d.history[i + 1].ops)
  <1>1. /\ d \in DeviceType /\ d.store \in Store /\ d.history \in Seq(Drawing)
        /\ d.displayList \in Drawing /\ d.displayList # NoDrawing
        /\ newest \in 0..(MaxPlots - 1) /\ newest \in Nat
        /\ i \in Nat /\ i < newest /\ i \in 0..newest /\ i \in 0..(MaxPlots - 1)
        /\ Len(d.history) \in Nat /\ newest <= Len(d.history)
        /\ Len(d.store.pages) = newest + 1
    <2>1. /\ d \in DeviceType /\ d.store \in Store /\ d.history \in Seq(Drawing)
          /\ d.displayList \in Drawing /\ d.displayList # NoDrawing
          /\ newest \in 0..(MaxPlots - 1)
      BY OpenedFields
    <2>2. /\ Len(d.history) \in {newest, newest + 1}
          /\ Len(d.store.pages) = newest + 1
      BY DEF Opened
    <2>3. i \in Nat /\ i < newest /\ i \in 0..newest /\ i \in 0..(MaxPlots - 1)
      BY <2>1, DeviceAssumption
    <2>4. Len(d.history) \in Nat /\ newest <= Len(d.history) /\ newest \in Nat
      BY <2>1, <2>2, DeviceAssumption
    <2> QED
      BY <2>1, <2>2, <2>3, <2>4
  <1>2. /\ a \in DeviceType
        /\ OnlyPage(d.store, a.store, i + 1)
        /\ GoodPage(a.store.pages[i + 1])
        /\ a.store.pages[i + 1].id = d.store.pages[i + 1].id
        /\ a.store.pages[i + 1].size = z
        /\ a.buffer = d.buffer /\ a.told = d.told /\ a.target = d.target
        /\ a.history = d.history /\ a.initialized = d.initialized
        /\ a.displayList = d.displayList
        /\ Current(a)
    <2>1. LET f == [d EXCEPT !.replaying = TRUE, !.store = Resize(@, i, z)]
              q == f.store.pages[i + 1] IN
             /\ f \in DeviceType
             /\ OnlyPage(d.store, f.store, i + 1)
             /\ GoodPage(q) /\ q.id = d.store.pages[i + 1].id /\ q.size = z
             /\ q.dcs = <<>>
             /\ f.buffer = d.buffer /\ f.told = d.told /\ f.target = d.target
             /\ f.history = d.history /\ f.initialized = d.initialized
             /\ f.displayList = d.displayList
             /\ Current(f)
      BY <1>1, PreparedFields, Zenon
    <2> QED
      BY <2>1
  <1> HIDE DEF a
  <1>a. newest = d.target.newest
    OBVIOUS
  <1> HIDE DEF newest
  <1>3. /\ h \in Seq(Drawing) /\ newest < Len(h)
        /\ h[newest + 1] = d.displayList /\ h[i + 1] = d.history[i + 1] /\ i < Len(h)
    <2>1. PutInto(h, d.history, newest, d.displayList)
      <3>1. /\ d.history \in Seq(Drawing) /\ newest \in Nat /\ newest <= Len(d.history)
            /\ d.displayList \in Drawing
        BY <1>1
      <3> QED
        BY <3>1, HistoryPutFields
    <2>2. i + 1 \in 1..Len(d.history) /\ i + 1 # newest + 1
      BY <1>1
    <2>3. /\ h \in Seq(Drawing)
          /\ Len(h) = IF Len(d.history) = newest THEN newest + 1 ELSE Len(d.history)
          /\ h[newest + 1] = d.displayList /\ h[i + 1] = d.history[i + 1]
      BY <2>1, <2>2 DEF PutInto
    <2> HIDE DEF h
    <2>4. newest < Len(h) /\ i < Len(h)
      BY <1>1, <2>3
    <2> QED
      BY <2>3, <2>4
  <1> HIDE DEF h
  <1>4. /\ b \in DeviceType /\ SameData(a, b) /\ b.history = h
        /\ b.target = a.target /\ b.initialized = a.initialized
        /\ b.displayList = a.displayList
    BY <1>2, <1>3, WithHistory, Zenon
  <1>5. b = IF ActiveList(a) = NoDrawing
            THEN a
            ELSE [a EXCEPT !.history = HistoryPut(@, a.target.newest, ActiveList(a))]
    BY <1>1, <1>2, <1>a DEF ActiveList, h
  <1> HIDE DEF b
  <1>6. /\ Targets(x, i) /\ SameData(b, x)
        /\ x.target.newest = newest
        /\ x.devSize = Fit(b.store.pages[i + 1].size)
        /\ x.history = h /\ x.initialized = d.initialized
        /\ x.displayList = d.displayList
    <2>1. Current(b) /\ i < Len(b.store.pages)
      BY <1>1, <1>2, <1>4 DEF Current, SameData, OnlyPage
    <2>2. LET f == ResizeToPage(SetIndex(b, i)) IN
             /\ Targets(f, i) /\ SameData(b, f)
             /\ f.target.newest = b.target.newest
             /\ f.devSize = Fit(b.store.pages[i + 1].size)
             /\ f.history = b.history /\ f.replaying = b.replaying
             /\ f.initialized = b.initialized /\ f.displayList = b.displayList
      BY <1>1, <1>4, <2>1, GoToPage, Zenon
    <2> QED
      BY <1>2, <1>4, <1>a, <2>2, Zenon
  <1> HIDE DEF x
  <1>7. /\ c \in DeviceType
        /\ c.target = x.target /\ c.history = h
        /\ c.initialized = d.initialized
        /\ RedrawnAs(x, c, i + 1, z, k, upto)
    <2>1. /\ Current(x)
          /\ \A n \in 1..Len(x.buffer) : x.buffer[n].n = 0
          /\ x.store.pages[i + 1].size = z
          /\ x.devSize = Fit(x.store.pages[i + 1].size)
          /\ i < Len(x.history)
          /\ x.history[i + 1] = d.history[i + 1]
      BY <1>2, <1>3, <1>4, <1>6 DEF Current, SameData, Opened
    <2>2. x.history[i + 1].plot = x.store.pages[i + 1].id
      <3>1. d.history[i + 1].plot = d.store.pages[i + 1].id
        <4>1. i + 1 \in 1..Len(d.history)
          BY <1>1
        <4> QED
          BY <4>1 DEF Opened
      <3> QED
        BY <1>2, <1>4, <1>6, <2>1, <3>1 DEF SameData
    <2>3. LET f == Play(x, i, upto) IN
             /\ f \in DeviceType
             /\ f.target = x.target /\ f.history = x.history
             /\ f.replaying = x.replaying /\ f.initialized = x.initialized
             /\ f.displayList = x.history[i + 1] /\ f.devSize = x.devSize
             /\ RedrawnAs(x, f, i + 1, x.store.pages[i + 1].size,
                          Completed(upto, x.history[i + 1].ops), upto)
      BY <1>6, <2>1, <2>2, PlayOnPage, Zenon
    <2> QED
      BY <1>6, <2>1, <2>3
  <1> HIDE DEF c, k
  <1>8. OnlyPage(d.store, c.store, i + 1)
    <2>1. OnlyPage(d.store, x.store, i + 1) /\ OnlyPage(x.store, c.store, i + 1)
      BY <1>2, <1>4, <1>6, <1>7 DEF SameData, RedrawnAs
    <2> QED
      BY <2>1, OnlyPageTrans
  <1>9. /\ v \in DeviceType /\ SameData(c, v)
        /\ v.target.newest = newest /\ v.target.void = TRUE
        /\ v.history = h /\ v.initialized = d.initialized
    <2>1. LET f == SetVoid(c) IN
             /\ f \in DeviceType /\ SameData(c, f)
             /\ f.target.index = -1 /\ f.target.newest = c.target.newest
             /\ f.target.void = TRUE
             /\ f.history = c.history /\ f.replaying = c.replaying
             /\ f.initialized = c.initialized /\ f.displayList = c.displayList
             /\ f.devSize = c.devSize
      BY <1>7, SetVoidFields, Zenon
    <2> QED
      BY <1>6, <1>7, <2>1, Zenon
  <1> HIDE DEF v
  <1>10. /\ w \in DeviceType /\ SameData(c, w)
         /\ w.devSize = Fit(d.store.pages[newest + 1].size)
         /\ w.target = v.target /\ w.history = h
         /\ w.initialized = d.initialized
    <2>a. Current(v) /\ Len(v.store.pages) = newest + 1
      BY <1>1, <1>8, <1>9 DEF Current, SameData, OnlyPage, Opened
    <2>1. Current(v) /\ newest < Len(v.store.pages)
      BY <1>1, <2>a
    <2>2. newest = IF v.target.void THEN v.target.newest ELSE v.target.index
      BY <1>9
    <2>3. v.store.pages[newest + 1] = d.store.pages[newest + 1]
      <3>1. newest + 1 \in 1..Len(d.store.pages) /\ newest + 1 # i + 1
        BY <1>1
      <3> QED
        BY <1>8, <1>9, <3>1 DEF SameData, OnlyPage
    <2>4. LET f == ResizeToPage(v) IN
             /\ f \in DeviceType /\ SameData(v, f)
             /\ f.devSize = Fit(v.store.pages[newest + 1].size)
             /\ f.target = v.target /\ f.history = v.history
             /\ f.replaying = v.replaying /\ f.initialized = v.initialized
             /\ f.displayList = v.displayList
      BY <1>1, <1>9, <2>1, <2>2, ResizeToPageFields, Zenon
    <2> QED
      BY <1>9, <2>3, <2>4 DEF SameData
  <1> HIDE DEF w
  <1>11. /\ y \in DeviceType /\ SameData(c, y)
         /\ y.target = v.target /\ y.history = h
         /\ y.initialized = d.initialized
         /\ y.displayList = d.displayList
         /\ y.devSize = Fit(d.store.pages[newest + 1].size)
    <2>1. /\ w.target.void /\ Current(w)
          /\ newest < Len(w.history) /\ w.history[newest + 1] = d.displayList
          /\ w.history[newest + 1] # NoDrawing
      <3>1. w.target.void /\ w.history = h
        BY <1>9, <1>10
      <3>2. w.store = c.store /\ c.store.active = d.store.active
        BY <1>8, <1>10 DEF SameData, OnlyPage
      <3>3. Current(w)
        BY <3>2 DEF Current, Opened
      <3> QED
        BY <1>1, <1>3, <3>1, <3>3
    <2>2. LET f == Play(w, newest, upto2) IN
             /\ f \in DeviceType /\ SameData(w, f)
             /\ f.target = w.target /\ f.history = w.history
             /\ f.replaying = w.replaying /\ f.initialized = w.initialized
             /\ f.displayList = w.history[newest + 1] /\ f.devSize = w.devSize
      <3>1. newest \in Nat /\ w \in DeviceType
        BY <1>1, <1>10
      <3>2. /\ w.target.void /\ Current(w) /\ newest < Len(w.history)
            /\ w.history[newest + 1] # NoDrawing
        BY <2>1
      <3> QED
        BY <3>1, <3>2, PlayVoid, Zenon
    <2> QED
      BY <1>10, <2>1, <2>2 DEF SameData
  <1>12. PrerenderOlder(d, i, z, upto, upto2) = e
    <2> DEFINE put == IF ActiveList(a) = NoDrawing
                      THEN a
                      ELSE [a EXCEPT !.history = HistoryPut(@, newest, ActiveList(a))]
               drawn == ResizeToPage(SetVoid(Play(ResizeToPage(SetIndex(put, i)), i, upto)))
               back == Play(drawn, newest, upto2)
    <2>1. newest >= 0 /\ put = b
      BY <1>1, <1>2, <1>5, <1>a
    <2>2. PrerenderOlder(d, i, z, upto, upto2)
            = IF newest >= 0 THEN [SetIndex(back, newest) EXCEPT !.replaying = FALSE]
              ELSE IF ActiveList(a) # NoDrawing THEN a ELSE drawn
      BY DEF PrerenderOlder, a, newest
    <2> HIDE DEF put
    <2>3. Play(ResizeToPage(SetIndex(b, i)), i, upto) = c
      BY DEF c, x
    <2>4. drawn = w
      BY <2>1, <2>3 DEF w, v
    <2> HIDE DEF drawn
    <2>5. back = y
      BY <2>4 DEF y
    <2> HIDE DEF back
    <2> QED
      BY <2>1, <2>2, <2>5
  <1> HIDE DEF y
  <1>13. /\ r \in DeviceType /\ SameData(y, r)
         /\ r.target.index = newest /\ r.target.newest = newest /\ r.target.void = FALSE
         /\ r.history = h /\ r.initialized = d.initialized
         /\ r.displayList = d.displayList
         /\ r.devSize = Fit(d.store.pages[newest + 1].size)
    <2>1. LET f == SetIndex(y, newest) IN
             /\ f \in DeviceType /\ SameData(y, f)
             /\ f.target.index = newest /\ f.target.newest = y.target.newest
             /\ f.target.void = FALSE
             /\ f.history = y.history /\ f.replaying = y.replaying
             /\ f.initialized = y.initialized /\ f.displayList = y.displayList
             /\ f.devSize = y.devSize
      BY <1>1, <1>11, SetIndexFields, Zenon
    <2> QED
      BY <1>9, <1>11, <2>1, Zenon
  <1> HIDE DEF r
  <1>14. /\ e \in DeviceType /\ SameData(r, e) /\ e.replaying = FALSE
         /\ e.target = r.target /\ e.history = r.history
         /\ e.initialized = r.initialized /\ e.displayList = r.displayList
         /\ e.devSize = r.devSize
    BY <1>13, ReplayingOff
  <1> HIDE DEF e
  <1>15. RedrawnAs(d, e, i + 1, z, k, upto)
    <2>1. /\ e.store = c.store /\ e.buffer = c.buffer /\ e.told = c.told
          /\ x.buffer = d.buffer /\ x.told = d.told
          /\ x.store.pages[i + 1].id = d.store.pages[i + 1].id
      BY <1>2, <1>4, <1>6, <1>11, <1>13, <1>14 DEF SameData
    <2> QED
      BY <1>7, <1>8, <2>1 DEF RedrawnAs, LeftBy
  <1> QED
    BY <1>12, <1>13, <1>14, <1>15 DEF h, k, newest

----------------------------------------------------------------------------
(* plt_remove.                                                             *)

LEMMA RemovePageStore ==
    ASSUME NEW s \in Store, NEW i \in Nat, i < Len(s.pages)
    PROVE  LET t == RemovePage(s, i, FALSE) IN
             /\ t \in Store /\ t.idCounter = s.idCounter /\ t.active = s.active
             /\ Len(t.pages) = Len(s.pages) - 1
             /\ \A n \in 1..Len(t.pages) :
                  t.pages[n] = s.pages[IF n < i + 1 THEN n ELSE n + 1]
  <1> DEFINE b == RemoveAt(s.pages, i + 1)
             u == [s EXCEPT !.pages = b]
  <1>1. s.pages \in Seq(Page) /\ ValidIndex(s, i) /\ Pos(s, i) = i + 1
        /\ Len(s.pages) \in Nat
    BY IndexOf DEF Store
  <1>2. i + 1 \in 1..Len(s.pages)
    BY <1>1
  <1>3. /\ b \in Seq(Page)
        /\ Len(b) = Len(s.pages) - 1
        /\ \A n \in 1..Len(b) : b[n] = s.pages[IF n < i + 1 THEN n ELSE n + 1]
    BY <1>1, <1>2, RemoveAtElements, Zenon
  <1>4. RemovePage(s, i, FALSE) = Touch(u, FALSE)
    BY <1>1 DEF RemovePage
  <1> HIDE DEF b
  <1>5. u \in Store /\ u.pages = b /\ u.idCounter = s.idCounter /\ u.active = s.active
    BY <1>3 DEF Store
  <1> HIDE DEF u
  <1>6. LET t == Touch(u, FALSE) IN
          /\ t \in Store /\ t.pages = u.pages
          /\ t.idCounter = u.idCounter /\ t.active = u.active
    BY <1>5, TouchStore
  <1> QED
    BY <1>3, <1>4, <1>5, <1>6

LEMMA HistoryRemoveEntry ==
    ASSUME NEW h \in Seq(Drawing), NEW i \in Nat, i < Len(h)
    PROVE  LET r == HistoryRemove(h, i) IN
             /\ r \in Seq(Drawing) /\ Len(r) = Len(h) - 1
             /\ \A n \in 1..Len(r) : r[n] = h[IF n < i + 1 THEN n ELSE n + 1]
  <1>1. i \in 0..(Len(h) - 1) /\ i + 1 \in 1..Len(h)
    OBVIOUS
  <1>2. HistoryRemove(h, i) = RemoveAt(h, i + 1)
    BY <1>1 DEF HistoryRemove
  <1>3. LET r == RemoveAt(h, i + 1) IN
             /\ r \in Seq(Drawing) /\ Len(r) = Len(h) - 1
             /\ \A n \in 1..Len(r) : r[n] = h[IF n < i + 1 THEN n ELSE n + 1]
    BY <1>1, RemoveAtElements, Zenon
  <1> QED
    BY <1>2, <1>3

(* The page and the entry of the history are out.                          *)
LEMMA TakeOut ==
    ASSUME NEW d \in DeviceType, NEW i \in Int,
           RemovePage(d.store, i, FALSE) \in Store,
           HistoryRemove(d.history, i) \in Seq(Drawing)
    PROVE  LET a == [d EXCEPT !.store = RemovePage(@, i, FALSE), !.replaying = TRUE]
               b == [a EXCEPT !.history = HistoryRemove(@, i)] IN
             /\ b \in DeviceType
             /\ b.store = RemovePage(d.store, i, FALSE)
             /\ b.history = HistoryRemove(d.history, i)
             /\ b.buffer = d.buffer /\ b.told = d.told /\ b.target = d.target
             /\ b.initialized = d.initialized /\ b.displayList = d.displayList
             /\ b.devSize = d.devSize
  <1> DEFINE s == RemovePage(d.store, i, FALSE)
             h == HistoryRemove(d.history, i)
             x == [d EXCEPT !.store = s]
             a == [x EXCEPT !.replaying = TRUE]
             b == [a EXCEPT !.history = h]
  <1>1. s \in Store /\ h \in Seq(Drawing) /\ TRUE \in BOOLEAN
    OBVIOUS
  <1>2. [d EXCEPT !.store = RemovePage(@, i, FALSE), !.replaying = TRUE] = a
    OBVIOUS
  <1> HIDE DEF s, h
  <1>3. KeepsRest(d, x) /\ x.store = s /\ x.buffer = d.buffer /\ x.told = d.told
    BY <1>1, WithStore, Zenon
  <1> HIDE DEF x
  <1>4. x \in DeviceType
    BY <1>3 DEF KeepsRest
  <1>5. /\ a \in DeviceType /\ SameData(x, a) /\ a.target = x.target
        /\ a.history = x.history /\ a.initialized = x.initialized
        /\ a.displayList = x.displayList /\ a.devSize = x.devSize
    BY <1>1, <1>4, WithReplaying, Zenon
  <1> HIDE DEF a
  <1>6. /\ b \in DeviceType /\ SameData(a, b) /\ b.history = h
        /\ b.target = a.target /\ b.initialized = a.initialized
        /\ b.displayList = a.displayList /\ b.devSize = a.devSize
    BY <1>1, <1>5, WithHistory, Zenon
  <1>7. a.history = d.history
    BY <1>3, <1>5 DEF KeepsRest
  <1>8. [a EXCEPT !.history = HistoryRemove(@, i)] = b
    BY <1>7 DEF h
  <1> HIDE DEF b
  <1> QED
    BY <1>2, <1>3, <1>5, <1>6, <1>8 DEF KeepsRest, SameData, s, h

(* newest is moved and the client told.                                    *)
LEMMA FinishRemove ==
    ASSUME NEW d \in DeviceType, NEW m \in -2..(MaxPlots - 1)
    PROVE  LET e == StateChange([SetNewest(d, m) EXCEPT !.replaying = FALSE]) IN
             /\ e \in DeviceType
             /\ e.target.index = d.target.index /\ e.target.newest = m
             /\ e.target.void = d.target.void
             /\ e.store = d.store /\ e.buffer = d.buffer /\ e.told = Ids(d.store)
             /\ e.history = d.history /\ e.replaying = FALSE
             /\ e.initialized = d.initialized /\ e.displayList = d.displayList
             /\ e.devSize = d.devSize
  <1> DEFINE x == SetNewest(d, m)
             y == [x EXCEPT !.replaying = FALSE]
             e == StateChange(y)
  <1>1. /\ x \in DeviceType /\ SameData(d, x)
        /\ x.target.index = d.target.index /\ x.target.newest = m
        /\ x.target.void = d.target.void
        /\ x.history = d.history /\ x.replaying = d.replaying
        /\ x.initialized = d.initialized /\ x.displayList = d.displayList
        /\ x.devSize = d.devSize
    BY SetNewestFields, Zenon
  <1> HIDE DEF x
  <1>2. /\ y \in DeviceType /\ SameData(x, y) /\ y.replaying = FALSE
        /\ y.target = x.target /\ y.history = x.history
        /\ y.initialized = x.initialized /\ y.displayList = x.displayList
        /\ y.devSize = x.devSize
    BY <1>1, ReplayingOff
  <1> HIDE DEF y
  <1>3. KeepsRest(y, e) /\ e.store = y.store /\ e.buffer = y.buffer /\ e.told = Ids(y.store)
    BY <1>2, StateChangeFields
  <1> HIDE DEF e
  <1> QED
    BY <1>1, <1>2, <1>3 DEF KeepsRest, SameData, e, y, x

(* A removal after which no other plot has to be played.                   *)
LEMMA RemoveFields ==
    ASSUME NEW d \in DeviceType, NEW i \in Int,
           d.target.newest > -2, ~ (i = d.target.newest /\ i > 0),
           ~HistoryFails(d.history, i),
           RemovePage(d.store, i, FALSE) \in Store,
           HistoryRemove(d.history, i) \in Seq(Drawing), NEW upto \in Int
    PROVE  LET e == PltRemove(d, i, upto) IN
             /\ e \in DeviceType
             /\ e.target.index = d.target.index
             /\ e.target.newest = d.target.newest - 1
             /\ e.target.void = d.target.void
             /\ e.store = RemovePage(d.store, i, FALSE)
             /\ e.history = HistoryRemove(d.history, i)
             /\ e.buffer = d.buffer /\ e.told = Ids(e.store)
             /\ e.replaying = FALSE
             /\ e.initialized = d.initialized /\ e.displayList = d.displayList
             /\ e.devSize = d.devSize
  <1> DEFINE n == d.target.newest
             a == [d EXCEPT !.store = RemovePage(@, i, FALSE), !.replaying = TRUE]
             b == [a EXCEPT !.history = HistoryRemove(@, i)]
             e == StateChange([SetNewest(b, n - 1) EXCEPT !.replaying = FALSE])
  <1>1. n - 1 \in -2..(MaxPlots - 1)
    BY DeviceAssumption DEF DeviceType, Target
  <1>2. /\ b \in DeviceType
        /\ b.store = RemovePage(d.store, i, FALSE)
        /\ b.history = HistoryRemove(d.history, i)
        /\ b.buffer = d.buffer /\ b.told = d.told /\ b.target = d.target
        /\ b.initialized = d.initialized /\ b.displayList = d.displayList
        /\ b.devSize = d.devSize
    BY TakeOut, Zenon
  <1>3. PltRemove(d, i, upto) = e
    BY DEF PltRemove
  <1> HIDE DEF b
  <1>4. /\ e \in DeviceType
        /\ e.target.index = b.target.index /\ e.target.newest = n - 1
        /\ e.target.void = b.target.void
        /\ e.store = b.store /\ e.buffer = b.buffer /\ e.told = Ids(b.store)
        /\ e.history = b.history /\ e.replaying = FALSE
        /\ e.initialized = b.initialized /\ e.displayList = b.displayList
        /\ e.devSize = b.devSize
    BY <1>1, <1>2, FinishRemove, Zenon
  <1> QED
    BY <1>2, <1>3, <1>4

(* The newest plot is removed and the one before it played on its page.    *)
LEMMA RemoveNewestFields ==
    ASSUME NEW d, Opened(d), d.target.newest > 0, NEW upto \in Int
    PROVE  LET e == PltRemove(d, d.target.newest, upto)
               n == d.target.newest
               p == d.store.pages[n]
               q == e.store.pages[n] IN
             /\ e \in DeviceType
             /\ e.target.index = n - 1 /\ e.target.newest = n - 1
             /\ e.target.void = FALSE
             /\ e.history \in Seq(Drawing) /\ Len(e.history) = n
             /\ \A k \in 1..n : e.history[k] = d.history[k]
             /\ e.displayList = d.history[n]
             /\ e.replaying = FALSE /\ e.initialized = d.initialized
             /\ e.devSize = Fit(p.size)
             /\ e.store.idCounter = d.store.idCounter /\ e.store.active = d.store.active
             /\ Len(e.store.pages) = n
             /\ \A k \in 1..(n - 1) : e.store.pages[k] = d.store.pages[k]
             /\ GoodPage(q) /\ q.id = p.id /\ q.size = p.size
             /\ UpTo(q, Completed(upto, d.history[n].ops))
             /\ d.buffer = <<>> => Whole(q, Completed(upto, d.history[n].ops))
             /\ \A m \in 1..Len(e.buffer) : e.buffer[m].n = 0
             /\ upto >= 0 => e.buffer = d.buffer \/ e.buffer = <<>>
             /\ e.told = Ids(e.store)
  <1> DEFINE n == d.target.newest
             s == RemovePage(d.store, n, FALSE)
             h == HistoryRemove(d.history, n)
             a == [d EXCEPT !.store = RemovePage(@, n, FALSE), !.replaying = TRUE]
             b == [a EXCEPT !.history = HistoryRemove(@, n)]
             x == ResizeToPage(SetIndex(b, n - 1))
             y == Play(x, n - 1, upto)
             e == StateChange([SetNewest(y, n - 1) EXCEPT !.replaying = FALSE])
             k == Completed(upto, d.history[n].ops)
  <1>1. /\ d \in DeviceType /\ d.store \in Store /\ d.history \in Seq(Drawing)
        /\ n \in 0..(MaxPlots - 1)
    BY OpenedFields
  <1>2. /\ n \in Nat /\ n > 0 /\ n \in Int
        /\ n - 1 \in Nat /\ n - 1 \in 0..(MaxPlots - 1) /\ n - 1 \in -2..(MaxPlots - 1)
        /\ n - 1 + 1 = n
    BY <1>1, DeviceAssumption
  <1>3. Len(d.store.pages) = n + 1 /\ Len(d.history) \in {n, n + 1}
    BY DEF Opened
  <1>a. n = d.target.newest
    OBVIOUS
  <1> HIDE DEF n
  <1>4. /\ s \in Store /\ s.idCounter = d.store.idCounter /\ s.active = d.store.active
        /\ Len(s.pages) = n
        /\ \A m \in 1..n : s.pages[m] = d.store.pages[m]
    <2>1. n < Len(d.store.pages)
      BY <1>2, <1>3
    <2>2. LET t == RemovePage(d.store, n, FALSE) IN
             /\ t \in Store /\ t.idCounter = d.store.idCounter /\ t.active = d.store.active
             /\ Len(t.pages) = Len(d.store.pages) - 1
             /\ \A m \in 1..Len(t.pages) :
                  t.pages[m] = d.store.pages[IF m < n + 1 THEN m ELSE m + 1]
      BY <1>1, <1>2, <2>1, RemovePageStore, Zenon
    <2> HIDE DEF s
    <2>3. /\ s \in Store /\ s.idCounter = d.store.idCounter /\ s.active = d.store.active
          /\ Len(s.pages) = Len(d.store.pages) - 1
          /\ \A m \in 1..Len(s.pages) :
                  s.pages[m] = d.store.pages[IF m < n + 1 THEN m ELSE m + 1]
      BY <2>2 DEF s
    <2>4. Len(s.pages) = n
      BY <1>2, <1>3, <2>3
    <2>5. \A m \in 1..n : m < n + 1
      BY <1>2
    <2> QED
      BY <2>3, <2>4, <2>5
  <1>5. h \in Seq(Drawing) /\ Len(h) = n /\ \A m \in 1..n : h[m] = d.history[m]
    <2>1. CASE Len(d.history) = n
      <3>1. n \notin 0..(Len(d.history) - 1)
        BY <1>2, <2>1
      <3>2. h = d.history
        BY <3>1 DEF HistoryRemove
      <3> QED
        BY <1>1, <2>1, <3>2
    <2>2. CASE Len(d.history) = n + 1
      <3>1. n < Len(d.history)
        BY <1>2, <2>2
      <3>2. LET r == HistoryRemove(d.history, n) IN
             /\ r \in Seq(Drawing) /\ Len(r) = Len(d.history) - 1
             /\ \A m \in 1..Len(r) : r[m] = d.history[IF m < n + 1 THEN m ELSE m + 1]
        BY <1>1, <1>2, <3>1, HistoryRemoveEntry, Zenon
      <3> HIDE DEF h
      <3>3. /\ h \in Seq(Drawing) /\ Len(h) = Len(d.history) - 1
            /\ \A m \in 1..Len(h) : h[m] = d.history[IF m < n + 1 THEN m ELSE m + 1]
        BY <3>2 DEF h
      <3> QED
        BY <1>2, <2>2, <3>3
    <2> QED
      BY <1>3, <2>1, <2>2
  <1>6. /\ b \in DeviceType /\ b.store = s /\ b.history = h
        /\ b.buffer = d.buffer /\ b.target = d.target
        /\ b.initialized = d.initialized
    BY <1>1, <1>2, <1>4, <1>5, TakeOut, Zenon
  <1>7. PltRemove(d, n, upto) = e
    <2>1. ~HistoryFails(d.history, n)
      BY <1>2 DEF HistoryFails
    <2>2. n = d.target.newest /\ n > 0
      BY <1>2, <1>a
    <2> HIDE DEF a, e
    <2>3. PltRemove(d, n, upto) =
            StateChange([SetNewest(Play(ResizeToPage(SetIndex(b, n - 1)), n - 1, upto), n - 1)
                         EXCEPT !.replaying = FALSE])
      BY <2>1, <2>2 DEF PltRemove, a
    <2> QED
      BY <2>3 DEF e
  <1> HIDE DEF s, h, b
  <1>8. /\ Targets(x, n - 1) /\ SameData(b, x)
        /\ x.target.newest = n
        /\ x.devSize = Fit(s.pages[n].size)
        /\ x.history = h /\ x.initialized = d.initialized
    <2>a. Current(b) /\ Len(b.store.pages) = n
      BY <1>4, <1>6 DEF Current, Opened
    <2>1. Current(b) /\ n - 1 < Len(b.store.pages)
      BY <1>2, <2>a
    <2>2. LET f == ResizeToPage(SetIndex(b, n - 1)) IN
             /\ Targets(f, n - 1) /\ SameData(b, f)
             /\ f.target.newest = b.target.newest
             /\ f.devSize = Fit(b.store.pages[n - 1 + 1].size)
             /\ f.history = b.history /\ f.replaying = b.replaying
             /\ f.initialized = b.initialized /\ f.displayList = b.displayList
      BY <1>2, <1>6, <2>1, GoToPage, Zenon
    <2> QED
      BY <1>2, <1>6, <1>a, <2>2, Zenon
  <1> HIDE DEF x
  <1>9. /\ y \in DeviceType
        /\ y.target = x.target /\ y.history = h /\ y.initialized = d.initialized
        /\ y.displayList = d.history[n] /\ y.devSize = Fit(s.pages[n].size)
        /\ RedrawnAs(x, y, n, s.pages[n].size, k, upto)
    <2>1. /\ Current(x)
          /\ \A m \in 1..Len(x.buffer) : x.buffer[m].n = 0
          /\ x.store = s
      <3>1. x.store = s /\ x.buffer = d.buffer
        BY <1>6, <1>8 DEF SameData
      <3>2. s.active = d.store.active
        BY <1>4
      <3> QED
        BY <3>1, <3>2 DEF Current, Opened
    <2>2. n \in 1..n /\ n - 1 < Len(x.history) /\ x.history[n] = d.history[n]
      BY <1>2, <1>5, <1>8
    <2>3. n \in 1..Len(d.history)
      BY <1>1, <1>2, <1>3
    <2>4. x.history[n].plot = x.store.pages[n].id
      BY <1>4, <2>1, <2>2, <2>3 DEF Opened
    <2>5. LET f == Play(x, n - 1, upto) IN
             /\ f \in DeviceType
             /\ f.target = x.target /\ f.history = x.history
             /\ f.replaying = x.replaying /\ f.initialized = x.initialized
             /\ f.displayList = x.history[n - 1 + 1] /\ f.devSize = x.devSize
             /\ RedrawnAs(x, f, n - 1 + 1, x.store.pages[n - 1 + 1].size,
                          Completed(upto, x.history[n - 1 + 1].ops), upto)
      <3>1. /\ x.devSize = Fit(x.store.pages[n - 1 + 1].size)
            /\ x.history[n - 1 + 1].plot = x.store.pages[n - 1 + 1].id
        BY <1>2, <1>8, <2>1, <2>4
      <3> QED
        BY <1>8, <2>1, <2>2, <3>1, PlayOnPage, Zenon
    <2> QED
      BY <1>2, <1>8, <2>1, <2>2, <2>5
  <1> HIDE DEF y, k
  <1>10. /\ e \in DeviceType
         /\ e.target.index = y.target.index /\ e.target.newest = n - 1
         /\ e.target.void = y.target.void
         /\ e.store = y.store /\ e.buffer = y.buffer /\ e.told = Ids(y.store)
         /\ e.history = y.history /\ e.replaying = FALSE
         /\ e.initialized = y.initialized /\ e.displayList = y.displayList
         /\ e.devSize = y.devSize
    BY <1>2, <1>9, FinishRemove, Zenon
  <1> HIDE DEF e
  <1>11. e.target.index = n - 1 /\ e.target.void = FALSE
    BY <1>8, <1>9, <1>10 DEF Targets
  <1>12. /\ OnlyPage(s, e.store, n)
         /\ GoodPage(e.store.pages[n])
         /\ e.store.pages[n].id = d.store.pages[n].id
         /\ e.store.pages[n].size = d.store.pages[n].size
         /\ UpTo(e.store.pages[n], k)
         /\ d.buffer = <<>> => Whole(e.store.pages[n], k)
         /\ \A m \in 1..Len(e.buffer) : e.buffer[m].n = 0
         /\ upto >= 0 => e.buffer = d.buffer \/ e.buffer = <<>>
    <2>1. s.pages[n] = d.store.pages[n]
      BY <1>2, <1>4
    <2> QED
      BY <1>6, <1>8, <1>9, <1>10, <2>1 DEF RedrawnAs, LeftBy, SameData
  <1>13. /\ e.store.idCounter = d.store.idCounter /\ e.store.active = d.store.active
         /\ Len(e.store.pages) = n
         /\ \A m \in 1..(n - 1) : e.store.pages[m] = d.store.pages[m]
    <2>1. \A m \in 1..(n - 1) : m \in 1..n /\ m # n
      BY <1>2
    <2> QED
      BY <1>4, <1>12, <2>1 DEF OnlyPage
  <1>14. e.history \in Seq(Drawing) /\ Len(e.history) = n
         /\ \A m \in 1..n : e.history[m] = d.history[m]
    BY <1>5, <1>9, <1>10
  <1>15. /\ e.displayList = d.history[n] /\ e.initialized = d.initialized
         /\ e.devSize = Fit(d.store.pages[n].size)
    <2>1. s.pages[n] = d.store.pages[n]
      BY <1>2, <1>4
    <2> QED
      BY <1>9, <1>10, <2>1
  <1> QED
    BY <1>7, <1>10, <1>11, <1>12, <1>13, <1>14, <1>15 DEF n, k

----------------------------------------------------------------------------
(* The invariant, of a record.                                             *)

(* OpsOf and Plots, of a record.                                           *)
OpsIn(d, n) ==
    IF n <= d.target.newest THEN HistoryGet(d.history, n - 1).ops ELSE d.displayList.ops

PlotsIn(d) ==
    IF d.initialized
    THEN [n \in 1..Len(d.store.pages) |->
            [id |-> d.store.pages[n].id, ops |-> OpsIn(d, n)]]
    ELSE <<>>

(* A device that is open.                                                  *)
Lists(d) ==
    LET newest == d.target.newest IN
    /\ Len(d.store.pages) = IF newest < 0 THEN 0 ELSE newest + 1
    /\ Len(d.history) \in IF newest < 0 THEN {0} ELSE {newest, newest + 1}
    /\ \A n \in 1..Len(d.history) : d.history[n].plot = d.store.pages[n].id

OpenPage(d) ==
    LET p == d.store.pages[d.target.newest + 1] IN
    /\ d.displayList.plot = p.id
    /\ d.devSize = Fit(p.size)
    /\ UpTo(p, d.displayList.ops)
    /\ d.target.index = d.target.newest \/ d.target.index >= Len(d.store.pages)

Told(d) ==
    /\ \A n \in 1..Len(d.store.pages) :
          d.store.pages[n].dcs # <<>> => d.store.pages[n].id \in ToSet(d.told)
    /\ ToSet(d.told) \subseteq ToSet(Ids(d.store))

(* IInv, but for what it says of the time before the first failure.        *)
GoodDevice(d) ==
    /\ d \in DeviceType
    /\ Len(d.store.pages) <= d.store.idCounter
    /\ \A n \in 1..Len(d.store.pages) : GoodPage(d.store.pages[n])
    /\ \A n \in 1..Len(d.buffer) : d.buffer[n].n = 0
    /\ d.target.void <=> d.target.index = -1
    /\ d.displayList = NoDrawing \/ d.displayList.plot >= 0
    /\ d.devSize = Fit(d.devSize)
    /\ d.replaying = FALSE
    /\ d.initialized =>
        /\ Lists(d) /\ Told(d)
        /\ d.target.newest >= 0 => OpenPage(d)

AllWhole(d) ==
    d.initialized =>
        \A n \in 1..Len(d.store.pages) : Whole(d.store.pages[n], OpsIn(d, n))

OnTarget(d) == d.initialized /\ d.target.newest >= 0 => d.target.index = d.target.newest

(* ... and that.                                                           *)
Undisturbed(d, f, s) ==
    /\ f = 0 => d.buffer = <<>>
    /\ ~s => OnTarget(d)
    /\ f = 0 /\ ~s => AllWhole(d)

----------------------------------------------------------------------------
(* From the variables to the record and back.                              *)

LEMMA DeviceFields ==
    /\ Device.store = store /\ Device.target = target /\ Device.history = history
    /\ Device.buffer = buffer /\ Device.replaying = replaying
    /\ Device.initialized = initialized /\ Device.displayList = displayList
    /\ Device.devSize = devSize /\ Device.told = told
  BY DEF Device

LEMMA OpsOfDevice == \A n : OpsOf(n) = OpsIn(Device, n)
  BY DeviceFields DEF OpsOf, OpsIn

LEMMA PlotsOfDevice == Plots = PlotsIn(Device)
  BY DeviceFields, OpsOfDevice DEF Plots, PlotsIn, Pages

LEMMA PlotsOfNextDevice == (Plots = PlotsIn(Device))'
  BY PlotsOfDevice, PTL

LEMMA OfDevice ==
    ASSUME IInv
    PROVE  GoodDevice(Device) /\ Undisturbed(Device, failures, shifted)
  <1>1. Device \in DeviceType
    BY DEF IInv, TypeOK, Device, DeviceType
  <1>2. \A n \in 1..Len(store.pages) : GoodPage(store.pages[n])
    <2>1. store \in Store
      BY DEF IInv, TypeOK
    <2> QED
      BY <2>1, PageAt DEF IInv, OwnDrawing, LaidOut, ClipHonoured, GoodPage, Pages
  <1>3. initialized => Lists(Device) /\ Told(Device)
    BY DeviceFields DEF IInv, Aligned, ToldOfDrawing, Pages, Lists, Told
  <1>4. initialized /\ target.newest >= 0 => OpenPage(Device)
    BY DeviceFields
       DEF IInv, Aligned, DeviceFits, EngineOK, TargetOK, Pages, OpenPage, UpTo
  <1>5. GoodDevice(Device)
    BY <1>1, <1>2, <1>3, <1>4, DeviceFields
       DEF IInv, Pages, BufferOK, TargetOK, EngineOK, GoodDevice
  <1>6. (failures = 0 => buffer = <<>>) /\ (~shifted => OnTarget(Device))
    BY DeviceFields DEF IInv, BufferOK, TargetOK, OnTarget
  <1>7. failures = 0 /\ ~shifted => AllWhole(Device)
    BY DeviceFields, OpsOfDevice DEF IInv, PagesComplete, AllWhole, Pages
  <1> QED
    BY <1>5, <1>6, <1>7, DeviceFields DEF Undisturbed

LEMMA ToDevice ==
    /\ failures \in 0..MaxFailures /\ shifted \in BOOLEAN
    /\ GoodDevice(Device) /\ Undisturbed(Device, failures, shifted)
    => IInv
  <1> SUFFICES ASSUME failures \in 0..MaxFailures, shifted \in BOOLEAN,
                      GoodDevice(Device), Undisturbed(Device, failures, shifted)
               PROVE  IInv
    OBVIOUS
  <1>1. TypeOK
    BY DeviceFields DEF GoodDevice, DeviceType, TypeOK
  <1>2. OwnDrawing /\ LaidOut /\ ClipHonoured /\ \A n \in 1..Len(Pages) : ClipsNumbered(Pages[n])
    BY DeviceFields DEF GoodDevice, GoodPage, OwnDrawing, LaidOut, ClipHonoured, Pages
  <1>3. Aligned /\ DeviceFits /\ ToldOfDrawing
    BY DeviceFields
       DEF GoodDevice, Lists, Told, OpenPage, Aligned, DeviceFits, ToldOfDrawing, Pages
  <1>4. BufferOK /\ EngineOK
    BY DeviceFields DEF GoodDevice, Undisturbed, OpenPage, UpTo, BufferOK, EngineOK, Pages
  <1>5. TargetOK
    BY DeviceFields DEF GoodDevice, Undisturbed, OpenPage, OnTarget, TargetOK, Pages
  <1>6. PagesComplete
    BY DeviceFields, OpsOfDevice DEF Undisturbed, AllWhole, PagesComplete, Pages
  <1>7. Len(Pages) <= store.idCounter /\ ~replaying
    BY DeviceFields DEF GoodDevice, Pages
  <1> QED
    BY <1>1, <1>2, <1>3, <1>4, <1>5, <1>6, <1>7 DEF IInv

LEMMA ToNextDevice ==
    (/\ failures \in 0..MaxFailures /\ shifted \in BOOLEAN
     /\ GoodDevice(Device) /\ Undisturbed(Device, failures, shifted))'
    => IInv'
  BY ToDevice, PTL

LEMMA BecomesDevice ==
    ASSUME NEW e \in DeviceType, Becomes(e)
    PROVE  Device' = e
  BY DEF Becomes, Device, DeviceType

LEMMA NextDevice ==
    ASSUME NEW e, Becomes(e), GoodDevice(e), Undisturbed(e, failures', shifted'),
           failures' \in 0..MaxFailures, shifted' \in BOOLEAN
    PROVE  IInv' /\ Plots' = PlotsIn(e) /\ store'.idCounter = e.store.idCounter
  <1>1. Device' = e
    BY BecomesDevice DEF GoodDevice
  <1>2. GoodDevice(Device)' /\ Undisturbed(Device, failures, shifted)'
    BY <1>1
  <1>3. Plots' = PlotsIn(Device)'
    BY PlotsOfNextDevice
  <1>4. store' = e.store
    BY DEF Becomes
  <1> QED
    BY <1>1, <1>2, <1>3, <1>4, ToNextDevice

----------------------------------------------------------------------------
(* Small facts.                                                            *)

(* How many operations the plots of an open device have.                   *)
LEMMA OpsOfPlots ==
    ASSUME NEW d, d.history \in Seq(Drawing), d.target.newest \in Nat,
           Len(d.history) \in {d.target.newest, d.target.newest + 1}
    PROVE  /\ OpsIn(d, d.target.newest + 1) = d.displayList.ops
           /\ \A n \in 1..d.target.newest : OpsIn(d, n) = d.history[n].ops
  <1> DEFINE newest == d.target.newest
  <1>1. OpsIn(d, newest + 1) = d.displayList.ops
    BY DEF OpsIn
  <1>2. ASSUME NEW n \in 1..newest
        PROVE  OpsIn(d, n) = d.history[n].ops
    <2>1. n <= newest /\ n - 1 \in Nat /\ n - 1 < Len(d.history) /\ n - 1 + 1 = n
      OBVIOUS
    <2>2. HistoryGet(d.history, n - 1) = d.history[n - 1 + 1]
      BY <2>1, HistoryGetEntry
    <2> QED
      BY <2>1, <2>2 DEF OpsIn
  <1> QED
    BY <1>1, <1>2

LEMMA UpToMore ==
    ASSUME NEW p \in Page, NEW m \in Int, NEW n \in Int, m <= n, UpTo(p, m)
    PROVE  UpTo(p, n)
  <1> SUFFICES ASSUME NEW k \in Recorded(p)
               PROVE  p.dcs[k].op.n <= n
    BY DEF UpTo
  <1>1. k \in 1..Len(p.dcs) /\ p.dcs \in Seq(DrawCall)
    BY DEF Recorded, Page
  <1>2. p.dcs[k] \in DrawCall
    BY <1>1
  <1>3. p.dcs[k].op.n \in Int
    BY <1>2, DeviceAssumption DEF DrawCall, DrawnOp
  <1>4. p.dcs[k].op.n <= m
    BY DEF UpTo
  <1> QED
    BY <1>3, <1>4

(* A client that was just told knows every plot.                           *)
LEMMA JustTold ==
    ASSUME NEW d, d.store \in Store, d.told = Ids(d.store)
    PROVE  Told(d)
  <1>1. \A n \in 1..Len(d.store.pages) : d.store.pages[n].id \in ToSet(d.told)
    BY IdsOf DEF ToSet
  <1> QED
    BY <1>1 DEF Told

(* The ids tell which elements ToSet(Ids) has.                             *)
LEMMA IdSet ==
    ASSUME NEW s \in Store
    PROVE  ToSet(Ids(s)) = {s.pages[n].id : n \in 1..Len(s.pages)}
  <1>1. DOMAIN Ids(s) = 1..Len(s.pages)
    BY DEF Ids
  <1> QED
    BY <1>1 DEF ToSet, Ids

(* An open device with plots is what the methods' lemmas call Opened.      *)
LEMMA GoodIsOpened ==
    ASSUME NEW d, GoodDevice(d), d.initialized, d.target.newest >= 0, Current(d)
    PROVE  /\ Opened(d) /\ Lists(d) /\ Told(d) /\ OpenPage(d)
           /\ d.target.newest \in Nat /\ d.target.newest \in 0..(MaxPlots - 1)
           /\ Len(d.store.pages) = d.target.newest + 1
           /\ d.history \in Seq(Drawing)
           /\ Len(d.history) \in {d.target.newest, d.target.newest + 1}
  <1>1. d \in DeviceType /\ Lists(d) /\ Told(d) /\ OpenPage(d)
    BY DEF GoodDevice
  <1>2. /\ d.target.newest \in 0..(MaxPlots - 1) /\ d.target.newest \in Nat
        /\ d.history \in Seq(Drawing)
    BY <1>1, DeviceAssumption DEF DeviceType, Target
  <1>3. /\ Len(d.store.pages) = d.target.newest + 1
        /\ Len(d.history) \in {d.target.newest, d.target.newest + 1}
        /\ \A n \in 1..Len(d.history) : d.history[n].plot = d.store.pages[n].id
    BY <1>1, <1>2 DEF Lists
  <1> QED
    BY <1>1, <1>2, <1>3 DEF Opened, GoodDevice, OpenPage

----------------------------------------------------------------------------
(* plt_render.                                                             *)

(* After a rendering the newest page is the target again, and the drawing  *)
(* that is open, the history and the size of the device are those of it.   *)
Settled(d, e) ==
    LET newest == d.target.newest IN
    /\ e \in DeviceType
    /\ e.target.index = newest /\ e.target.newest = newest /\ e.target.void = FALSE
    /\ Len(e.history) \in {newest, newest + 1}
    /\ \A n \in 1..newest : e.history[n] = d.history[n]
    /\ Len(e.history) = newest + 1 => e.history[newest + 1].plot = d.displayList.plot
    /\ e.displayList = d.displayList
    /\ e.replaying = FALSE /\ e.initialized = d.initialized
    /\ e.devSize = Fit(e.store.pages[newest + 1].size)

(* A page was redrawn up to operation k, everything else is where it was.  *)
LEMMA RedrawnGood ==
    ASSUME NEW d, GoodDevice(d), d.initialized, d.target.newest >= 0, Current(d),
           NEW i \in 0..d.target.newest, NEW z \in Size,
           NEW k \in Nat, k <= OpsIn(d, i + 1),
           NEW upto \in Int,
           NEW e, Settled(d, e), RedrawnAs(d, e, i + 1, z, k, upto)
    PROVE  /\ GoodDevice(e) /\ OnTarget(e)
           /\ PlotsIn(e) = PlotsIn(d) /\ e.store.idCounter = d.store.idCounter
           /\ d.buffer = <<>> /\ upto >= 0 => e.buffer = <<>>
           /\ d.buffer = <<>> /\ AllWhole(d) /\ k = OpsIn(d, i + 1) => AllWhole(e)
  <1> DEFINE newest == d.target.newest
             m == Len(d.store.pages)
             p(n) == d.store.pages[n]
             q(n) == e.store.pages[n]
  <1>0. /\ e \in DeviceType
        /\ e.target.index = d.target.newest /\ e.target.newest = d.target.newest
        /\ e.target.void = FALSE
        /\ Len(e.history) \in {d.target.newest, d.target.newest + 1}
        /\ \A n \in 1..d.target.newest : e.history[n] = d.history[n]
        /\ Len(e.history) = d.target.newest + 1 =>
              e.history[d.target.newest + 1].plot = d.displayList.plot
        /\ e.displayList = d.displayList /\ e.replaying = FALSE
        /\ e.initialized = d.initialized
        /\ e.devSize = Fit(e.store.pages[d.target.newest + 1].size)
    BY DEF Settled
  <1>1. /\ Opened(d) /\ Lists(d) /\ Told(d) /\ OpenPage(d)
        /\ newest \in Nat /\ m = newest + 1 /\ newest + 1 \in 1..m
        /\ d.history \in Seq(Drawing)
        /\ Len(d.history) \in {newest, newest + 1}
    BY GoodIsOpened
  <1>2. /\ OnlyPage(d.store, e.store, i + 1)
        /\ GoodPage(q(i + 1)) /\ q(i + 1).id = p(i + 1).id /\ UpTo(q(i + 1), k)
        /\ d.buffer = <<>> => Whole(q(i + 1), k)
        /\ (q(i + 1).dcs = <<>> /\ e.told = d.told) \/ e.told = Ids(e.store)
        /\ \A n \in 1..Len(e.buffer) : e.buffer[n].n = 0
    BY <1>0 DEF RedrawnAs, LeftBy
  <1>3. /\ e.store \in Store /\ e.history \in Seq(Drawing) /\ d.store \in Store
        /\ e.store.idCounter = d.store.idCounter
        /\ Len(e.store.pages) = m /\ i + 1 \in 1..m
        /\ \A n \in 1..m : n # i + 1 => q(n) = p(n)
    <2>1. e.store \in Store /\ e.history \in Seq(Drawing) /\ d.store \in Store
      BY <1>0 DEF DeviceType, GoodDevice
    <2>2. /\ e.store.idCounter = d.store.idCounter
          /\ Len(e.store.pages) = m
          /\ \A n \in 1..m : n # i + 1 => q(n) = p(n)
      BY <1>2 DEF OnlyPage
    <2>3. i + 1 \in 1..m
      <3> HIDE DEF m
      <3>1. i <= newest /\ newest \in Int
        BY <1>1
      <3> HIDE DEF newest
      <3> QED
        BY <1>1, <3>1
    <2> QED
      BY <2>1, <2>2, <2>3
  <1>4. /\ OpsIn(d, newest + 1) = d.displayList.ops
        /\ \A n \in 1..newest : OpsIn(d, n) = d.history[n].ops
    BY <1>0, <1>1, OpsOfPlots
  <1>5. /\ OpsIn(e, newest + 1) = e.displayList.ops
        /\ \A n \in 1..newest : OpsIn(e, n) = e.history[n].ops
    <2>1. e.target.newest \in Nat /\ Len(e.history) \in {e.target.newest, e.target.newest + 1}
      BY <1>0, <1>1
    <2>2. /\ OpsIn(e, e.target.newest + 1) = e.displayList.ops
          /\ \A n \in 1..e.target.newest : OpsIn(e, n) = e.history[n].ops
      BY <1>0, <1>3, <2>1, OpsOfPlots
    <2> QED
      BY <1>0, <2>2
  <1>6. \A n \in 1..m : OpsIn(e, n) = OpsIn(d, n)
    <2>1. \A n \in 1..m : n \in 1..newest \/ n = newest + 1
      BY <1>0, <1>1
    <2> QED
      BY <1>0, <1>4, <1>5, <2>1
  <1>7. \A n \in 1..m : q(n).id = p(n).id /\ GoodPage(q(n))
    BY <1>0, <1>2, <1>3 DEF GoodDevice
  <1>8. PlotsIn(e) = PlotsIn(d)
    BY <1>0, <1>3, <1>6, <1>7 DEF PlotsIn
  <1>9. Lists(e)
    <2>1. \A n \in 1..Len(e.history) : e.history[n].plot = q(n).id
      <3> TAKE n \in 1..Len(e.history)
      <3>1. CASE n \in 1..newest
        <4>1. n \in 1..Len(d.history) /\ n \in 1..m
          <5>1. /\ newest \in Nat /\ m = newest + 1
                /\ Len(d.history) \in {newest, newest + 1}
            BY <1>1
          <5> HIDE DEF newest, m
          <5> QED
            BY <3>1, <5>1
        <4>2. d.history[n].plot = p(n).id
          BY <1>0, <1>1, <4>1 DEF Opened
        <4> QED
          BY <1>0, <1>7, <3>1, <4>1, <4>2
      <3>2. CASE n = newest + 1 /\ Len(e.history) = newest + 1
        BY <1>0, <1>1, <1>7, <3>2 DEF OpenPage
      <3>3. n \in 1..newest \/ (n = newest + 1 /\ Len(e.history) = newest + 1)
        <4>1. newest \in Nat /\ Len(e.history) \in {newest, newest + 1}
          BY <1>0, <1>1
        <4> HIDE DEF newest
        <4> QED
          BY <1>0, <4>1
      <3> QED
        BY <1>0, <3>1, <3>2, <3>3
    <2> HIDE DEF newest
    <2>2. e.target.newest = newest
      BY <1>0 DEF newest
    <2>3. Len(e.history) \in {newest, newest + 1}
      BY <1>0 DEF newest
    <2> QED
      BY <1>0, <1>1, <1>3, <2>1, <2>2, <2>3 DEF Lists
  <1>10. ToSet(Ids(e.store)) = ToSet(Ids(d.store))
    <2>1. /\ ToSet(Ids(e.store)) = {q(n).id : n \in 1..m}
          /\ ToSet(Ids(d.store)) = {p(n).id : n \in 1..m}
      BY <1>0, <1>3, IdSet
    <2>2. \A n \in 1..m : q(n).id = p(n).id
      BY <1>7
    <2> HIDE DEF m, p, q
    <2> QED
      BY <2>1, <2>2
  <1>11. Told(e)
    <2>1. CASE e.told = Ids(e.store)
      BY <1>0, <1>3, <2>1, JustTold
    <2>2. CASE q(i + 1).dcs = <<>> /\ e.told = d.told
      <3>1. \A n \in 1..m : q(n).dcs # <<>> => n # i + 1 /\ q(n) = p(n)
        BY <1>0, <1>3, <2>2
      <3>2. \A n \in 1..m : q(n).dcs # <<>> => q(n).id \in ToSet(e.told)
        BY <1>0, <1>1, <2>2, <3>1 DEF Told
      <3> QED
        BY <1>0, <1>1, <1>3, <1>10, <2>2, <3>2 DEF Told
    <2> QED
      BY <1>0, <1>2, <2>1, <2>2
  <1>12. OpenPage(e)
    <2>1. UpTo(q(newest + 1), d.displayList.ops)
      <3>1. CASE i = newest
        <4>1. d.displayList.ops \in Int
          <5>1. d.displayList \in Drawing
            BY <1>1 DEF Opened, DeviceType
          <5> QED
            BY <5>1, DeviceAssumption DEF Drawing
        <4>2. q(newest + 1) \in Page /\ UpTo(q(newest + 1), k)
          BY <1>2, <3>1 DEF GoodPage
        <4>3. k <= d.displayList.ops
          BY <1>4, <3>1
        <4> HIDE DEF q
        <4> QED
          BY <4>1, <4>2, <4>3, UpToMore
      <3>2. CASE i # newest
        <4>1. q(newest + 1) = p(newest + 1)
          <5>1. newest + 1 \in 1..m /\ newest + 1 # i + 1
            BY <1>0, <1>1, <3>2
          <5> QED
            BY <1>0, <1>3, <5>1
        <4> QED
          BY <1>0, <1>1, <4>1 DEF OpenPage
      <3> QED
        BY <1>0, <3>1, <3>2
    <2>2. q(newest + 1).id = d.displayList.plot
      BY <1>0, <1>1, <1>7 DEF OpenPage
    <2> QED
      BY <1>0, <2>1, <2>2 DEF OpenPage
  <1>13. upto >= 0 => e.buffer = d.buffer \/ e.buffer = <<>>
    BY DEF RedrawnAs, LeftBy
  <1>14. GoodDevice(e)
    <2>1. \A n \in 1..Len(e.buffer) : e.buffer[n].n = 0
      BY <1>2
    <2>2. e.target.void <=> e.target.index = -1
      BY <1>0, <1>1
    <2>3. e.devSize = Fit(e.devSize)
      <3>1. q(newest + 1).size \in Size
        BY <1>0, <1>1, <1>7 DEF GoodPage, Page
      <3> QED
        BY <1>0, <3>1, FitSize
    <2>4. Len(e.store.pages) <= e.store.idCounter
      BY <1>0, <1>3 DEF GoodDevice
    <2>5. e.displayList = NoDrawing \/ e.displayList.plot >= 0
      BY <1>0 DEF GoodDevice
    <2> QED
      BY <1>0, <1>3, <1>7, <1>9, <1>11, <1>12, <2>1, <2>2, <2>3, <2>4, <2>5 DEF GoodDevice
  <1>15. ASSUME d.buffer = <<>>, AllWhole(d), k = OpsIn(d, i + 1)
         PROVE  AllWhole(e)
    <2>1. \A n \in 1..m : Whole(q(n), OpsIn(e, n))
      BY <1>0, <1>2, <1>3, <1>6, <1>15 DEF AllWhole
    <2> QED
      BY <1>0, <1>3, <2>1 DEF AllWhole
  <1> QED
    BY <1>0, <1>3, <1>8, <1>13, <1>14, <1>15 DEF OnTarget

(* plt_prerender keeps the list of plots; what it does not get to redraw   *)
(* is missing until the page is rendered again.                            *)
LEMMA PrerenderGood ==
    ASSUME NEW d, GoodDevice(d), d.initialized, d.target.newest >= 0, Current(d),
           NEW i \in 0..d.target.newest, NEW z \in Size,
           NEW upto \in Int, NEW upto2 \in Int
    PROVE  LET e == Prerender(d, i, z, upto, upto2) IN
           /\ GoodDevice(e) /\ OnTarget(e)
           /\ PlotsIn(e) = PlotsIn(d) /\ e.store.idCounter = d.store.idCounter
           /\ d.buffer = <<>> /\ upto >= 0 => e.buffer = <<>>
           /\ d.buffer = <<>> /\ AllWhole(d) /\ upto >= MaxOps => AllWhole(e)
           /\ e.initialized /\ e.target.newest = d.target.newest
           /\ RedrawnAs(d, e, i + 1, z, Completed(upto, OpsIn(d, i + 1)), upto)
  <1> DEFINE newest == d.target.newest
             e == Prerender(d, i, z, upto, upto2)
             k == Completed(upto, OpsIn(d, i + 1))
  <1>1. /\ Opened(d) /\ OpenPage(d) /\ newest \in Nat
        /\ Len(d.store.pages) = newest + 1
        /\ d.history \in Seq(Drawing) /\ d.displayList \in Drawing
        /\ Len(d.history) \in {newest, newest + 1}
        /\ Len(d.history) \in Nat
    <2>1. /\ Opened(d) /\ OpenPage(d) /\ newest \in Nat
          /\ Len(d.store.pages) = newest + 1
          /\ d.history \in Seq(Drawing)
          /\ Len(d.history) \in {newest, newest + 1}
      BY GoodIsOpened
    <2>2. d.displayList \in Drawing
      BY DEF GoodDevice, DeviceType
    <2>3. Len(d.history) \in Nat
      BY <2>1
    <2> QED
      BY <2>1, <2>2, <2>3
  <1>2. /\ OpsIn(d, newest + 1) = d.displayList.ops
        /\ \A n \in 1..newest : OpsIn(d, n) = d.history[n].ops
    BY <1>1, OpsOfPlots
  <1>3. Settled(d, e) /\ RedrawnAs(d, e, i + 1, z, k, upto)
    <2>1. CASE i = newest
      <3>1. e = PrerenderOpen(d, z, upto) /\ k = Completed(upto, d.displayList.ops)
        BY <1>2, <2>1 DEF Prerender
      <3> HIDE DEF e, k
      <3>2. /\ e \in DeviceType
            /\ e.target.index = newest /\ e.target.newest = newest /\ e.target.void = FALSE
            /\ e.history = d.history /\ e.displayList = d.displayList
            /\ e.replaying = FALSE /\ e.initialized = d.initialized
            /\ e.devSize = Fit(z)
            /\ RedrawnAs(d, e, newest + 1, z, k, upto)
        <4>1. LET f == PrerenderOpen(d, z, upto)
                  j == d.target.newest IN
             /\ f \in DeviceType
             /\ f.target.index = j /\ f.target.newest = j /\ f.target.void = FALSE
             /\ f.history = d.history /\ f.displayList = d.displayList
             /\ f.replaying = FALSE /\ f.initialized = d.initialized
             /\ f.devSize = Fit(z)
             /\ RedrawnAs(d, f, j + 1, z, Completed(upto, d.displayList.ops), upto)
          BY <1>1, PrerenderOpenFields, Zenon
        <4> QED
          BY <3>1, <4>1
      <3>3. e.store.pages[newest + 1].size = z
        BY <3>2 DEF RedrawnAs
      <3>4. Len(d.history) = newest + 1 => d.history[newest + 1].plot = d.displayList.plot
        <4>1. ASSUME Len(d.history) = newest + 1
              PROVE  newest + 1 \in 1..Len(d.history)
          BY <1>1, <4>1
        <4> QED
          BY <1>1, <4>1 DEF Opened
      <3> QED
        BY <1>1, <2>1, <3>2, <3>3, <3>4 DEF Settled
    <2>2. CASE i # newest
      <3>a. i + 1 \in 1..newest /\ i \in 0..(newest - 1) /\ newest + 1 # i + 1
        BY <1>1, <2>2
      <3>1. e = PrerenderOlder(d, i, z, upto, upto2) /\ k = Completed(upto, d.history[i + 1].ops)
        BY <1>2, <2>2, <3>a DEF Prerender
      <3> HIDE DEF e, k
      <3>2. /\ e \in DeviceType
            /\ e.target.index = newest /\ e.target.newest = newest /\ e.target.void = FALSE
            /\ e.history = HistoryPut(d.history, newest, d.displayList)
            /\ e.displayList = d.displayList
            /\ e.replaying = FALSE /\ e.initialized = d.initialized
            /\ e.devSize = Fit(d.store.pages[newest + 1].size)
            /\ RedrawnAs(d, e, i + 1, z, k, upto)
        <4>1. LET f == PrerenderOlder(d, i, z, upto, upto2)
                  j == d.target.newest IN
             /\ f \in DeviceType
             /\ f.target.index = j /\ f.target.newest = j
             /\ f.target.void = FALSE
             /\ f.history = HistoryPut(d.history, j, d.displayList)
             /\ f.displayList = d.displayList
             /\ f.replaying = FALSE /\ f.initialized = d.initialized
             /\ f.devSize = Fit(d.store.pages[j + 1].size)
             /\ RedrawnAs(d, f, i + 1, z, Completed(upto, d.history[i + 1].ops), upto)
          BY <1>1, <3>a, PrerenderOlderFields, Zenon
        <4> QED
          BY <3>1, <4>1
      <3>3. e.store.pages[newest + 1] = d.store.pages[newest + 1]
        <4>1. newest + 1 \in 1..Len(d.store.pages)
          BY <1>1
        <4> QED
          BY <3>a, <3>2, <4>1 DEF RedrawnAs, OnlyPage
      <3>4. PutInto(HistoryPut(d.history, newest, d.displayList),
                    d.history, newest, d.displayList)
        <4>1. newest <= Len(d.history)
          <5>1. newest \in Nat /\ Len(d.history) \in {newest, newest + 1}
            BY <1>1
          <5> HIDE DEF newest
          <5> QED
            BY <5>1
        <4>2. newest \in Nat /\ d.history \in Seq(Drawing) /\ d.displayList \in Drawing
          BY <1>1
        <4> QED
          BY <4>1, <4>2, HistoryPutFields
      <3>5. \A n \in 1..newest : n \in 1..Len(d.history) /\ n # newest + 1
        BY <1>1
      <3>6. Len(e.history) = newest + 1
        <4>1. Len(e.history) = IF Len(d.history) = newest THEN newest + 1 ELSE Len(d.history)
          BY <3>2, <3>4 DEF PutInto
        <4> QED
          BY <1>1, <4>1
      <3>7. e.history[newest + 1] = d.displayList
            /\ \A n \in 1..newest : e.history[n] = d.history[n]
        BY <3>2, <3>4, <3>5 DEF PutInto
      <3> QED
        BY <3>2, <3>3, <3>6, <3>7 DEF Settled
    <2> QED
      BY <2>1, <2>2
  <1>4. OpsIn(d, i + 1) \in 0..MaxOps
    <2>1. i + 1 \in 1..newest \/ i = newest
      BY <1>1
    <2>2. \A n \in 1..newest : d.history[n] \in Drawing
      <3>1. \A n \in 1..newest : n \in 1..Len(d.history)
        BY <1>1
      <3> QED
        BY <1>1, <3>1
    <2> QED
      BY <1>1, <1>2, <2>1, <2>2 DEF Drawing
  <1>5. /\ k \in Nat /\ k <= OpsIn(d, i + 1)
        /\ upto >= MaxOps => k = OpsIn(d, i + 1)
    <2> DEFINE ops == OpsIn(d, i + 1)
    <2>1. ops \in Nat /\ ops <= MaxOps
      BY <1>4, DeviceAssumption
    <2> HIDE DEF ops
    <2>2. /\ Completed(upto, ops) \in Nat /\ Completed(upto, ops) <= ops
          /\ upto >= MaxOps => Completed(upto, ops) = ops
      <3>1. /\ Completed(upto, ops) \in Nat /\ Completed(upto, ops) <= ops
            /\ upto >= ops => Completed(upto, ops) = ops
        BY <2>1, CompletedOf, Zenon
      <3> QED
        BY <2>1, <3>1, DeviceAssumption
    <2> QED
      BY <2>2 DEF ops
  <1> HIDE DEF e, k
  <1>6. /\ GoodDevice(e) /\ OnTarget(e)
        /\ PlotsIn(e) = PlotsIn(d) /\ e.store.idCounter = d.store.idCounter
        /\ d.buffer = <<>> /\ upto >= 0 => e.buffer = <<>>
        /\ d.buffer = <<>> /\ AllWhole(d) /\ k = OpsIn(d, i + 1) => AllWhole(e)
    <2>1. Settled(d, e) /\ RedrawnAs(d, e, i + 1, z, k, upto)
      BY <1>3
    <2>2. k \in Nat /\ k <= OpsIn(d, i + 1)
      BY <1>5
    <2> HIDE DEF newest
    <2>3. \A j \in Nat : \A f :
             j <= OpsIn(d, i + 1) /\ Settled(d, f) /\ RedrawnAs(d, f, i + 1, z, j, upto)
             => /\ GoodDevice(f) /\ OnTarget(f)
                /\ PlotsIn(f) = PlotsIn(d) /\ f.store.idCounter = d.store.idCounter
                /\ d.buffer = <<>> /\ upto >= 0 => f.buffer = <<>>
                /\ d.buffer = <<>> /\ AllWhole(d) /\ j = OpsIn(d, i + 1) => AllWhole(f)
      BY RedrawnGood
    <2> QED
      BY <2>1, <2>2, <2>3
  <1> QED
    BY <1>3, <1>5, <1>6 DEF Settled, e, k

LEMMA RenderGood ==
    ASSUME NEW d, GoodDevice(d), d.initialized, Current(d),
           NEW i \in Int, ValidIndex(d.store, i), NEW z \in Size,
           NEW upto \in Int, NEW upto2 \in Int
    PROVE  LET e == Prerender(d, Pos(d.store, i) - 1, z, upto, upto2) IN
           /\ GoodDevice(e) /\ OnTarget(e)
           /\ PlotsIn(e) = PlotsIn(d) /\ e.store.idCounter = d.store.idCounter
           /\ d.buffer = <<>> /\ upto >= 0 => e.buffer = <<>>
           /\ d.buffer = <<>> /\ AllWhole(d) /\ upto >= MaxOps => AllWhole(e)
  <1> DEFINE j == Pos(d.store, i) - 1
             m == Len(d.store.pages)
  <1>1. m \in Nat /\ d.target.newest \in Int
    BY DeviceAssumption DEF GoodDevice, DeviceType, Store, Target
  <1>2. m > 0 /\ i >= -m /\ i < m
    BY DEF ValidIndex
  <1>3. j = IF i < 0 THEN m + i ELSE i
    BY <1>1, <1>2 DEF Pos
  <1>4. m = IF d.target.newest < 0 THEN 0 ELSE d.target.newest + 1
    BY DEF GoodDevice, Lists
  <1> HIDE DEF j, m
  <1>5. d.target.newest >= 0 /\ j \in 0..d.target.newest
    BY <1>1, <1>2, <1>3, <1>4
  <1> QED
    BY <1>5, PrerenderGood DEF j

----------------------------------------------------------------------------
(* dev_newPage.                                                            *)

LEMMA AppendPageStore ==
    ASSUME NEW s \in Store, s.idCounter < MaxPlots, NEW z \in Size
    PROVE  LET t == AppendPage(s, z)
               m == Len(s.pages) IN
             /\ t \in Store /\ t.active = s.active
             /\ t.idCounter = s.idCounter + 1
             /\ Len(t.pages) = m + 1
             /\ t.pages[m + 1] = NewPage(s.idCounter, z)
             /\ \A n \in 1..m : t.pages[n] = s.pages[n]
  <1> DEFINE q == NewPage(s.idCounter, z)
             b == Append(s.pages, q)
             c == s.idCounter + 1
             u == [s EXCEPT !.pages = b]
             t == [u EXCEPT !.idCounter = c]
  <1>1. s.pages \in Seq(Page) /\ s.idCounter \in 0..(MaxPlots - 1) /\ c \in 0..MaxPlots
    BY DeviceAssumption DEF Store
  <1>2. q \in Page
    BY <1>1, NewPageGood DEF GoodPage
  <1>3. IncWrap(s.idCounter, MaxId) = c
    BY <1>1, DeviceAssumption, CounterAssumption DEF IncWrap
  <1> HIDE DEF q, c
  <1>4. /\ b \in Seq(Page) /\ Len(b) = Len(s.pages) + 1
        /\ b[Len(s.pages) + 1] = q
        /\ \A n \in 1..Len(s.pages) : b[n] = s.pages[n]
    BY <1>1, <1>2, AppendProperties
  <1>5. AppendPage(s, z) = t
    BY <1>3 DEF AppendPage, q
  <1> HIDE DEF b
  <1>6. u \in Store /\ u.pages = b /\ u.active = s.active
    BY <1>4 DEF Store
  <1> HIDE DEF u
  <1>7. t \in Store /\ t.pages = b /\ t.active = s.active /\ t.idCounter = c
    BY <1>1, <1>6 DEF Store
  <1> HIDE DEF t
  <1> QED
    BY <1>4, <1>5, <1>7 DEF q, c

(* The history once the drawing of the newest plot is saved.               *)
Saved(d) ==
    IF d.target.newest >= 0
    THEN HistoryPut(d.history, d.target.newest, d.displayList)
    ELSE d.history

LEMMA NewPagePlotFields ==
    ASSUME NEW d \in DeviceType, NEW l \in Drawing,
           d.store.idCounter < MaxPlots, Len(d.store.pages) <= d.store.idCounter,
           Saved(d) \in Seq(Drawing)
    PROVE  LET e == [NewPagePlot(d, d.displayList) EXCEPT !.displayList = l]
               i == Len(d.store.pages) IN
             /\ e \in DeviceType
             /\ e.store = AppendPage(d.store, d.devSize)
             /\ e.target.index = i /\ e.target.newest = i /\ e.target.void = FALSE
             /\ e.history = Saved(d) /\ e.displayList = l
             /\ e.buffer = d.buffer /\ e.told = d.told
             /\ e.replaying = d.replaying /\ e.initialized = d.initialized
             /\ e.devSize = d.devSize
  <1> DEFINE i == Len(d.store.pages)
             s == AppendPage(d.store, d.devSize)
             h == Saved(d)
             a == IF d.target.newest >= 0
                  THEN [d EXCEPT !.history = HistoryPut(@, d.target.newest, d.displayList)]
                  ELSE d
             b == [a EXCEPT !.store = s]
             c == SetIndex(b, i)
             f == SetNewest(c, i)
             e == [f EXCEPT !.displayList = l]
  <1>1. /\ d.store \in Store /\ d.devSize \in Size
        /\ i \in 0..(MaxPlots - 1) /\ i \in -2..(MaxPlots - 1)
    BY DeviceAssumption DEF DeviceType, Store
  <1>2. s \in Store
    BY <1>1, AppendPageStore
  <1>3. /\ a \in DeviceType /\ SameData(d, a) /\ a.history = h
        /\ a.target = d.target /\ a.replaying = d.replaying
        /\ a.initialized = d.initialized /\ a.displayList = d.displayList
        /\ a.devSize = d.devSize
    <2>1. CASE d.target.newest >= 0
      <3>1. a = [d EXCEPT !.history = h]
        BY <2>1 DEF Saved
      <3>2. h \in Seq(Drawing)
        OBVIOUS
      <3> HIDE DEF a, h
      <3> QED
        BY <3>1, <3>2, WithHistory
    <2>2. CASE ~ (d.target.newest >= 0)
      BY <2>2 DEF SameData, Saved
    <2> QED
      BY <2>1, <2>2
  <1>4. [NewPagePlot(d, d.displayList) EXCEPT !.displayList = l] = e
    <2>1. [a EXCEPT !.store = AppendPage(@, d.devSize)] = b
      BY <1>3 DEF SameData
    <2> HIDE DEF b
    <2>2. NewPagePlot(d, d.displayList) = f
      BY <2>1 DEF NewPagePlot
    <2> QED
      BY <2>2
  <1> HIDE DEF a, s
  <1>5. KeepsRest(a, b) /\ b.store = s /\ b.buffer = a.buffer /\ b.told = a.told
    BY <1>2, <1>3, WithStore, Zenon
  <1> HIDE DEF b
  <1>a. b \in DeviceType
    BY <1>5 DEF KeepsRest
  <1>6. /\ c \in DeviceType /\ SameData(b, c)
        /\ c.target.index = i /\ c.target.void = FALSE
        /\ c.history = b.history /\ c.replaying = b.replaying
        /\ c.initialized = b.initialized /\ c.displayList = b.displayList
        /\ c.devSize = b.devSize
    BY <1>1, <1>a, SetIndexFields, Zenon
  <1> HIDE DEF c
  <1>7. /\ f \in DeviceType /\ SameData(c, f)
        /\ f.target.index = c.target.index /\ f.target.newest = i
        /\ f.target.void = c.target.void
        /\ f.history = c.history /\ f.replaying = c.replaying
        /\ f.initialized = c.initialized /\ f.displayList = c.displayList
        /\ f.devSize = c.devSize
    BY <1>1, <1>6, SetNewestFields, Zenon
  <1> HIDE DEF f
  <1>8. /\ e \in DeviceType /\ SameData(f, e) /\ e.displayList = l
        /\ e.target = f.target /\ e.history = f.history
        /\ e.replaying = f.replaying /\ e.initialized = f.initialized
        /\ e.devSize = f.devSize
    BY <1>7, WithDisplayList, Zenon
  <1> HIDE DEF e
  <1> QED
    BY <1>3, <1>4, <1>5, <1>6, <1>7, <1>8 DEF KeepsRest, SameData, s

Plot == [id : 0..(MaxPlots - 1), ops : 0..MaxOps]

LEMMA OpsRange ==
    ASSUME NEW d \in DeviceType, NEW n \in Int
    PROVE  OpsIn(d, n) \in 0..MaxOps
  <1>1. d.history \in Seq(Drawing) /\ d.displayList \in Drawing
    BY DEF DeviceType
  <1>2. HistoryGet(d.history, n - 1).ops \in 0..MaxOps
    <2>1. CASE n - 1 \in 0..(Len(d.history) - 1)
      <3>1. n \in 1..Len(d.history) /\ n - 1 + 1 = n
        BY <1>1, <2>1
      <3>2. HistoryGet(d.history, n - 1) = d.history[n] /\ d.history[n] \in Drawing
        BY <1>1, <2>1, <3>1 DEF HistoryGet
      <3> QED
        BY <3>2 DEF Drawing
    <2>2. CASE n - 1 \notin 0..(Len(d.history) - 1)
      BY <2>2, DeviceAssumption DEF HistoryGet, NoDrawing
    <2> QED
      BY <2>1, <2>2
  <1> QED
    BY <1>1, <1>2 DEF OpsIn, Drawing

LEMMA PlotsFields ==
    ASSUME NEW d \in DeviceType, d.initialized
    PROVE  /\ PlotsIn(d) \in Seq(Plot) /\ Len(PlotsIn(d)) = Len(d.store.pages)
           /\ \A n \in 1..Len(d.store.pages) :
                 PlotsIn(d)[n] = [id |-> d.store.pages[n].id, ops |-> OpsIn(d, n)]
  <1> DEFINE m == Len(d.store.pages)
             f == [n \in 1..m |-> [id |-> d.store.pages[n].id, ops |-> OpsIn(d, n)]]
  <1>1. m \in Nat /\ \A n \in 1..m : d.store.pages[n] \in Page
    BY PageAt DEF DeviceType, Store
  <1>2. \A n \in 1..m : [id |-> d.store.pages[n].id, ops |-> OpsIn(d, n)] \in Plot
    <2> TAKE n \in 1..m
    <2>1. n \in Int
      OBVIOUS
    <2>2. OpsIn(d, n) \in 0..MaxOps
      BY <2>1, OpsRange
    <2>3. d.store.pages[n].id \in 0..(MaxPlots - 1)
      BY <1>1 DEF Page
    <2> QED
      BY <2>2, <2>3 DEF Plot
  <1>3. f \in [1..m -> Plot]
    BY <1>2
  <1>4. PlotsIn(d) = f /\ \A n \in 1..m :
            f[n] = [id |-> d.store.pages[n].id, ops |-> OpsIn(d, n)]
    BY DEF PlotsIn
  <1> HIDE DEF f
  <1>5. f \in Seq(Plot) /\ Len(f) = m
    BY <1>1, <1>3, SeqDef, LenProperties
  <1> QED
    BY <1>4, <1>5

(* A new plot goes behind the others, with the size of the device.         *)
LEMMA NewPlotGood ==
    ASSUME NEW d, GoodDevice(d), d.initialized, d.store.idCounter < MaxPlots
    PROVE  LET l == [plot |-> d.store.idCounter, ops |-> 0]
               e == [NewPagePlot(d, d.displayList) EXCEPT !.displayList = l] IN
           /\ GoodDevice(e) /\ OnTarget(e)
           /\ PlotsIn(e) = Append(PlotsIn(d), [id |-> d.store.idCounter, ops |-> 0])
           /\ e.store.idCounter = d.store.idCounter + 1
           /\ e.buffer = d.buffer
           /\ AllWhole(d) => AllWhole(e)
  <1> DEFINE i == Len(d.store.pages)
             id == d.store.idCounter
             x == d.displayList
             newest == d.target.newest
             l == [plot |-> id, ops |-> 0]
             h == Saved(d)
             e == [NewPagePlot(d, x) EXCEPT !.displayList = l]
             q(n) == e.store.pages[n]
  <1>1. /\ d \in DeviceType /\ d.store \in Store /\ d.history \in Seq(Drawing)
        /\ x \in Drawing /\ d.devSize \in Size /\ newest \in Int
        /\ i <= id /\ i \in Nat
        /\ Lists(d) /\ Told(d)
    <2>1. /\ d \in DeviceType /\ d.store \in Store /\ d.history \in Seq(Drawing)
          /\ x \in Drawing /\ d.devSize \in Size /\ i <= id /\ Lists(d) /\ Told(d)
          /\ d.target \in Target
      BY DEF GoodDevice, DeviceType
    <2>2. newest \in Int
      BY <2>1, DeviceAssumption DEF Target
    <2> QED
      BY <2>1, <2>2, IndexOf
  <1>2. id \in 0..(MaxPlots - 1) /\ l \in Drawing
    BY <1>1, DeviceAssumption DEF Store, Drawing
  <1>3. /\ i = IF newest < 0 THEN 0 ELSE newest + 1
        /\ Len(d.history) \in IF newest < 0 THEN {0} ELSE {newest, newest + 1}
        /\ \A n \in 1..Len(d.history) : d.history[n].plot = d.store.pages[n].id
    BY <1>1 DEF Lists
  (* The history has every plot but the new one.                           *)
  <1>4. /\ h \in Seq(Drawing) /\ Len(h) = i
        /\ \A n \in 1..i : h[n].plot = d.store.pages[n].id
        /\ \A n \in 1..i : h[n].ops = OpsIn(d, n)
    <2>1. CASE newest < 0
      <3>1. h = d.history
        BY <1>1, <2>1 DEF Saved
      <3> QED
        BY <1>1, <1>3, <2>1, <3>1
    <2>2. CASE newest >= 0
      <3>1. /\ newest \in Nat /\ i = newest + 1 /\ Len(d.history) \in {newest, newest + 1}
            /\ newest <= Len(d.history)
        <4>a. newest \in Int
          BY <1>1
        <4> HIDE DEF newest, i
        <4>1. newest \in Nat /\ i = newest + 1 /\ Len(d.history) \in {newest, newest + 1}
          BY <1>3, <2>2, <4>a
        <4>2. newest <= Len(d.history)
          BY <4>1
        <4> QED
          BY <4>1, <4>2
      <3>2. PutInto(HistoryPut(d.history, newest, x), d.history, newest, x)
        <4>1. d.history \in Seq(Drawing) /\ x \in Drawing /\ newest \in Nat
              /\ newest <= Len(d.history)
          BY <1>1, <3>1
        <4> HIDE DEF x, newest
        <4> QED
          BY <4>1, HistoryPutFields
      <3>3. h = HistoryPut(d.history, newest, x)
        BY <2>2 DEF Saved
      <3>4. /\ OpsIn(d, newest + 1) = x.ops
            /\ \A n \in 1..newest : OpsIn(d, n) = d.history[n].ops
        BY <1>1, <3>1, OpsOfPlots
      <3>5. x.plot = d.store.pages[newest + 1].id
        BY <2>2 DEF GoodDevice, OpenPage
      <3>6. \A n \in 1..i : n = newest + 1 \/ (n \in 1..newest /\ n \in 1..Len(d.history))
        BY <3>1
      <3>7. Len(h) = i
        BY <3>1, <3>2, <3>3 DEF PutInto
      <3> HIDE DEF h, newest, i, x
      <3>8. h[newest + 1] = x /\ \A n \in 1..Len(d.history) : n # newest + 1 => h[n] = d.history[n]
        BY <3>2, <3>3 DEF PutInto
      <3>9. \A n \in 1..newest : n # newest + 1
        BY <3>1
      <3> QED
        BY <1>3, <3>2, <3>3, <3>4, <3>5, <3>6, <3>7, <3>8, <3>9 DEF PutInto
    <2> QED
      BY <1>1, <2>1, <2>2
  <1>5. /\ e \in DeviceType
        /\ e.store = AppendPage(d.store, d.devSize)
        /\ e.target.index = i /\ e.target.newest = i /\ e.target.void = FALSE
        /\ e.history = h /\ e.displayList = l
        /\ e.buffer = d.buffer /\ e.told = d.told
        /\ e.replaying = d.replaying /\ e.initialized = d.initialized
        /\ e.devSize = d.devSize
    <2>1. /\ Saved(d) \in Seq(Drawing) /\ Len(d.store.pages) <= d.store.idCounter
          /\ x \in Drawing /\ l \in Drawing
      BY <1>1, <1>2, <1>4
    <2> HIDE DEF l
    <2>2. LET f == [NewPagePlot(d, d.displayList) EXCEPT !.displayList = l]
              j == Len(d.store.pages) IN
             /\ f \in DeviceType
             /\ f.store = AppendPage(d.store, d.devSize)
             /\ f.target.index = j /\ f.target.newest = j /\ f.target.void = FALSE
             /\ f.history = Saved(d) /\ f.displayList = l
             /\ f.buffer = d.buffer /\ f.told = d.told
             /\ f.replaying = d.replaying /\ f.initialized = d.initialized
             /\ f.devSize = d.devSize
      BY <1>1, <2>1, NewPagePlotFields, Zenon
    <2> QED
      BY <2>2
  <1> HIDE DEF e, h
  <1>6. /\ e.store \in Store /\ e.store.idCounter = id + 1
        /\ Len(e.store.pages) = i + 1
        /\ q(i + 1) = NewPage(id, d.devSize)
        /\ \A n \in 1..i : q(n) = d.store.pages[n]
    BY <1>1, <1>5, AppendPageStore
  <1>7. /\ GoodPage(q(i + 1)) /\ q(i + 1).id = id /\ q(i + 1).size = d.devSize
        /\ q(i + 1).dcs = <<>>
    BY <1>1, <1>2, <1>6, NewPageGood
  <1>8. \A n \in 1..(i + 1) : n \in 1..i \/ n = i + 1
    BY <1>1
  <1>9. \A n \in 1..(i + 1) : GoodPage(q(n))
    BY <1>6, <1>7, <1>8 DEF GoodDevice
  <1>10. /\ OpsIn(e, i + 1) = 0
         /\ \A n \in 1..i : OpsIn(e, n) = OpsIn(d, n)
    <2>1. Len(e.history) \in {e.target.newest, e.target.newest + 1}
          /\ e.target.newest \in Nat /\ e.history \in Seq(Drawing)
      BY <1>1, <1>4, <1>5
    <2>2. /\ OpsIn(e, e.target.newest + 1) = e.displayList.ops
          /\ \A n \in 1..e.target.newest : OpsIn(e, n) = e.history[n].ops
      BY <2>1, OpsOfPlots
    <2> QED
      BY <1>4, <1>5, <2>2
  <1>11. Lists(e)
    <2>1. \A n \in 1..Len(e.history) : e.history[n].plot = q(n).id
      BY <1>4, <1>5, <1>6
    <2> QED
      BY <1>1, <1>4, <1>5, <1>6, <2>1 DEF Lists
  <1>12. Told(e)
    <2>1. \A n \in 1..(i + 1) : q(n).dcs # <<>> => q(n).id \in ToSet(e.told)
      BY <1>1, <1>5, <1>6, <1>7, <1>8 DEF Told
    <2>2. ToSet(Ids(d.store)) \subseteq ToSet(Ids(e.store))
      <3>1. /\ ToSet(Ids(d.store)) = {d.store.pages[n].id : n \in 1..i}
            /\ ToSet(Ids(e.store)) = {q(n).id : n \in 1..(i + 1)}
        BY <1>1, <1>6, IdSet
      <3>2. \A n \in 1..i : n \in 1..(i + 1)
        BY <1>1
      <3> QED
        BY <1>6, <3>1, <3>2
    <2> QED
      BY <1>1, <1>5, <1>6, <2>1, <2>2 DEF Told
  <1>13. OpenPage(e)
    <2>1. UpTo(q(i + 1), 0)
      BY <1>7 DEF UpTo, Recorded
    <2>2. d.devSize = Fit(d.devSize)
      BY DEF GoodDevice
    <2> QED
      BY <1>5, <1>7, <2>1, <2>2 DEF OpenPage
  <1>14. GoodDevice(e) /\ OnTarget(e)
    <2>1. e.target.void <=> e.target.index = -1
      BY <1>1, <1>5
    <2>2. Len(e.store.pages) <= e.store.idCounter
      BY <1>1, <1>2, <1>6
    <2>3. e.displayList = NoDrawing \/ e.displayList.plot >= 0
      BY <1>2, <1>5
    <2>4. \A n \in 1..Len(e.buffer) : e.buffer[n].n = 0
      BY <1>5 DEF GoodDevice
    <2>5. e.devSize = Fit(e.devSize) /\ e.replaying = FALSE
      BY <1>5 DEF GoodDevice
    <2> QED
      BY <1>5, <1>6, <1>9, <1>11, <1>12, <1>13, <2>1, <2>2, <2>3, <2>4, <2>5
         DEF GoodDevice, OnTarget
  <1>15. PlotsIn(e) = Append(PlotsIn(d), [id |-> id, ops |-> 0])
    <2> DEFINE y == [id |-> id, ops |-> 0]
               a == PlotsIn(d)
               b == Append(a, y)
               c == PlotsIn(e)
    <2>1. /\ a \in Seq(Plot) /\ Len(a) = i
          /\ \A n \in 1..i : a[n] = [id |-> d.store.pages[n].id, ops |-> OpsIn(d, n)]
      BY <1>1, PlotsFields
    <2>2. /\ c \in Seq(Plot) /\ Len(c) = i + 1
          /\ \A n \in 1..(i + 1) : c[n] = [id |-> q(n).id, ops |-> OpsIn(e, n)]
      BY <1>5, <1>6, PlotsFields
    <2>3. y \in Plot
      BY <1>2, DeviceAssumption DEF Plot
    <2> HIDE DEF a, c, y
    <2>4. /\ b \in Seq(Plot) /\ Len(b) = i + 1
          /\ \A n \in 1..i : b[n] = a[n]
          /\ b[i + 1] = y
      BY <2>1, <2>3, AppendProperties
    <2> HIDE DEF b
    <2>5. \A n \in 1..(i + 1) : c[n] = b[n]
      <3>1. c[i + 1] = y
        BY <1>1, <1>7, <1>10, <2>2 DEF y
      <3>2. \A n \in 1..i : c[n] = a[n]
        <4> TAKE n \in 1..i
        <4>1. n \in 1..(i + 1)
          BY <1>1
        <4>2. c[n] = [id |-> q(n).id, ops |-> OpsIn(e, n)]
          BY <2>2, <4>1
        <4>3. q(n) = d.store.pages[n] /\ OpsIn(e, n) = OpsIn(d, n)
          BY <1>6, <1>10
        <4> QED
          BY <2>1, <4>2, <4>3
      <3> QED
        BY <1>8, <2>4, <3>1, <3>2
    <2>6. c = b
      BY <2>2, <2>4, <2>5, SameSequence
    <2> QED
      BY <2>6 DEF a, b, c, y
  <1>16. AllWhole(d) => AllWhole(e)
    <2> SUFFICES ASSUME AllWhole(d)
                 PROVE  \A n \in 1..(i + 1) : Whole(q(n), OpsIn(e, n))
      BY <1>6 DEF AllWhole
    <2>1. Whole(q(i + 1), 0)
      BY <1>7 DEF Whole
    <2> QED
      BY <1>6, <1>8, <1>10, <2>1 DEF AllWhole
  <1> QED
    BY <1>5, <1>6, <1>14, <1>15, <1>16 DEF e

----------------------------------------------------------------------------
(* Drawing callbacks.                                                      *)

(* Where an operation of the open drawing goes: to the newest page, or to  *)
(* none.                                                                   *)
LEMMA WhereDrawn ==
    ASSUME NEW d, GoodDevice(d), d.initialized
    PROVE  \/ d.target.newest >= 0 /\ Targets(d, d.target.newest)
           \/ TargetsNone(d)
  <1>1. /\ d \in DeviceType /\ d.target \in Target /\ Len(d.store.pages) \in Nat
        /\ Lists(d)
    BY DEF GoodDevice, DeviceType, Store
  <1>2. /\ d.target.index \in Int /\ d.target.index >= -1 /\ d.target.newest \in Int
        /\ d.target.void \in BOOLEAN
    BY <1>1, DeviceAssumption DEF Target
  <1>3. CASE d.target.void
    BY <1>1, <1>3 DEF TargetsNone
  <1>4. CASE ~d.target.void /\ d.target.newest < 0
    <2>1. d.target.index # -1 /\ Len(d.store.pages) = 0
      BY <1>1, <1>4 DEF GoodDevice, Lists
    <2> QED
      BY <1>1, <1>2, <2>1 DEF TargetsNone
  <1>5. CASE ~d.target.void /\ d.target.newest >= 0
    <2>1. d.target.index = d.target.newest \/ d.target.index >= Len(d.store.pages)
      BY <1>5 DEF GoodDevice, OpenPage
    <2>2. Len(d.store.pages) = d.target.newest + 1
      BY <1>1, <1>2, <1>5 DEF Lists
    <2>3. d.target.newest \in Nat /\ d.target.newest < Len(d.store.pages)
      BY <1>2, <1>5, <2>2
    <2> QED
      BY <1>1, <1>5, <2>1, <2>3 DEF Targets, TargetsNone
  <1> QED
    BY <1>2, <1>3, <1>4, <1>5

(* A page of the same plot and size took the place of the newest one, and  *)
(* the client was told if it had to be.                                    *)
Redone(d, e) ==
    LET newest == d.target.newest IN
    /\ KeepsRest(d, e)
    /\ OnlyPage(d.store, e.store, newest + 1)
    /\ newest >= 0 =>
        LET p == d.store.pages[newest + 1]
            q == e.store.pages[newest + 1] IN
        GoodPage(q) /\ q.id = p.id /\ q.size = p.size
    /\ \A n \in 1..Len(e.buffer) : e.buffer[n].n = 0
    /\ Told(e)

LEMMA NothingRedone ==
    ASSUME NEW d, GoodDevice(d), d.initialized,
           NEW e, KeepsRest(d, e), e.store = d.store, Told(e),
           \A n \in 1..Len(e.buffer) : e.buffer[n].n = 0
    PROVE  Redone(d, e)
  <1>1. d.store \in Store /\ Lists(d) /\ d.target.newest \in Int
    BY DeviceAssumption DEF GoodDevice, DeviceType, Target
  <1>2. OnlyPage(d.store, e.store, d.target.newest + 1)
    BY <1>1 DEF OnlyPage
  <1>3. ASSUME d.target.newest >= 0
        PROVE  GoodPage(d.store.pages[d.target.newest + 1])
    <2>1. d.target.newest + 1 \in 1..Len(d.store.pages)
      BY <1>1, <1>3 DEF Lists
    <2> QED
      BY <2>1 DEF GoodDevice
  <1> QED
    BY <1>2, <1>3 DEF Redone

(* The operation with which the open drawing grows.                        *)
NextOp(d) ==
    [plot |-> d.displayList.plot, n |-> d.displayList.ops + 1, size |-> d.devSize]

LEMMA OperationRedone ==
    ASSUME NEW d, GoodDevice(d), d.initialized,
           d.displayList # NoDrawing, d.displayList.ops < MaxOps
    PROVE  LET e == Operation(d, NextOp(d))
               n == d.target.newest + 1 IN
           /\ Redone(d, e)
           /\ d.buffer = <<>> => e.buffer = <<>>
           /\ n > 0 => UpTo(e.store.pages[n], d.displayList.ops + 1)
           /\ OnTarget(d) /\ d.buffer = <<>> /\ n > 0
              /\ Whole(d.store.pages[n], d.displayList.ops)
              => Whole(e.store.pages[n], d.displayList.ops + 1)
  <1> DEFINE op == NextOp(d)
             e == Operation(d, op)
             newest == d.target.newest
             p == d.store.pages[newest + 1]
             q == e.store.pages[newest + 1]
             k == d.displayList.ops
  <1>1. /\ d \in DeviceType /\ d.store \in Store /\ newest \in Int
        /\ d.displayList \in Drawing /\ d.devSize \in Size /\ d.buffer \in Seq(DrawnOp)
        /\ \A n \in 1..Len(d.buffer) : d.buffer[n].n = 0
        /\ Told(d) /\ Lists(d)
    BY DeviceAssumption DEF GoodDevice, DeviceType, Target
  <1>2. /\ op \in DrawnOp /\ op.n = k + 1 /\ op.plot = d.displayList.plot
        /\ op.size = d.devSize /\ k \in Nat
    <2>1. /\ d.displayList.plot \in 0..(MaxPlots - 1) /\ k \in Nat /\ k + 1 \in 0..MaxOps
      BY <1>1, DeviceAssumption DEF GoodDevice, Drawing
    <2> QED
      BY <1>1, <2>1 DEF NextOp, DrawnOp
  <1> HIDE DEF op
  <1>3. newest >= 0 =>
          /\ newest + 1 \in 1..Len(d.store.pages)
          /\ GoodPage(p) /\ OpenPage(d)
    <2>1. newest >= 0 => newest + 1 \in 1..Len(d.store.pages)
      BY <1>1 DEF Lists
    <2> QED
      BY <2>1 DEF GoodDevice
  <1>4. CASE newest >= 0 /\ Targets(d, newest)
    <2>1. /\ KeepsRest(d, e)
          /\ OnlyPage(d.store, e.store, newest + 1)
          /\ q = Drawn(p, d.buffer, op)
          /\ e.buffer = <<>> /\ e.told = Ids(e.store)
      BY <1>2, <1>3, <1>4, OperationOnPage
    <2> HIDE DEF e
    <2>2. /\ GoodPage(q) /\ q.id = p.id /\ q.size = p.size
          /\ UpTo(q, k + 1)
          /\ d.buffer = <<>> /\ Whole(p, k) => Whole(q, k + 1)
      <3>1. op.n # 0 /\ op.n - 1 = k
        BY <1>2
      <3>2. op.plot = p.id /\ op.size = Fit(p.size) /\ UpTo(p, op.n - 1) /\ GoodPage(p)
        BY <1>2, <1>3, <1>4, <3>1 DEF OpenPage
      <3> HIDE DEF p, q, k
      <3>3. LET r == Drawn(p, d.buffer, op) IN
              /\ GoodPage(r) /\ r.id = p.id /\ r.size = p.size
              /\ r.dcs # <<>>
              /\ UpTo(r, op.n)
              /\ d.buffer = <<>> /\ Whole(p, op.n - 1) => Whole(r, op.n)
        BY <1>1, <1>2, <3>1, <3>2, DrawnGood, Zenon
      <3> QED
        BY <1>2, <2>1, <3>1, <3>3 DEF q, p
    <2>3. Told(e)
      <3>1. e.store \in Store
        BY <2>1 DEF OnlyPage
      <3> QED
        BY <2>1, <3>1, JustTold
    <2>4. Redone(d, e)
      BY <2>1, <2>2, <2>3 DEF Redone
    <2> QED
      BY <2>1, <2>2, <2>4 DEF e, op
  <1>5. CASE TargetsNone(d)
    <2>1. /\ KeepsRest(d, e) /\ e.store = d.store
          /\ d.target.void => e = d
          /\ ~d.target.void => e.buffer = <<>> /\ e.told = Ids(d.store)
      BY <1>2, <1>5, OperationLost
    <2> HIDE DEF e
    <2>2. Told(e)
      <3>1. CASE d.target.void
        BY <1>1, <2>1, <3>1
      <3>2. CASE ~d.target.void
        BY <1>1, <2>1, <3>2, JustTold
      <3> QED
        BY <3>1, <3>2
    <2>3. e.buffer = d.buffer \/ e.buffer = <<>>
      BY <2>1
    <2>4. Redone(d, e)
      BY <1>1, <2>1, <2>2, <2>3, NothingRedone
    <2>5. newest + 1 > 0 => UpTo(q, k + 1)
      <3> SUFFICES ASSUME newest + 1 > 0
                   PROVE  UpTo(p, k + 1)
        BY <2>1
      <3>1. newest >= 0
        BY <1>1
      <3>2. p \in Page /\ UpTo(p, k)
        BY <1>3, <3>1 DEF GoodPage, OpenPage
      <3>3. k \in Int /\ k + 1 \in Int /\ k <= k + 1
        BY <1>2
      <3> HIDE DEF p, k
      <3> QED
        BY <3>2, <3>3, UpToMore
    <2>6. ~ (OnTarget(d) /\ newest + 1 > 0)
      <3> SUFFICES ASSUME OnTarget(d), newest + 1 > 0
                   PROVE  FALSE
        OBVIOUS
      <3>1. newest >= 0 /\ d.target.index = newest
        BY <1>1 DEF OnTarget
      <3>2. newest < Len(d.store.pages)
        BY <1>1, <1>3, <3>1
      <3>3. ~d.target.void
        BY <1>1, <3>1 DEF GoodDevice
      <3>4. newest >= Len(d.store.pages) /\ Len(d.store.pages) \in Nat
        BY <1>1, <1>5, <3>1, <3>3, IndexOf DEF TargetsNone
      <3> HIDE DEF newest
      <3> QED
        BY <1>1, <3>2, <3>4
    <2> QED
      BY <2>1, <2>4, <2>5, <2>6 DEF e, op
  <1> QED
    BY <1>4, <1>5, WhereDrawn

LEMMA RedoneGood ==
    ASSUME NEW d, GoodDevice(d), d.initialized, NEW f, Redone(d, f),
           NEW l \in Drawing, l.plot = d.displayList.plot, l = NoDrawing \/ l.plot >= 0,
           d.target.newest >= 0 => UpTo(f.store.pages[d.target.newest + 1], l.ops)
    PROVE  LET e == [f EXCEPT !.displayList = l]
               newest == d.target.newest IN
           /\ GoodDevice(e) /\ e.initialized
           /\ OnTarget(d) => OnTarget(e)
           /\ e.store = f.store /\ e.buffer = f.buffer
           /\ e.store.idCounter = d.store.idCounter
           /\ Len(e.store.pages) = Len(d.store.pages)
           /\ \A n \in 1..Len(d.store.pages) : e.store.pages[n].id = d.store.pages[n].id
           /\ \A n \in 1..Len(d.store.pages) :
                 n # newest + 1 => e.store.pages[n] = d.store.pages[n]
           /\ \A n \in 1..Len(d.store.pages) :
                 OpsIn(e, n) = IF n = newest + 1 THEN l.ops ELSE OpsIn(d, n)
  <1> DEFINE newest == d.target.newest
             m == Len(d.store.pages)
             e == [f EXCEPT !.displayList = l]
             q(n) == e.store.pages[n]
             p(n) == d.store.pages[n]
  <1>1. /\ d \in DeviceType /\ d.store \in Store /\ newest \in Int /\ Lists(d)
        /\ d.history \in Seq(Drawing)
        /\ m = (IF newest < 0 THEN 0 ELSE newest + 1)
        /\ Len(d.history) \in (IF newest < 0 THEN {0} ELSE {newest, newest + 1})
        /\ \A n \in 1..Len(d.history) : d.history[n].plot = p(n).id
        /\ m \in Nat
    BY DeviceAssumption DEF GoodDevice, DeviceType, Target, Lists, Store
  <1>2. /\ f \in DeviceType /\ f.target = d.target /\ f.history = d.history
        /\ f.replaying = FALSE /\ f.initialized /\ f.devSize = d.devSize
        /\ OnlyPage(d.store, f.store, newest + 1)
        /\ newest >= 0 => /\ GoodPage(f.store.pages[newest + 1])
                          /\ f.store.pages[newest + 1].id = p(newest + 1).id
                          /\ f.store.pages[newest + 1].size = p(newest + 1).size
        /\ \A n \in 1..Len(f.buffer) : f.buffer[n].n = 0
        /\ Told(f)
    BY DEF Redone, KeepsRest, GoodDevice
  <1>3. /\ e \in DeviceType /\ SameData(f, e) /\ e.displayList = l
        /\ e.target = f.target /\ e.history = f.history
        /\ e.replaying = f.replaying /\ e.initialized = f.initialized
        /\ e.devSize = f.devSize
    BY <1>2, WithDisplayList, Zenon
  <1> HIDE DEF e
  <1>4. /\ e.store \in Store /\ e.store.idCounter = d.store.idCounter
        /\ Len(e.store.pages) = m
        /\ \A n \in 1..m : n # newest + 1 => q(n) = p(n)
    BY <1>2, <1>3 DEF OnlyPage, SameData
  <1>5. \A n \in 1..m : n = newest + 1 => newest >= 0
    <2>1. newest < 0 => m = 0
      BY <1>1
    <2> HIDE DEF m, newest
    <2> QED
      BY <1>1, <2>1
  <1>6. \A n \in 1..m : q(n).id = p(n).id /\ GoodPage(q(n))
    BY <1>2, <1>3, <1>4, <1>5 DEF SameData, GoodDevice
  <1>7. \A n \in 1..m : OpsIn(e, n) = IF n = newest + 1 THEN l.ops ELSE OpsIn(d, n)
    <2> TAKE n \in 1..m
    <2>1. CASE n = newest + 1
      <3>1. ~ (n <= newest)
        BY <1>1, <2>1
      <3> QED
        BY <1>2, <1>3, <2>1, <3>1 DEF OpsIn
    <2>2. CASE n # newest + 1
      <3>1. n <= newest
        <4>1. m = newest + 1
          <5> HIDE DEF m, newest
          <5> QED
            BY <1>1
        <4> HIDE DEF m, newest
        <4> QED
          BY <1>1, <2>2, <4>1
      <3> QED
        BY <1>2, <1>3, <2>2, <3>1 DEF OpsIn
    <2> QED
      BY <2>1, <2>2
  <1>8. Lists(e)
    <2>1. \A n \in 1..Len(d.history) : n \in 1..m
      <3> HIDE DEF m, newest
      <3> QED
        BY <1>1
    <2>2. \A n \in 1..Len(d.history) : d.history[n].plot = q(n).id
      BY <1>1, <1>6, <2>1
    <2>3. e.history = d.history /\ e.target.newest = newest
      BY <1>2, <1>3
    <2> HIDE DEF newest, m
    <2> QED
      BY <1>1, <1>4, <2>2, <2>3 DEF Lists
  <1>9. Told(e)
    BY <1>2, <1>3 DEF Told, SameData
  <1>10. newest >= 0 => OpenPage(e)
    <2> SUFFICES ASSUME newest >= 0
                 PROVE  OpenPage(e)
      OBVIOUS
    <2>1. OpenPage(d)
      BY DEF GoodDevice
    <2> QED
      BY <1>2, <1>3, <1>4, <2>1 DEF OpenPage, SameData
  <1>11. GoodDevice(e)
    <2>1. Len(e.store.pages) <= e.store.idCounter
      BY <1>4 DEF GoodDevice
    <2>2. e.displayList = NoDrawing \/ e.displayList.plot >= 0
      BY <1>3
    <2>3. e.devSize = Fit(e.devSize) /\ (e.target.void <=> e.target.index = -1)
      BY <1>2, <1>3 DEF GoodDevice
    <2>4. \A n \in 1..Len(e.buffer) : e.buffer[n].n = 0
      BY <1>2, <1>3 DEF SameData
    <2> QED
      BY <1>2, <1>3, <1>4, <1>6, <1>8, <1>9, <1>10, <2>1, <2>2, <2>3, <2>4 DEF GoodDevice
  <1> QED
    BY <1>2, <1>3, <1>4, <1>6, <1>7, <1>11 DEF OnTarget, SameData, e

(* Drawing adds to the newest plot that is left, to none when there is     *)
(* none.                                                                   *)
LEMMA DrawGood ==
    ASSUME NEW d, GoodDevice(d), d.initialized,
           d.displayList # NoDrawing, d.displayList.ops < MaxOps
    PROVE  LET e == [Operation(d, NextOp(d)) EXCEPT !.displayList.ops = @ + 1]
               a == PlotsIn(d) IN
           /\ GoodDevice(e)
           /\ OnTarget(d) => OnTarget(e)
           /\ e.store.idCounter = d.store.idCounter
           /\ d.buffer = <<>> => e.buffer = <<>>
           /\ OnTarget(d) /\ d.buffer = <<>> /\ AllWhole(d) => AllWhole(e)
           /\ a = <<>> => PlotsIn(e) = a
           /\ a # <<>> => PlotsIn(e) = [a EXCEPT ![Len(a)].ops = @ + 1]
  <1> DEFINE f == Operation(d, NextOp(d))
             k == d.displayList.ops
             l == [plot |-> d.displayList.plot, ops |-> k + 1]
             e == [f EXCEPT !.displayList = l]
             newest == d.target.newest
             m == Len(d.store.pages)
             p(n) == d.store.pages[n]
             q(n) == e.store.pages[n]
  <1>1. /\ d \in DeviceType /\ newest \in Int /\ d.displayList \in Drawing
        /\ m = (IF newest < 0 THEN 0 ELSE newest + 1) /\ m \in Nat
    BY DeviceAssumption DEF GoodDevice, DeviceType, Target, Lists, Store
  <1>2. /\ l \in Drawing /\ l.plot = d.displayList.plot /\ l.ops = k + 1 /\ k \in Nat
        /\ l.plot >= 0
    <2>1. d.displayList.plot >= 0
      BY DEF GoodDevice
    <2> QED
      BY <1>1, <2>1, DeviceAssumption DEF Drawing
  <1>3. /\ Redone(d, f)
        /\ d.buffer = <<>> => f.buffer = <<>>
        /\ newest + 1 > 0 => UpTo(f.store.pages[newest + 1], k + 1)
        /\ OnTarget(d) /\ d.buffer = <<>> /\ newest + 1 > 0 /\ Whole(p(newest + 1), k)
           => Whole(f.store.pages[newest + 1], k + 1)
    BY OperationRedone
  <1>4. [f EXCEPT !.displayList.ops = @ + 1] = e
    <2>1. f.displayList = d.displayList
      BY <1>3 DEF Redone, KeepsRest
    <2>2. [d.displayList EXCEPT !.ops = @ + 1] = l
      BY <1>1 DEF Drawing
    <2>3. [f EXCEPT !.displayList.ops = @ + 1]
            = [f EXCEPT !.displayList = [f.displayList EXCEPT !.ops = @ + 1]]
      OBVIOUS
    <2> QED
      BY <2>1, <2>2, <2>3
  <1> HIDE DEF f, l
  <1>5. /\ GoodDevice(e) /\ e.initialized
        /\ OnTarget(d) => OnTarget(e)
        /\ e.store = f.store /\ e.buffer = f.buffer
        /\ e.store.idCounter = d.store.idCounter
        /\ Len(e.store.pages) = m
        /\ \A n \in 1..m : q(n).id = p(n).id
        /\ \A n \in 1..m : n # newest + 1 => q(n) = p(n)
        /\ \A n \in 1..m : OpsIn(e, n) = IF n = newest + 1 THEN l.ops ELSE OpsIn(d, n)
    <2>1. newest >= 0 => UpTo(f.store.pages[newest + 1], l.ops)
      BY <1>1, <1>2, <1>3
    <2> QED
      BY <1>2, <1>3, <2>1, RedoneGood
  <1> HIDE DEF e
  <1>6. newest >= 0 => OpsIn(d, newest + 1) = k
    BY <1>1 DEF OpsIn
  <1>7. ASSUME OnTarget(d), d.buffer = <<>>, AllWhole(d)
        PROVE  AllWhole(e)
    <2>1. \A n \in 1..m : Whole(q(n), OpsIn(e, n))
      <3> TAKE n \in 1..m
      <3>1. CASE n # newest + 1
        BY <1>5, <1>7, <3>1 DEF AllWhole
      <3>2. CASE n = newest + 1
        <4>1. newest >= 0 /\ newest + 1 > 0
          <5> HIDE DEF m, newest
          <5> QED
            BY <1>1, <3>2
        <4>2. Whole(p(n), k)
          BY <1>6, <1>7, <3>2, <4>1 DEF AllWhole
        <4>3. Whole(q(n), k + 1)
          BY <1>3, <1>5, <1>7, <3>2, <4>1, <4>2
        <4> QED
          BY <1>2, <1>5, <3>2, <4>3
      <3> QED
        BY <3>1, <3>2
    <2> QED
      BY <1>5, <2>1 DEF AllWhole
  <1> DEFINE a == PlotsIn(d)
             b == PlotsIn(e)
  <1>8. /\ a \in Seq(Plot) /\ Len(a) = m
        /\ \A n \in 1..m : a[n] = [id |-> p(n).id, ops |-> OpsIn(d, n)]
    BY <1>1, PlotsFields
  <1>9. /\ b \in Seq(Plot) /\ Len(b) = m
        /\ \A n \in 1..m : b[n] = [id |-> q(n).id, ops |-> OpsIn(e, n)]
    BY <1>5, PlotsFields DEF GoodDevice
  <1> HIDE DEF a, b
  <1>10. a = <<>> => b = a
    BY <1>8, <1>9
  <1>11. ASSUME a # <<>>
         PROVE  b = [a EXCEPT ![Len(a)].ops = @ + 1]
    <2> DEFINE c == [a EXCEPT ![m].ops = @ + 1]
    <2>1. m = newest + 1 /\ newest >= 0 /\ m \in 1..m
      <3>1. m # 0
        BY <1>8, <1>11
      <3> HIDE DEF m, newest
      <3> QED
        BY <1>1, <3>1
    <2>2. /\ c = [n \in 1..m |-> c[n]]
          /\ \A n \in 1..m : n # m => c[n] = a[n]
          /\ c[m] = [a[m] EXCEPT !.ops = @ + 1]
      <3>1. a = [n \in 1..m |-> a[n]]
        BY <1>8
      <3> HIDE DEF m
      <3> QED
        BY <2>1, <3>1
    <2>3. c[m] = b[m]
      <3>1. a[m] = [id |-> p(m).id, ops |-> k]
        BY <1>6, <1>8, <2>1
      <3>2. c[m] = [id |-> p(m).id, ops |-> k + 1]
        BY <2>2, <3>1
      <3>3. b[m] = [id |-> p(m).id, ops |-> k + 1]
        BY <1>2, <1>5, <1>9, <2>1
      <3> QED
        BY <3>2, <3>3
    <2>4. \A n \in 1..m : n # m => b[n] = a[n]
      <3> SUFFICES ASSUME NEW n \in 1..m, n # m
                   PROVE  b[n] = a[n]
        OBVIOUS
      <3>1. q(n) = p(n) /\ OpsIn(e, n) = OpsIn(d, n)
        BY <1>5, <2>1
      <3> QED
        BY <1>8, <1>9, <3>1
    <2>5. b = [n \in 1..m |-> b[n]]
      BY <1>9
    <2>6. \A n \in 1..m : b[n] = c[n]
      BY <2>2, <2>3, <2>4
    <2>7. b = c
      <3> HIDE DEF c, m
      <3> QED
        BY <2>2, <2>5, <2>6
    <2> QED
      BY <1>8, <2>7
  <1> QED
    BY <1>3, <1>4, <1>5, <1>7, <1>10, <1>11 DEF f, a, b

(* An operation that fails leaves its clip on the page and itself in the   *)
(* buffer; nothing is told.                                                *)
LEMMA InterruptedGood ==
    ASSUME NEW d, GoodDevice(d), d.initialized, d.displayList # NoDrawing
    PROVE  LET op == [plot |-> d.displayList.plot, n |-> 0, size |-> d.devSize]
               e == ClipAndPut(d, op) IN
           /\ GoodDevice(e)
           /\ OnTarget(d) => OnTarget(e)
           /\ e.store.idCounter = d.store.idCounter
           /\ PlotsIn(e) = PlotsIn(d)
  <1> DEFINE op == [plot |-> d.displayList.plot, n |-> 0, size |-> d.devSize]
             e == ClipAndPut(d, op)
             i == d.target.index
             newest == d.target.newest
             p == d.store.pages[newest + 1]
             q == e.store.pages[newest + 1]
             ops == Append(d.buffer, op)
  <1>1. /\ d \in DeviceType /\ d.store \in Store /\ newest \in Int
        /\ d.displayList \in Drawing /\ d.devSize \in Size /\ d.buffer \in Seq(DrawnOp)
        /\ Lists(d) /\ Told(d)
    BY DeviceAssumption DEF GoodDevice, DeviceType, Target
  <1>2. op \in DrawnOp /\ op.n = 0
    <2>1. d.displayList.plot \in 0..(MaxPlots - 1) /\ 0 \in 0..MaxOps
      BY <1>1, DeviceAssumption DEF GoodDevice, Drawing
    <2> QED
      BY <1>1, <2>1 DEF DrawnOp
  <1> HIDE DEF op
  <1>3. ops \in Seq(DrawnOp) /\ \A n \in 1..Len(ops) : ops[n].n = 0
    BY <1>1, <1>2 DEF GoodDevice
  <1> HIDE DEF ops
  <1>4. newest >= 0 =>
          newest + 1 \in 1..Len(d.store.pages) /\ GoodPage(p) /\ OpenPage(d)
    <2>1. newest >= 0 => newest + 1 \in 1..Len(d.store.pages)
      BY <1>1 DEF Lists
    <2> QED
      BY <2>1 DEF GoodDevice
  (* The clip, then the buffer.                                            *)
  <1>5. ASSUME NEW s \in Store, s = ClipPage(d.store, i, ClipOf(op)), ~d.target.void
        PROVE  KeepsRest(d, e) /\ e.store = s /\ e.buffer = ops /\ e.told = d.told
    <2> DEFINE x == [d EXCEPT !.store = s]
               y == [x EXCEPT !.buffer = ops]
    <2>1. KeepsRest(d, x) /\ x.store = s /\ x.buffer = d.buffer /\ x.told = d.told
      BY <1>1, <1>5, WithStore, Zenon
    <2>2. e = y
      BY <1>5, <2>1 DEF ClipAndPut, ops
    <2> HIDE DEF x, e
    <2>3. x \in DeviceType
      BY <2>1 DEF KeepsRest
    <2>4. KeepsRest(x, y) /\ y.store = x.store /\ y.buffer = ops /\ y.told = x.told
      BY <1>3, <2>3, WithBuffer, Zenon
    <2> QED
      BY <2>1, <2>2, <2>4, KeepsRestTrans
  <1>6. /\ Redone(d, e)
        /\ newest >= 0 => UpTo(q, d.displayList.ops)
    <2>1. CASE newest >= 0 /\ Targets(d, newest)
      <3> DEFINE s == ClipPage(d.store, i, ClipOf(op))
                 r == WithClip(p, ClipOf(op))
      <3>1. OnlyPage(d.store, s, newest + 1) /\ s.pages[newest + 1] = r
        BY <1>1, <1>4, <2>1, ClipRect, ClipPageStore DEF Targets
      <3>2. GoodPage(r) /\ r.id = p.id /\ r.size = p.size /\ r.dcs = p.dcs
        BY <1>4, <2>1, ClipRect, WithClipGood
      <3>3. s \in Store
        BY <3>1 DEF OnlyPage
      <3>4. KeepsRest(d, e) /\ e.store = s /\ e.buffer = ops /\ e.told = d.told
        BY <1>5, <2>1, <3>3 DEF Targets
      <3> HIDE DEF s, r, e, p, q
      <3>5. q = r
        BY <3>1, <3>4 DEF q
      <3>6. Told(e)
        <4>1. Len(e.store.pages) = Len(d.store.pages)
          BY <3>1, <3>4 DEF OnlyPage
        <4>2. \A n \in 1..Len(d.store.pages) :
                 /\ e.store.pages[n].id = d.store.pages[n].id
                 /\ e.store.pages[n].dcs = d.store.pages[n].dcs
          BY <3>1, <3>2, <3>4 DEF OnlyPage, p
        <4>3. ToSet(Ids(e.store)) = ToSet(Ids(d.store))
          <5>1. /\ ToSet(Ids(e.store)) = {e.store.pages[n].id : n \in 1..Len(e.store.pages)}
                /\ ToSet(Ids(d.store)) = {d.store.pages[n].id : n \in 1..Len(d.store.pages)}
            BY <1>1, <3>3, <3>4, IdSet
          <5> QED
            BY <4>1, <4>2, <5>1
        <4> QED
          BY <1>1, <3>4, <4>1, <4>2, <4>3 DEF Told
      <3>7. UpTo(q, d.displayList.ops)
        BY <1>4, <2>1, <3>2, <3>5 DEF OpenPage, UpTo, Recorded, p
      <3>8. Redone(d, e)
        BY <1>3, <3>1, <3>2, <3>4, <3>5, <3>6 DEF Redone, p, q
      <3> QED
        BY <3>7, <3>8
    <2>2. CASE TargetsNone(d)
      <3>1. KeepsRest(d, e) /\ e.store = d.store /\ e.told = d.told
            /\ \A n \in 1..Len(e.buffer) : e.buffer[n].n = 0
        <4>1. CASE d.target.void
          BY <1>1, <4>1 DEF ClipAndPut, KeepsRest, GoodDevice
        <4>2. CASE ~d.target.void
          <5>1. ~ValidIndex(d.store, i)
            <6>1. i \in Int /\ Len(d.store.pages) \in Nat /\ i >= Len(d.store.pages)
              BY <1>1, <2>2, <4>2, DeviceAssumption DEF TargetsNone, DeviceType, Target, Store
            <6> QED
              BY <6>1 DEF ValidIndex
          <5>2. ClipPage(d.store, i, ClipOf(op)) = d.store
            BY <5>1 DEF ClipPage
          <5> QED
            BY <1>1, <1>3, <1>5, <4>2, <5>2
        <4> QED
          BY <4>1, <4>2
      <3> HIDE DEF e
      <3>2. Told(e)
        BY <1>1, <3>1 DEF Told
      <3>3. Redone(d, e)
        BY <3>1, <3>2, NothingRedone
      <3> QED
        BY <1>4, <3>1, <3>3 DEF OpenPage
    <2> QED
      BY <2>1, <2>2, WhereDrawn
  <1> HIDE DEF e
  <1>7. [e EXCEPT !.displayList = d.displayList] = e
    BY <1>6 DEF Redone, KeepsRest, DeviceType
  <1> DEFINE m == Len(d.store.pages)
  <1>8. /\ GoodDevice(e) /\ e.initialized
        /\ OnTarget(d) => OnTarget(e)
        /\ e.store.idCounter = d.store.idCounter
        /\ Len(e.store.pages) = m
        /\ \A n \in 1..m : e.store.pages[n].id = d.store.pages[n].id
        /\ \A n \in 1..m : OpsIn(e, n)
              = IF n = newest + 1 THEN d.displayList.ops ELSE OpsIn(d, n)
    <2>1. d.displayList = NoDrawing \/ d.displayList.plot >= 0
      BY DEF GoodDevice
    <2>2. LET x == [e EXCEPT !.displayList = d.displayList] IN
           /\ GoodDevice(x) /\ x.initialized
           /\ OnTarget(d) => OnTarget(x)
           /\ x.store = e.store /\ x.buffer = e.buffer
           /\ x.store.idCounter = d.store.idCounter
           /\ Len(x.store.pages) = m
           /\ \A n \in 1..m : x.store.pages[n].id = d.store.pages[n].id
           /\ \A n \in 1..m : n # newest + 1 => x.store.pages[n] = d.store.pages[n]
           /\ \A n \in 1..m : OpsIn(x, n)
                 = IF n = newest + 1 THEN d.displayList.ops ELSE OpsIn(d, n)
      BY <1>1, <1>6, <2>1, RedoneGood
    <2> QED
      BY <1>7, <2>2
  <1>9. \A n \in 1..m : OpsIn(e, n) = OpsIn(d, n)
    <2>1. newest \in Int => OpsIn(d, newest + 1) = d.displayList.ops
      BY DEF OpsIn
    <2> QED
      BY <1>1, <1>8, <2>1
  <1>10. PlotsIn(e) = PlotsIn(d)
    BY <1>8, <1>9 DEF PlotsIn
  <1> QED
    BY <1>8, <1>10 DEF e, op

----------------------------------------------------------------------------
(* plt_remove.                                                             *)

(* Position i is left out.                                                 *)
Behind(i, n) == IF n < i THEN n ELSE n + 1

LEMMA PlotsRemoved ==
    ASSUME NEW d \in DeviceType, NEW e \in DeviceType, d.initialized, e.initialized,
           NEW i \in 1..Len(d.store.pages),
           Len(e.store.pages) = Len(d.store.pages) - 1,
           \A n \in 1..Len(e.store.pages) :
              /\ e.store.pages[n].id = d.store.pages[Behind(i, n)].id
              /\ OpsIn(e, n) = OpsIn(d, Behind(i, n))
    PROVE  i \in 1..Len(PlotsIn(d)) /\ PlotsIn(e) = RemoveAt(PlotsIn(d), i)
  <1> DEFINE a == PlotsIn(d)
             b == PlotsIn(e)
             c == RemoveAt(a, i)
             m == Len(d.store.pages)
  <1>0. m \in Nat
    BY DEF DeviceType, Store
  <1>1. /\ a \in Seq(Plot) /\ Len(a) = m
        /\ \A n \in 1..m : a[n] = [id |-> d.store.pages[n].id, ops |-> OpsIn(d, n)]
    BY PlotsFields
  <1>2. /\ b \in Seq(Plot) /\ Len(b) = m - 1
        /\ \A n \in 1..(m - 1) : b[n] = [id |-> e.store.pages[n].id, ops |-> OpsIn(e, n)]
    BY PlotsFields
  <1> HIDE DEF a, b
  <1>3. /\ c \in Seq(Plot) /\ Len(c) = m - 1
        /\ \A n \in 1..(m - 1) : c[n] = a[Behind(i, n)]
    <2>1. i \in 1..Len(a)
      BY <1>1
    <2>2. LET x == RemoveAt(a, i) IN
             /\ x \in Seq(Plot)
             /\ Len(x) = Len(a) - 1
             /\ \A n \in 1..Len(x) : x[n] = a[IF n < i THEN n ELSE n + 1]
      BY <1>1, <2>1, RemoveAtElements, Zenon
    <2> QED
      BY <1>1, <2>2 DEF Behind
  <1> HIDE DEF c
  <1>4. \A n \in 1..(m - 1) : b[n] = c[n]
    <2> TAKE n \in 1..(m - 1)
    <2>1. Behind(i, n) \in 1..m
      BY <1>0 DEF Behind
    <2>2. /\ e.store.pages[n].id = d.store.pages[Behind(i, n)].id
          /\ OpsIn(e, n) = OpsIn(d, Behind(i, n))
      OBVIOUS
    <2> QED
      BY <1>1, <1>2, <1>3, <2>1, <2>2
  <1>5. b = c
    <2>1. Len(b) = Len(c) /\ \A n \in 1..Len(b) : b[n] = c[n]
      BY <1>2, <1>3, <1>4
    <2>2. b \in Seq(Plot) /\ c \in Seq(Plot)
      BY <1>2, <1>3, Zenon
    <2> HIDE DEF m
    <2> QED
      BY <2>1, <2>2, SameSequence
  <1> QED
    BY <1>1, <1>5 DEF a, b, c

(* The newest plot is removed and there is one before it: that one is      *)
(* redrawn, and new operations go to it.                                   *)
LEMMA RemoveNewestGood ==
    ASSUME NEW d, GoodDevice(d), d.initialized, Current(d), d.target.newest > 0,
           NEW upto \in Int
    PROVE  LET n == d.target.newest
               e == PltRemove(d, n, upto) IN
           /\ GoodDevice(e) /\ OnTarget(e)
           /\ e.store.idCounter = d.store.idCounter
           /\ d.buffer = <<>> /\ upto >= 0 => e.buffer = <<>>
           /\ d.buffer = <<>> /\ AllWhole(d) /\ upto >= MaxOps => AllWhole(e)
           /\ n + 1 \in 1..Len(PlotsIn(d))
           /\ PlotsIn(e) = RemoveAt(PlotsIn(d), n + 1)
  <1> DEFINE n == d.target.newest
             e == PltRemove(d, n, upto)
             p(k) == d.store.pages[k]
             q(k) == e.store.pages[k]
             ops == d.history[n].ops
             l == Completed(upto, ops)
  <1>1. /\ Opened(d) /\ OpenPage(d)
        /\ n \in Nat /\ n > 0 /\ Len(d.store.pages) = n + 1
        /\ d.history \in Seq(Drawing)
        /\ Len(d.history) \in {n, n + 1}
    <2>1. d.target.newest >= 0
      <3>1. d.target.newest \in Int
        BY DeviceAssumption DEF GoodDevice, DeviceType, Target
      <3> QED
        BY <3>1
    <2> QED
      BY <2>1, GoodIsOpened
  <1>2. /\ e \in DeviceType
        /\ e.target.index = n - 1 /\ e.target.newest = n - 1
        /\ e.target.void = FALSE
        /\ e.history \in Seq(Drawing) /\ Len(e.history) = n
        /\ \A k \in 1..n : e.history[k] = d.history[k]
        /\ e.displayList = d.history[n]
        /\ e.replaying = FALSE /\ e.initialized = d.initialized
        /\ e.devSize = Fit(p(n).size)
        /\ e.store.idCounter = d.store.idCounter /\ e.store.active = d.store.active
        /\ Len(e.store.pages) = n
        /\ \A k \in 1..(n - 1) : q(k) = p(k)
        /\ GoodPage(q(n)) /\ q(n).id = p(n).id /\ q(n).size = p(n).size
        /\ UpTo(q(n), l)
        /\ d.buffer = <<>> => Whole(q(n), l)
        /\ \A k \in 1..Len(e.buffer) : e.buffer[k].n = 0
        /\ upto >= 0 => e.buffer = d.buffer \/ e.buffer = <<>>
        /\ e.told = Ids(e.store)
    BY <1>1, RemoveNewestFields
  <1> HIDE DEF e, l
  <1>a. n = d.target.newest
    OBVIOUS
  <1> HIDE DEF n
  <1>3. /\ \A k \in 1..n : k \in 1..(n - 1) \/ k = n
        /\ \A k \in 1..n : k \in 1..(n + 1) /\ k \in 1..Len(d.history)
        /\ n - 1 \in Nat /\ n - 1 + 1 = n /\ n \in 1..n
    BY <1>1
  <1>4. ops \in 0..MaxOps /\ ops \in Nat
    <2>1. d.history[n] \in Drawing
      BY <1>1, <1>3
    <2> QED
      BY <2>1, DeviceAssumption DEF Drawing
  <1>5. /\ l \in Nat /\ l <= ops
        /\ upto >= MaxOps => l = ops
    <2>1. l \in Nat /\ l <= ops /\ (upto >= ops => l = ops)
      BY <1>4, CompletedOf, Zenon DEF l
    <2> QED
      BY <1>4, <2>1, DeviceAssumption
  <1>6. /\ \A k \in 1..(n + 1) : k # n + 1 => OpsIn(d, k) = d.history[k].ops
        /\ \A k \in 1..n : OpsIn(e, k) = d.history[k].ops
    <2>1. \A k \in 1..n : OpsIn(d, k) = d.history[k].ops
      BY <1>1, <1>a, OpsOfPlots
    <2>2. \A k \in 1..(n + 1) : k # n + 1 => k \in 1..n
      BY <1>1
    <2>3. /\ e.target.newest \in Nat /\ e.history \in Seq(Drawing)
          /\ Len(e.history) \in {e.target.newest, e.target.newest + 1}
      BY <1>2, <1>3
    <2>4. /\ OpsIn(e, e.target.newest + 1) = e.displayList.ops
          /\ \A k \in 1..e.target.newest : OpsIn(e, k) = e.history[k].ops
      BY <2>3, OpsOfPlots
    <2>5. /\ OpsIn(e, n) = d.history[n].ops
          /\ \A k \in 1..(n - 1) : OpsIn(e, k) = d.history[k].ops
      <3>1. \A k \in 1..(n - 1) : k \in 1..n
        BY <1>1
      <3> QED
        BY <1>2, <1>3, <2>4, <3>1
    <2> QED
      BY <1>3, <2>1, <2>2, <2>5
  <1>7. \A k \in 1..n : GoodPage(q(k)) /\ q(k).id = p(k).id
    BY <1>1, <1>2, <1>3 DEF GoodDevice
  <1>8. Lists(e)
    <2>1. \A k \in 1..n : e.history[k].plot = q(k).id
      <3>1. \A k \in 1..n : d.history[k].plot = p(k).id
        BY <1>1, <1>3 DEF Opened
      <3>2. \A k \in 1..n : e.history[k] = d.history[k]
        BY <1>2
      <3> HIDE DEF p, q
      <3> QED
        BY <1>7, <3>1, <3>2
    <2> QED
      BY <1>2, <1>3, <2>1 DEF Lists
  <1>9. Told(e)
    BY <1>2, JustTold DEF DeviceType
  <1>10. OpenPage(e)
    <2>1. q(n) \in Page /\ UpTo(q(n), l)
      BY <1>2 DEF GoodPage
    <2>2. l \in Int /\ ops \in Int /\ l <= ops
      BY <1>4, <1>5
    <2>3. UpTo(q(n), ops)
      <3> HIDE DEF q, ops
      <3> QED
        BY <2>1, <2>2, UpToMore
    <2>4. e.displayList.plot = q(n).id
      <3>1. d.history[n].plot = p(n).id
        BY <1>1, <1>3 DEF Opened
      <3> QED
        BY <1>2, <3>1
    <2> QED
      BY <1>2, <1>3, <2>3, <2>4 DEF OpenPage
  <1>11. GoodDevice(e) /\ OnTarget(e)
    <2>1. Len(e.store.pages) <= e.store.idCounter
      <3>1. Len(d.store.pages) <= d.store.idCounter /\ d.store.idCounter \in Int
        BY DeviceAssumption DEF GoodDevice, DeviceType, Store
      <3> QED
        BY <1>1, <1>2, <3>1
    <2>2. e.displayList.plot >= 0
      <3>1. e.displayList.plot = p(n).id
        <4>1. d.history[n].plot = p(n).id
          BY <1>1, <1>3 DEF Opened
        <4> QED
          BY <1>2, <4>1
      <3>2. q(n).id = p(n).id /\ q(n) \in Page
        BY <1>2 DEF GoodPage
      <3>3. q(n).id >= 0
        BY <3>2, DeviceAssumption DEF Page
      <3> QED
        BY <3>1, <3>2, <3>3
    <2>3. e.devSize = Fit(e.devSize)
      <3>1. p(n).size \in Size
        BY <1>2 DEF GoodPage, Page
      <3> QED
        BY <1>2, <3>1, FitSize
    <2>4. e.target.void <=> e.target.index = -1
      BY <1>2, <1>3
    <2>5. \A k \in 1..Len(e.buffer) : e.buffer[k].n = 0
      BY <1>2
    <2> QED
      BY <1>2, <1>7, <1>8, <1>9, <1>10, <2>1, <2>2, <2>3, <2>4, <2>5
         DEF GoodDevice, OnTarget
  <1>12. ASSUME d.buffer = <<>>, AllWhole(d), upto >= MaxOps
         PROVE  AllWhole(e)
    <2>1. \A k \in 1..n : Whole(q(k), OpsIn(e, k))
      <3> TAKE k \in 1..n
      <3>1. CASE k = n
        BY <1>2, <1>5, <1>6, <1>12, <3>1
      <3>2. CASE k # n
        <4>1. k \in 1..(n - 1) /\ k \in 1..(n + 1) /\ k # n + 1
          BY <1>1, <3>2
        <4>2. Whole(p(k), OpsIn(d, k))
          BY <1>1, <1>12, <4>1 DEF AllWhole
        <4> QED
          BY <1>2, <1>6, <4>1, <4>2
      <3> QED
        BY <3>1, <3>2
    <2> QED
      BY <1>2, <2>1 DEF AllWhole
  <1>13. /\ n + 1 \in 1..Len(PlotsIn(d))
         /\ PlotsIn(e) = RemoveAt(PlotsIn(d), n + 1)
    <2>1. \A k \in 1..n : Behind(n + 1, k) = k /\ k # n + 1 /\ k \in 1..(n + 1)
      BY <1>1 DEF Behind
    <2>2. \A k \in 1..Len(e.store.pages) :
              /\ q(k).id = p(Behind(n + 1, k)).id
              /\ OpsIn(e, k) = OpsIn(d, Behind(n + 1, k))
      BY <1>2, <1>6, <1>7, <2>1
    <2>3. Len(e.store.pages) = Len(d.store.pages) - 1 /\ n + 1 \in 1..Len(d.store.pages)
      BY <1>1, <1>2
    <2> QED
      BY <1>1, <1>2, <2>2, <2>3, PlotsRemoved DEF GoodDevice
  <1> QED
    BY <1>2, <1>11, <1>12, <1>13 DEF e, n

(* An older plot is removed: what is drawn from then on goes nowhere.      *)
LEMMA RemoveOlderGood ==
    ASSUME NEW d, GoodDevice(d), d.initialized, Current(d), d.target.newest >= 0,
           NEW i \in 0..(d.target.newest - 1), NEW upto \in Int
    PROVE  LET e == PltRemove(d, i, upto) IN
           /\ GoodDevice(e)
           /\ e.store.idCounter = d.store.idCounter
           /\ e.buffer = d.buffer
           /\ i + 1 \in 1..Len(PlotsIn(d))
           /\ PlotsIn(e) = RemoveAt(PlotsIn(d), i + 1)
  <1> DEFINE n == d.target.newest
             e == PltRemove(d, i, upto)
             p(k) == d.store.pages[k]
             q(k) == e.store.pages[k]
             h == d.history
  <1>1. /\ Opened(d) /\ OpenPage(d) /\ d \in DeviceType /\ d.store \in Store
        /\ n \in Nat /\ Len(d.store.pages) = n + 1
        /\ h \in Seq(Drawing) /\ Len(h) \in {n, n + 1}
    BY GoodIsOpened DEF GoodDevice, DeviceType
  <1>a. n = d.target.newest /\ h = d.history
    OBVIOUS
  <1> HIDE DEF n, h
  <1>2. /\ i \in Nat /\ i \in Int /\ i < n /\ n > 0 /\ i < Len(d.store.pages) /\ i < Len(h)
    BY <1>1, <1>a
  <1>3. LET t == RemovePage(d.store, i, FALSE) IN
             /\ t \in Store /\ t.idCounter = d.store.idCounter /\ t.active = d.store.active
             /\ Len(t.pages) = Len(d.store.pages) - 1
             /\ \A k \in 1..Len(t.pages) :
                  t.pages[k] = d.store.pages[IF k < i + 1 THEN k ELSE k + 1]
    BY <1>1, <1>2, RemovePageStore, Zenon
  <1>4. LET r == HistoryRemove(h, i) IN
             /\ r \in Seq(Drawing) /\ Len(r) = Len(h) - 1
             /\ \A k \in 1..Len(r) : r[k] = h[IF k < i + 1 THEN k ELSE k + 1]
    BY <1>1, <1>2, HistoryRemoveEntry, Zenon
  <1>5. /\ e \in DeviceType
        /\ e.target.index = d.target.index /\ e.target.newest = n - 1
        /\ e.target.void = d.target.void
        /\ e.store = RemovePage(d.store, i, FALSE)
        /\ e.history = HistoryRemove(h, i)
        /\ e.buffer = d.buffer /\ e.told = Ids(e.store)
        /\ e.replaying = FALSE
        /\ e.initialized = d.initialized /\ e.displayList = d.displayList
        /\ e.devSize = d.devSize
    <2>1. d.target.newest > -2 /\ ~ (i = d.target.newest /\ i > 0)
      BY <1>1, <1>2, <1>a
    <2>2. ~HistoryFails(d.history, i)
      BY <1>2 DEF HistoryFails
    <2>3. RemovePage(d.store, i, FALSE) \in Store /\ HistoryRemove(d.history, i) \in Seq(Drawing)
      BY <1>3, <1>4, <1>a
    <2>4. LET f == PltRemove(d, i, upto) IN
             /\ f \in DeviceType
             /\ f.target.index = d.target.index
             /\ f.target.newest = d.target.newest - 1
             /\ f.target.void = d.target.void
             /\ f.store = RemovePage(d.store, i, FALSE)
             /\ f.history = HistoryRemove(d.history, i)
             /\ f.buffer = d.buffer /\ f.told = Ids(f.store)
             /\ f.replaying = FALSE
             /\ f.initialized = d.initialized /\ f.displayList = d.displayList
             /\ f.devSize = d.devSize
      BY <1>1, <1>2, <2>1, <2>2, <2>3, RemoveFields, Zenon
    <2> QED
      BY <1>a, <2>4 DEF e
  <1> HIDE DEF e
  <1>6. /\ Len(e.store.pages) = n
        /\ e.store.idCounter = d.store.idCounter
        /\ \A k \in 1..n : q(k) = p(Behind(i + 1, k))
        /\ e.history \in Seq(Drawing) /\ Len(e.history) = Len(h) - 1
        /\ \A k \in 1..Len(e.history) : e.history[k] = h[Behind(i + 1, k)]
    <2>1. Len(d.store.pages) - 1 = n
      BY <1>1
    <2> QED
      BY <1>3, <1>4, <1>5, <2>1 DEF Behind
  <1>7. /\ \A k \in 1..n : Behind(i + 1, k) \in 1..(n + 1)
        /\ \A k \in 1..(n - 1) : k \in 1..n /\ Behind(i + 1, k) \in 1..n
        /\ \A k \in 1..Len(e.history) : k \in 1..n /\ Behind(i + 1, k) \in 1..Len(h)
        /\ Behind(i + 1, n) = n + 1 /\ n \in 1..n
        /\ Len(e.history) \in {n - 1, n - 1 + 1} /\ n - 1 + 1 = n /\ n - 1 \in Nat
        /\ \A k \in 1..n : k = n \/ k \in 1..(n - 1)
        /\ \A k \in 1..(n - 1) : k \in 1..Len(e.history)
    BY <1>1, <1>2, <1>6 DEF Behind
  <1>8. \A k \in 1..n : GoodPage(q(k))
    BY <1>1, <1>6, <1>7 DEF GoodDevice
  <1>9. Lists(e)
    <2>1. \A k \in 1..Len(e.history) : e.history[k].plot = q(k).id
      <3> TAKE k \in 1..Len(e.history)
      <3>1. h[Behind(i + 1, k)].plot = p(Behind(i + 1, k)).id
        BY <1>1, <1>7, <1>a DEF Opened
      <3>2. q(k) = p(Behind(i + 1, k)) /\ e.history[k] = h[Behind(i + 1, k)]
        BY <1>6, <1>7
      <3> QED
        BY <3>1, <3>2
    <2>2. ~ (n - 1 < 0)
      BY <1>7
    <2> QED
      BY <1>5, <1>6, <1>7, <2>1, <2>2 DEF Lists
  <1>10. Told(e)
    BY <1>5, JustTold DEF DeviceType
  <1>11. OpenPage(e)
    <2>1. q(n) = p(n + 1)
      BY <1>6, <1>7
    <2>2. e.target.index >= n
      <3>1. d.target.index = n \/ d.target.index >= n + 1
        BY <1>1, <1>a DEF OpenPage
      <3>2. d.target.index \in Int
        BY <1>1, DeviceAssumption DEF DeviceType, Target
      <3> QED
        BY <1>1, <1>5, <3>1, <3>2
    <2>3. e.target.index = e.target.newest \/ e.target.index >= Len(e.store.pages)
      BY <1>1, <1>5, <1>6, <2>2
    <2> QED
      BY <1>1, <1>5, <1>7, <1>a, <2>1, <2>3 DEF OpenPage
  <1>12. GoodDevice(e)
    <2>1. Len(e.store.pages) <= e.store.idCounter
      <3>1. Len(d.store.pages) <= d.store.idCounter /\ d.store.idCounter \in Int
        BY DeviceAssumption DEF GoodDevice, DeviceType, Store
      <3> QED
        BY <1>1, <1>6, <3>1
    <2>2. \A k \in 1..Len(e.store.pages) : GoodPage(q(k))
      BY <1>6, <1>8
    <2> QED
      BY <1>5, <1>9, <1>10, <1>11, <2>1, <2>2 DEF GoodDevice
  <1>13. /\ OpsIn(d, n + 1) = d.displayList.ops
         /\ \A k \in 1..n : OpsIn(d, k) = h[k].ops
    BY <1>1, <1>a, OpsOfPlots
  <1>14. /\ OpsIn(e, n) = e.displayList.ops
         /\ \A k \in 1..(n - 1) : OpsIn(e, k) = e.history[k].ops
    <2>1. /\ e.target.newest \in Nat /\ e.history \in Seq(Drawing)
          /\ Len(e.history) \in {e.target.newest, e.target.newest + 1}
      BY <1>5, <1>6, <1>7
    <2>2. /\ OpsIn(e, e.target.newest + 1) = e.displayList.ops
          /\ \A k \in 1..e.target.newest : OpsIn(e, k) = e.history[k].ops
      BY <2>1, OpsOfPlots
    <2> QED
      BY <1>5, <1>7, <2>2
  <1>15. \A k \in 1..n :
            /\ q(k).id = p(Behind(i + 1, k)).id
            /\ OpsIn(e, k) = OpsIn(d, Behind(i + 1, k))
    <2> TAKE k \in 1..n
    <2>a. q(k) = p(Behind(i + 1, k))
      BY <1>6
    <2>1. CASE k = n
      <3>1. Behind(i + 1, k) = n + 1
        BY <1>7, <2>1
      <3>2. OpsIn(e, k) = d.displayList.ops
        BY <1>5, <1>14, <2>1
      <3> QED
        BY <1>13, <2>a, <3>1, <3>2
    <2>2. CASE k \in 1..(n - 1)
      <3>1. k \in 1..Len(e.history) /\ Behind(i + 1, k) \in 1..n
        BY <1>7, <2>2
      <3>2. OpsIn(e, k) = e.history[k].ops /\ e.history[k] = h[Behind(i + 1, k)]
        BY <1>6, <1>14, <2>2, <3>1
      <3>3. OpsIn(d, Behind(i + 1, k)) = h[Behind(i + 1, k)].ops
        BY <1>13, <3>1
      <3> QED
        BY <2>a, <3>2, <3>3
    <2> QED
      BY <1>7, <2>1, <2>2
  <1>16. /\ i + 1 \in 1..Len(PlotsIn(d))
         /\ PlotsIn(e) = RemoveAt(PlotsIn(d), i + 1)
    <2>1. Len(e.store.pages) = Len(d.store.pages) - 1 /\ i + 1 \in 1..Len(d.store.pages)
      BY <1>1, <1>2, <1>6
    <2>2. \A k \in 1..Len(e.store.pages) :
            /\ q(k).id = p(Behind(i + 1, k)).id
            /\ OpsIn(e, k) = OpsIn(d, Behind(i + 1, k))
      BY <1>6, <1>15
    <2> QED
      BY <1>1, <1>5, <2>1, <2>2, PlotsRemoved
  <1> QED
    BY <1>5, <1>6, <1>12, <1>16 DEF e

(* A device that lost its last plot has nothing to show.                   *)
LEMMA EmptyGood ==
    ASSUME NEW d, GoodDevice(d), NEW e \in DeviceType,
           Len(e.store.pages) = 0, Len(e.history) = 0, e.target.newest < 0,
           e.target.void <=> e.target.index = -1,
           e.buffer = d.buffer, e.told = Ids(e.store), e.replaying = FALSE,
           e.displayList = d.displayList, e.devSize = d.devSize
    PROVE  /\ GoodDevice(e) /\ OnTarget(e) /\ AllWhole(e)
           /\ PlotsIn(e) = <<>>
  <1>1. 1..Len(e.store.pages) = {} /\ 1..Len(e.history) = {}
    OBVIOUS
  <1>2. e.target.newest \in Int /\ ~ (e.target.newest >= 0)
    BY DeviceAssumption DEF DeviceType, Target
  <1>3. Lists(e)
    BY <1>1 DEF Lists
  <1>4. Told(e)
    BY JustTold DEF DeviceType
  <1>5. Len(e.store.pages) <= e.store.idCounter
    BY DeviceAssumption DEF DeviceType, Store
  <1>6. GoodDevice(e)
    BY <1>1, <1>2, <1>3, <1>4, <1>5 DEF GoodDevice
  <1>7. PlotsIn(e) = <<>>
    <2>1. CASE e.initialized
      <3>1. /\ PlotsIn(e) \in Seq(Plot) /\ Len(PlotsIn(e)) = 0
        BY <2>1, PlotsFields
      <3> QED
        BY <3>1
    <2>2. CASE ~e.initialized
      BY <2>2 DEF PlotsIn
    <2> QED
      BY <2>1, <2>2
  <1> QED
    BY <1>1, <1>2, <1>6, <1>7 DEF OnTarget, AllWhole

(* A removal that plays no other plot.                                     *)
Shrunk(d, e, i) ==
    /\ e \in DeviceType
    /\ e.target.index = d.target.index /\ e.target.newest = d.target.newest - 1
    /\ e.target.void = d.target.void
    /\ e.store = RemovePage(d.store, i, FALSE)
    /\ e.history = HistoryRemove(d.history, i)
    /\ e.buffer = d.buffer /\ e.told = Ids(e.store)
    /\ e.replaying = FALSE
    /\ e.initialized = d.initialized /\ e.displayList = d.displayList
    /\ e.devSize = d.devSize

LEMMA RemoveShrinks ==
    ASSUME NEW d \in DeviceType, NEW i \in Int,
           d.target.newest > -2, ~ (i = d.target.newest /\ i > 0),
           ~HistoryFails(d.history, i),
           RemovePage(d.store, i, FALSE) \in Store,
           HistoryRemove(d.history, i) \in Seq(Drawing), NEW upto \in Int
    PROVE  Shrunk(d, PltRemove(d, i, upto), i)
  <1>1. LET f == PltRemove(d, i, upto) IN
             /\ f \in DeviceType
             /\ f.target.index = d.target.index
             /\ f.target.newest = d.target.newest - 1
             /\ f.target.void = d.target.void
             /\ f.store = RemovePage(d.store, i, FALSE)
             /\ f.history = HistoryRemove(d.history, i)
             /\ f.buffer = d.buffer /\ f.told = Ids(f.store)
             /\ f.replaying = FALSE
             /\ f.initialized = d.initialized /\ f.displayList = d.displayList
             /\ f.devSize = d.devSize
    BY RemoveFields, Zenon
  <1> QED
    BY <1>1 DEF Shrunk

(* The only plot is removed.                                               *)
LEMMA RemoveOnlyGood ==
    ASSUME NEW d, GoodDevice(d), d.initialized, Current(d), d.target.newest = 0,
           NEW i \in Int, i = 0, NEW upto \in Int
    PROVE  LET e == PltRemove(d, i, upto) IN
           /\ GoodDevice(e) /\ OnTarget(e) /\ AllWhole(e)
           /\ e.store.idCounter = d.store.idCounter
           /\ e.buffer = d.buffer
           /\ i + 1 \in 1..Len(PlotsIn(d))
           /\ PlotsIn(e) = RemoveAt(PlotsIn(d), i + 1)
  <1> DEFINE e == PltRemove(d, i, upto)
             h == d.history
             r == HistoryRemove(h, i)
             t == RemovePage(d.store, i, FALSE)
  <1>1. /\ d \in DeviceType /\ d.store \in Store
        /\ Len(d.store.pages) = 1
        /\ h \in Seq(Drawing) /\ Len(h) \in {0, 1}
    <2>1. d.target.newest >= 0
      OBVIOUS
    <2>2. /\ Len(d.store.pages) = d.target.newest + 1
          /\ d.history \in Seq(Drawing)
          /\ Len(d.history) \in {d.target.newest, d.target.newest + 1}
      BY <2>1, GoodIsOpened
    <2> QED
      BY <2>2 DEF GoodDevice, DeviceType
  <1>2. /\ t \in Store /\ t.idCounter = d.store.idCounter /\ t.active = d.store.active
        /\ Len(t.pages) = 0
    <2>1. i \in Nat /\ i < Len(d.store.pages)
      BY <1>1
    <2>2. LET u == RemovePage(d.store, i, FALSE) IN
             /\ u \in Store /\ u.idCounter = d.store.idCounter /\ u.active = d.store.active
             /\ Len(u.pages) = Len(d.store.pages) - 1
             /\ \A n \in 1..Len(u.pages) :
                  u.pages[n] = d.store.pages[IF n < i + 1 THEN n ELSE n + 1]
      BY <1>1, <2>1, RemovePageStore, Zenon
    <2>3. Len(t.pages) = Len(d.store.pages) - 1
      BY <2>2
    <2>4. Len(t.pages) = 0
      <3>1. Len(d.store.pages) - 1 = 0
        BY <1>1
      <3> QED
        BY <2>3, <3>1
    <2>5. t \in Store /\ t.idCounter = d.store.idCounter /\ t.active = d.store.active
      BY <2>2, Zenon
    <2> QED
      BY <2>4, <2>5
  <1>3. r \in Seq(Drawing) /\ Len(r) = 0
    <2>1. CASE Len(h) = 0
      <3>1. r = h
        BY <2>1 DEF HistoryRemove
      <3> QED
        BY <1>1, <2>1, <3>1
    <2>2. CASE Len(h) = 1
      <3>1. i \in Nat /\ i < Len(h)
        BY <2>2
      <3>2. LET f == HistoryRemove(h, i) IN
             /\ f \in Seq(Drawing) /\ Len(f) = Len(h) - 1
             /\ \A n \in 1..Len(f) : f[n] = h[IF n < i + 1 THEN n ELSE n + 1]
        BY <1>1, <3>1, HistoryRemoveEntry, Zenon
      <3> QED
        BY <2>2, <3>2
    <2> QED
      BY <1>1, <2>1, <2>2
  <1>4. /\ e \in DeviceType
        /\ e.target.index = d.target.index
        /\ e.target.newest = d.target.newest - 1
        /\ e.target.void = d.target.void
        /\ e.store = t
        /\ e.history = r
        /\ e.buffer = d.buffer /\ e.told = Ids(e.store)
        /\ e.replaying = FALSE
        /\ e.initialized = d.initialized /\ e.displayList = d.displayList
        /\ e.devSize = d.devSize
    <2>1. /\ d.target.newest > -2 /\ ~ (i = d.target.newest /\ i > 0)
          /\ ~HistoryFails(d.history, i)
      BY DEF HistoryFails
    <2>2. Shrunk(d, e, i)
      BY <1>1, <1>2, <1>3, <2>1, RemoveShrinks
    <2> QED
      BY <2>2 DEF Shrunk
  <1> HIDE DEF e, r, t
  <1>5. e.target.newest < 0
    BY <1>4
  <1>6. e.target.void <=> e.target.index = -1
    BY <1>4 DEF GoodDevice
  <1>7. /\ GoodDevice(e) /\ OnTarget(e) /\ AllWhole(e)
        /\ PlotsIn(e) = <<>>
    BY <1>2, <1>3, <1>4, <1>5, <1>6, EmptyGood
  <1>8. /\ i + 1 \in 1..Len(PlotsIn(d))
        /\ PlotsIn(e) = RemoveAt(PlotsIn(d), i + 1)
    <2>1. i + 1 \in 1..Len(d.store.pages) /\ Len(e.store.pages) = Len(d.store.pages) - 1
      BY <1>1, <1>2, <1>4
    <2>2. \A n \in 1..Len(e.store.pages) :
            /\ e.store.pages[n].id = d.store.pages[Behind(i + 1, n)].id
            /\ OpsIn(e, n) = OpsIn(d, Behind(i + 1, n))
      <3>1. 1..Len(e.store.pages) = {}
        BY <1>2, <1>4
      <3> QED
        BY <3>1
    <2> QED
      BY <1>1, <1>4, <2>1, <2>2, PlotsRemoved
  <1> QED
    BY <1>2, <1>4, <1>7, <1>8 DEF e

(* Nothing is there to be removed.                                         *)
LEMMA RemoveNoneGood ==
    ASSUME NEW d, GoodDevice(d), d.initialized, d.target.newest = -1,
           NEW i \in Int, i = -1, NEW upto \in Int
    PROVE  LET e == PltRemove(d, i, upto) IN
           /\ GoodDevice(e) /\ OnTarget(e) /\ AllWhole(e)
           /\ e.store.idCounter = d.store.idCounter
           /\ e.buffer = d.buffer
           /\ PlotsIn(e) = PlotsIn(d)
  <1> DEFINE e == PltRemove(d, i, upto)
  <1>1. /\ d \in DeviceType /\ d.store \in Store /\ d.history \in Seq(Drawing)
        /\ Len(d.store.pages) = 0 /\ Len(d.history) = 0
    <2>1. Lists(d) /\ d.target.newest < 0
      BY DEF GoodDevice
    <2> QED
      BY <2>1 DEF GoodDevice, DeviceType, Lists
  <1>2. /\ RemovePage(d.store, i, FALSE) = d.store
        /\ HistoryRemove(d.history, i) = d.history
        /\ ~HistoryFails(d.history, i)
    <2>1. ~ValidIndex(d.store, i)
      BY <1>1 DEF ValidIndex
    <2>2. d.history = <<>>
      BY <1>1
    <2> QED
      BY <2>1, <2>2 DEF RemovePage, HistoryRemove, HistoryFails
  <1>3. /\ d.target.newest > -2 /\ ~ (i = d.target.newest /\ i > 0)
        /\ RemovePage(d.store, i, FALSE) \in Store
        /\ HistoryRemove(d.history, i) \in Seq(Drawing)
    <2>1. d.target.newest > -2 /\ ~ (i = d.target.newest /\ i > 0)
      OBVIOUS
    <2> QED
      BY <1>1, <1>2, <2>1
  <1>4. Shrunk(d, e, i)
    BY <1>1, <1>2, <1>3, RemoveShrinks
  <1>5. /\ e \in DeviceType
        /\ e.target.index = d.target.index /\ e.target.newest = d.target.newest - 1
        /\ e.target.void = d.target.void
        /\ e.store = d.store /\ e.history = d.history
        /\ e.buffer = d.buffer /\ e.told = Ids(e.store)
        /\ e.replaying = FALSE
        /\ e.initialized = d.initialized /\ e.displayList = d.displayList
        /\ e.devSize = d.devSize
    BY <1>2, <1>4 DEF Shrunk
  <1> HIDE DEF e
  <1>6. e.target.newest < 0 /\ (e.target.void <=> e.target.index = -1)
    BY <1>5 DEF GoodDevice
  <1>7. /\ GoodDevice(e) /\ OnTarget(e) /\ AllWhole(e)
        /\ PlotsIn(e) = <<>>
    BY <1>1, <1>5, <1>6, EmptyGood
  <1>8. PlotsIn(d) = <<>>
    <2>1. PlotsIn(d) \in Seq(Plot) /\ Len(PlotsIn(d)) = 0
      BY <1>1, PlotsFields
    <2> QED
      BY <2>1
  <1> QED
    BY <1>5, <1>7, <1>8 DEF e

(* A removal of a plot that exists, or of none when there is none.         *)
LEMMA RemoveGood ==
    ASSUME NEW d, GoodDevice(d), d.initialized, Current(d), d.target.newest >= -1,
           NEW i \in Int, i = d.target.newest \/ i \in 0..(d.target.newest - 1),
           NEW upto \in Int
    PROVE  LET e == PltRemove(d, i, upto)
               a == PlotsIn(d) IN
           /\ GoodDevice(e)
           /\ e.store.idCounter = d.store.idCounter
           /\ d.buffer = <<>> /\ upto >= 0 => e.buffer = <<>>
           /\ i = d.target.newest => OnTarget(e)
           /\ i = d.target.newest /\ d.buffer = <<>> /\ AllWhole(d) /\ upto >= MaxOps
              => AllWhole(e)
           /\ PlotsIn(e) = a \/ \E k \in 1..Len(a) : PlotsIn(e) = RemoveAt(a, k)
  <1> DEFINE n == d.target.newest
  <1>1. n \in Int
    BY DeviceAssumption DEF GoodDevice, DeviceType, Target
  <1>2. CASE i = n /\ n > 0
    BY <1>2, RemoveNewestGood
  <1>3. CASE i = n /\ n = 0
    BY <1>3, RemoveOnlyGood
  <1>4. CASE i = n /\ n = -1
    BY <1>4, RemoveNoneGood
  <1>5. CASE i \in 0..(n - 1)
    <2>1. d.target.newest >= 0 /\ i # d.target.newest
      BY <1>1, <1>5
    <2> QED
      BY <1>5, <2>1, RemoveOlderGood
  <1> QED
    BY <1>1, <1>2, <1>3, <1>4, <1>5

----------------------------------------------------------------------------
(* plt_clear, dev_activate and dev_deactivate, dev_close.                  *)

LEMMA RemoveAllStore ==
    ASSUME NEW s \in Store
    PROVE  LET t == RemoveAll(s) IN
             /\ t \in Store /\ Len(t.pages) = 0
             /\ t.idCounter = s.idCounter /\ t.active = s.active
  <1>1. CASE s.pages = <<>>
    BY <1>1 DEF RemoveAll
  <1>2. CASE s.pages # <<>>
    <2> DEFINE none == <<>>
               u == [s EXCEPT !.pages = none]
    <2>0. none \in Seq(Page) /\ Len(none) = 0
      OBVIOUS
    <2>2. RemoveAll(s) = Touch(u, FALSE)
      BY <1>2 DEF RemoveAll
    <2> HIDE DEF none
    <2>1. u \in Store /\ u.pages = none /\ u.idCounter = s.idCounter /\ u.active = s.active
      BY <2>0 DEF Store
    <2> HIDE DEF u
    <2>3. LET t == Touch(u, FALSE) IN
             /\ t \in Store /\ t.pages = u.pages
             /\ t.idCounter = u.idCounter /\ t.active = u.active
      BY <2>1, TouchStore
    <2> QED
      BY <2>0, <2>1, <2>2, <2>3
  <1> QED
    BY <1>1, <1>2

(* The target of a device without pages.                                   *)
LEMMA NoTarget ==
    ASSUME NEW d \in DeviceType
    PROVE  LET e == SetNewest(SetVoid(d), -1) IN
             /\ e \in DeviceType /\ SameData(d, e)
             /\ e.target.index = -1 /\ e.target.newest = -1 /\ e.target.void = TRUE
             /\ e.history = d.history /\ e.replaying = d.replaying
             /\ e.initialized = d.initialized /\ e.displayList = d.displayList
             /\ e.devSize = d.devSize
  <1> DEFINE x == SetVoid(d)
             e == SetNewest(x, -1)
  <1>1. /\ x \in DeviceType /\ SameData(d, x)
        /\ x.target.index = -1 /\ x.target.newest = d.target.newest
        /\ x.target.void = TRUE
        /\ x.history = d.history /\ x.replaying = d.replaying
        /\ x.initialized = d.initialized /\ x.displayList = d.displayList
        /\ x.devSize = d.devSize
    BY SetVoidFields
  <1> HIDE DEF x
  <1>2. -1 \in -2..(MaxPlots - 1)
    BY DeviceAssumption
  <1>3. /\ e \in DeviceType /\ SameData(x, e)
        /\ e.target.index = x.target.index /\ e.target.newest = -1
        /\ e.target.void = x.target.void
        /\ e.history = x.history /\ e.replaying = x.replaying
        /\ e.initialized = x.initialized /\ e.displayList = x.displayList
        /\ e.devSize = x.devSize
    BY <1>1, <1>2, SetNewestFields
  <1> HIDE DEF e
  <1> QED
    BY <1>1, <1>3 DEF SameData, e, x

LEMMA ClearGood ==
    ASSUME NEW d, GoodDevice(d)
    PROVE  LET e == PltClear(d) IN
           /\ GoodDevice(e) /\ OnTarget(e) /\ AllWhole(e)
           /\ e.store.idCounter = d.store.idCounter
           /\ e.buffer = d.buffer
           /\ PlotsIn(e) = <<>>
  <1> DEFINE s == RemoveAll(d.store)
             x == [d EXCEPT !.store = s]
             y == [x EXCEPT !.history = <<>>]
             z == SetNewest(SetVoid(y), -1)
             e == StateChange(z)
  <1>1. d \in DeviceType /\ d.store \in Store /\ d.replaying = FALSE
    BY DEF GoodDevice, DeviceType
  <1>2. /\ s \in Store /\ Len(s.pages) = 0
        /\ s.idCounter = d.store.idCounter /\ s.active = d.store.active
    BY <1>1, RemoveAllStore
  <1>3. PltClear(d) = e
    BY DEF PltClear
  <1> HIDE DEF s
  <1>4. KeepsRest(d, x) /\ x.store = s /\ x.buffer = d.buffer /\ x.told = d.told
    BY <1>1, <1>2, WithStore
  <1> HIDE DEF x
  <1>5. /\ y \in DeviceType /\ SameData(x, y) /\ y.history = <<>>
        /\ y.target = x.target /\ y.replaying = x.replaying
        /\ y.initialized = x.initialized /\ y.displayList = x.displayList
        /\ y.devSize = x.devSize
    <2>1. x \in DeviceType /\ <<>> \in Seq(Drawing)
      BY <1>4 DEF KeepsRest
    <2> QED
      BY <2>1, WithHistory
  <1> HIDE DEF y
  <1>6. /\ z \in DeviceType /\ SameData(y, z)
        /\ z.target.index = -1 /\ z.target.newest = -1 /\ z.target.void = TRUE
        /\ z.history = y.history /\ z.replaying = y.replaying
        /\ z.initialized = y.initialized /\ z.displayList = y.displayList
        /\ z.devSize = y.devSize
    BY <1>5, NoTarget
  <1> HIDE DEF z
  <1>7. KeepsRest(z, e) /\ e.store = z.store /\ e.buffer = z.buffer /\ e.told = Ids(z.store)
    BY <1>6, StateChangeFields
  <1> HIDE DEF e
  <1>8. /\ e \in DeviceType /\ e.store = s /\ e.history = <<>> /\ e.buffer = d.buffer
        /\ e.target.index = -1 /\ e.target.newest = -1 /\ e.target.void = TRUE
        /\ e.told = Ids(e.store) /\ e.replaying = FALSE
        /\ e.displayList = d.displayList /\ e.devSize = d.devSize
    BY <1>1, <1>4, <1>5, <1>6, <1>7 DEF KeepsRest, SameData
  <1>9. /\ Len(e.store.pages) = 0 /\ Len(e.history) = 0 /\ e.target.newest < 0
        /\ e.target.void <=> e.target.index = -1
    BY <1>2, <1>8
  <1>10. /\ GoodDevice(e) /\ OnTarget(e) /\ AllWhole(e)
         /\ PlotsIn(e) = <<>>
    BY <1>8, <1>9, EmptyGood
  <1> QED
    BY <1>2, <1>3, <1>8, <1>10

LEMMA ActivateGood ==
    ASSUME NEW d, GoodDevice(d), NEW b \in BOOLEAN
    PROVE  LET e == StateChange([d EXCEPT !.store = SetActive(@, b)]) IN
           /\ GoodDevice(e)
           /\ OnTarget(d) => OnTarget(e)
           /\ AllWhole(d) => AllWhole(e)
           /\ e.store.idCounter = d.store.idCounter
           /\ e.buffer = d.buffer
           /\ PlotsIn(e) = PlotsIn(d)
  <1> DEFINE s == SetActive(d.store, b)
             x == [d EXCEPT !.store = s]
             e == StateChange(x)
  <1>1. d \in DeviceType /\ d.store \in Store
    BY DEF GoodDevice, DeviceType
  <1>2. s \in Store /\ s.pages = d.store.pages /\ s.idCounter = d.store.idCounter
    BY <1>1 DEF SetActive, Store
  <1>3. StateChange([d EXCEPT !.store = SetActive(@, b)]) = e
    OBVIOUS
  <1> HIDE DEF s
  <1>4. KeepsRest(d, x) /\ x.store = s /\ x.buffer = d.buffer /\ x.told = d.told
    BY <1>1, <1>2, WithStore
  <1> HIDE DEF x
  <1>5. KeepsRest(x, e) /\ e.store = x.store /\ e.buffer = x.buffer /\ e.told = Ids(x.store)
    <2>1. x \in DeviceType
      BY <1>4 DEF KeepsRest
    <2> QED
      BY <2>1, StateChangeFields
  <1> HIDE DEF e
  <1>6. /\ KeepsRest(d, e) /\ e \in DeviceType /\ e.store \in Store
        /\ e.store.pages = d.store.pages /\ e.store.idCounter = d.store.idCounter
        /\ e.buffer = d.buffer /\ e.told = Ids(e.store)
    BY <1>2, <1>4, <1>5 DEF KeepsRest
  <1>7. \A n : OpsIn(e, n) = OpsIn(d, n)
    BY <1>6 DEF KeepsRest, OpsIn
  <1>8. Told(e)
    BY <1>6, JustTold
  <1>9. /\ Lists(d) => Lists(e)
        /\ OpenPage(d) => OpenPage(e)
    BY <1>6 DEF KeepsRest, Lists, OpenPage
  <1>10. GoodDevice(e)
    BY <1>6, <1>8, <1>9 DEF GoodDevice, KeepsRest
  <1>11. PlotsIn(e) = PlotsIn(d) /\ (OnTarget(d) => OnTarget(e)) /\ (AllWhole(d) => AllWhole(e))
    BY <1>6, <1>7 DEF PlotsIn, OnTarget, AllWhole, KeepsRest
  <1> QED
    BY <1>3, <1>6, <1>10, <1>11

LEMMA CloseGood ==
    ASSUME NEW d, GoodDevice(d)
    PROVE  LET e == SetNewest(SetVoid([d EXCEPT !.initialized = FALSE, !.history = <<>>]), -1) IN
           /\ GoodDevice(e) /\ OnTarget(e) /\ AllWhole(e)
           /\ e.store.idCounter = d.store.idCounter
           /\ e.buffer = d.buffer
           /\ PlotsIn(e) = <<>>
  <1> DEFINE x == [d EXCEPT !.initialized = FALSE]
             y == [x EXCEPT !.history = <<>>]
             e == SetNewest(SetVoid(y), -1)
  <1>1. d \in DeviceType /\ d.store \in Store /\ d.replaying = FALSE
    BY DEF GoodDevice, DeviceType
  <1>2. [d EXCEPT !.initialized = FALSE, !.history = <<>>] = y
    OBVIOUS
  <1>3. /\ x \in DeviceType /\ SameData(d, x) /\ x.initialized = FALSE
        /\ x.replaying = d.replaying /\ x.displayList = d.displayList
        /\ x.devSize = d.devSize
    BY <1>1 DEF DeviceType, SameData
  <1> HIDE DEF x
  <1>4. /\ y \in DeviceType /\ SameData(x, y) /\ y.history = <<>>
        /\ y.target = x.target /\ y.replaying = x.replaying
        /\ y.initialized = x.initialized /\ y.displayList = x.displayList
        /\ y.devSize = x.devSize
    <2>1. <<>> \in Seq(Drawing)
      OBVIOUS
    <2> QED
      BY <1>3, <2>1, WithHistory
  <1> HIDE DEF y
  <1>5. /\ e \in DeviceType /\ SameData(y, e)
        /\ e.target.index = -1 /\ e.target.newest = -1 /\ e.target.void = TRUE
        /\ e.history = y.history /\ e.replaying = y.replaying
        /\ e.initialized = y.initialized /\ e.displayList = y.displayList
        /\ e.devSize = y.devSize
    BY <1>4, NoTarget
  <1> HIDE DEF e
  <1>6. /\ e \in DeviceType /\ e.initialized = FALSE /\ e.store = d.store
        /\ e.buffer = d.buffer /\ e.replaying = FALSE
        /\ e.displayList = d.displayList /\ e.devSize = d.devSize
        /\ e.target.index = -1 /\ e.target.void = TRUE
    BY <1>1, <1>3, <1>4, <1>5 DEF SameData
  <1>7. GoodDevice(e)
    BY <1>6 DEF GoodDevice
  <1>8. OnTarget(e) /\ AllWhole(e) /\ PlotsIn(e) = <<>>
    BY <1>6 DEF OnTarget, AllWhole, PlotsIn
  <1> QED
    BY <1>2, <1>6, <1>7, <1>8 DEF e

----------------------------------------------------------------------------
(* The steps.                                                              *)

LEMMA FailureCount ==
    ASSUME IInv, Succeeds \/ Fails
    PROVE  /\ failures' \in 0..MaxFailures
           /\ failures' = 0 => failures = 0 /\ ~Fails
  <1>1. failures \in 0..MaxFailures /\ MaxFailures \in Nat
    BY DeviceAssumption DEF IInv, TypeOK
  <1> QED
    BY <1>1 DEF Succeeds, Fails

(* A step that becomes a good device, the history bits along with it.      *)
LEMMA StepTo ==
    ASSUME IInv, Succeeds \/ Fails, shifted' \in BOOLEAN,
           NEW e, Becomes(e), GoodDevice(e), Undisturbed(e, failures', shifted')
    PROVE  /\ IInv'
           /\ Plots' = PlotsIn(e) /\ store'.idCounter = e.store.idCounter
           /\ Plots = PlotsIn(Device) /\ store = Device.store
  <1>1. failures' \in 0..MaxFailures
    BY FailureCount
  <1>2. IInv' /\ Plots' = PlotsIn(e) /\ store'.idCounter = e.store.idCounter
    BY <1>1, NextDevice
  <1> QED
    BY <1>2, PlotsOfDevice, DeviceFields

(* What every step does to the list of plots.                              *)
SamePlots == Plots' = Plots /\ store'.idCounter = store.idCounter

LEMMA NewPlotStep ==
    ASSUME IInv, NewPlot
    PROVE  /\ IInv'
           /\ Plots' = Append(Plots, [id |-> store.idCounter, ops |-> 0])
           /\ store'.idCounter = store.idCounter + 1
  <1> DEFINE d == Device
             l == [plot |-> d.store.idCounter, ops |-> 0]
             e == [NewPagePlot(d, d.displayList) EXCEPT !.displayList = l]
  <1>1. GoodDevice(d) /\ Undisturbed(d, failures, shifted)
    BY OfDevice
  <1>2. /\ d.initialized /\ d.store.idCounter < MaxPlots
        /\ d.displayList = displayList /\ d.store = store /\ ~replaying
        /\ Succeeds /\ shifted' = shifted /\ shifted \in BOOLEAN /\ failures' = failures
    BY DeviceFields DEF NewPlot, Selected, Succeeds, IInv, TypeOK
  <1>3. Becomes(e)
    BY <1>2 DEF NewPlot
  <1>4. /\ GoodDevice(e) /\ OnTarget(e)
        /\ PlotsIn(e) = Append(PlotsIn(d), [id |-> d.store.idCounter, ops |-> 0])
        /\ e.store.idCounter = d.store.idCounter + 1
        /\ e.buffer = d.buffer
        /\ AllWhole(d) => AllWhole(e)
    BY <1>1, <1>2, NewPlotGood
  <1> HIDE DEF d, e
  <1>5. Undisturbed(e, failures', shifted')
    BY <1>1, <1>2, <1>4 DEF Undisturbed
  <1> QED
    BY <1>2, <1>3, <1>4, <1>5, StepTo DEF d

LEMMA DrawStep ==
    ASSUME IInv, Draw
    PROVE  /\ IInv'
           /\ Plots = <<>> => Plots' = Plots
           /\ Plots # <<>> => Plots' = [Plots EXCEPT ![Len(Plots)].ops = @ + 1]
           /\ store'.idCounter = store.idCounter
  <1> DEFINE d == Device
             e == [Operation(d, NextOp(d)) EXCEPT !.displayList.ops = @ + 1]
             a == PlotsIn(d)
  <1>1. GoodDevice(d) /\ Undisturbed(d, failures, shifted)
    BY OfDevice
  <1>2. /\ d.initialized /\ d.displayList # NoDrawing /\ d.displayList.ops < MaxOps
        /\ d.displayList = displayList /\ d.store = store /\ d.devSize = devSize
        /\ Succeeds /\ shifted' = shifted /\ shifted \in BOOLEAN /\ failures' = failures
    BY DeviceFields DEF Draw, Selected, Succeeds, IInv, TypeOK
  <1>3. Becomes(e)
    <2>1. NextOp(d) = [plot |-> displayList.plot, n |-> displayList.ops + 1, size |-> devSize]
      BY <1>2 DEF NextOp
    <2> QED
      BY <2>1 DEF Draw
  <1>4. /\ GoodDevice(e)
        /\ OnTarget(d) => OnTarget(e)
        /\ e.store.idCounter = d.store.idCounter
        /\ d.buffer = <<>> => e.buffer = <<>>
        /\ OnTarget(d) /\ d.buffer = <<>> /\ AllWhole(d) => AllWhole(e)
        /\ a = <<>> => PlotsIn(e) = a
        /\ a # <<>> => PlotsIn(e) = [a EXCEPT ![Len(a)].ops = @ + 1]
    BY <1>1, <1>2, DrawGood
  <1> HIDE DEF d, e, a
  <1>5. Undisturbed(e, failures', shifted')
    BY <1>1, <1>2, <1>4 DEF Undisturbed
  <1>6. /\ IInv'
        /\ Plots' = PlotsIn(e) /\ store'.idCounter = e.store.idCounter
        /\ Plots = a /\ store = d.store
    BY <1>2, <1>3, <1>4, <1>5, StepTo DEF d, a
  <1> QED
    BY <1>4, <1>6

LEMMA DrawInterruptedStep ==
    ASSUME IInv, DrawInterrupted
    PROVE  IInv' /\ SamePlots
  <1> DEFINE d == Device
             e == ClipAndPut(d, [plot |-> d.displayList.plot, n |-> 0, size |-> d.devSize])
  <1>1. GoodDevice(d) /\ Undisturbed(d, failures, shifted)
    BY OfDevice
  <1>2. /\ d.initialized /\ d.displayList # NoDrawing
        /\ d.displayList = displayList /\ d.devSize = devSize
        /\ Fails /\ shifted' = shifted /\ shifted \in BOOLEAN
    BY DeviceFields DEF DrawInterrupted, Selected, IInv, TypeOK
  <1>3. Becomes(e)
    BY <1>2 DEF DrawInterrupted
  <1>4. /\ GoodDevice(e)
        /\ OnTarget(d) => OnTarget(e)
        /\ e.store.idCounter = d.store.idCounter
        /\ PlotsIn(e) = PlotsIn(d)
    BY <1>1, <1>2, InterruptedGood
  <1> HIDE DEF d, e
  <1>5. failures' # 0
    BY <1>2, FailureCount
  <1>6. Undisturbed(e, failures', shifted')
    BY <1>1, <1>2, <1>4, <1>5 DEF Undisturbed
  <1>7. /\ IInv'
        /\ Plots' = PlotsIn(e) /\ store'.idCounter = e.store.idCounter
        /\ Plots = PlotsIn(d) /\ store = d.store
    BY <1>2, <1>3, <1>4, <1>6, StepTo DEF d
  <1> QED
    BY <1>4, <1>7 DEF SamePlots

(* Methods are called while the device is the current one.                 *)
LEMMA CallsCurrent ==
    ASSUME OrdinaryUse, Calls
    PROVE  Device.initialized /\ Current(Device)
  BY DeviceFields DEF OrdinaryUse, Calls

LEMMA RenderStep ==
    ASSUME OrdinaryUse, IInv,
           NEW i \in -1..(MaxPlots - 1), NEW size \in RenderSize,
           NEW upto \in Upto, NEW upto2 \in 0..MaxOps, Render(i, size, upto, upto2)
    PROVE  IInv' /\ SamePlots
  <1> DEFINE d == Device
             e == Prerender(d, Pos(d.store, i) - 1, size, upto, upto2)
             last == IF upto = MaxOps THEN upto2 ELSE upto
  <1>1. GoodDevice(d) /\ Undisturbed(d, failures, shifted)
    BY OfDevice
  <1>2. /\ d.initialized /\ Current(d) /\ d.store = store
        /\ ValidIndex(d.store, i) /\ ReplaysAll(last)
        /\ shifted' = shifted /\ shifted \in BOOLEAN
    BY CallsCurrent, DeviceFields DEF Render, IInv, TypeOK
  <1>3. i \in Int /\ size \in Size /\ upto \in Int /\ upto2 \in Int /\ MaxOps \in Nat
    BY DeviceAssumption DEF Upto, Size
  <1>4. Becomes(e)
    BY <1>2 DEF Render
  <1>5. /\ GoodDevice(e) /\ OnTarget(e)
        /\ PlotsIn(e) = PlotsIn(d) /\ e.store.idCounter = d.store.idCounter
        /\ d.buffer = <<>> /\ upto >= 0 => e.buffer = <<>>
        /\ d.buffer = <<>> /\ AllWhole(d) /\ upto >= MaxOps => AllWhole(e)
    BY <1>1, <1>2, <1>3, RenderGood
  <1> HIDE DEF d, e
  <1>6. (Succeeds \/ Fails) /\ (~Fails => upto >= MaxOps)
    BY <1>2, <1>3 DEF ReplaysAll
  <1> HIDE DEF last
  <1>7. failures' = 0 => failures = 0 /\ upto >= MaxOps
    BY <1>6, FailureCount
  <1>8. Undisturbed(e, failures', shifted')
    BY <1>1, <1>2, <1>3, <1>5, <1>7 DEF Undisturbed
  <1>9. /\ IInv'
        /\ Plots' = PlotsIn(e) /\ store'.idCounter = e.store.idCounter
        /\ Plots = PlotsIn(d) /\ store = d.store
    BY <1>2, <1>4, <1>5, <1>6, <1>8, StepTo DEF d
  <1> QED
    BY <1>5, <1>9 DEF SamePlots

LEMMA RemovePlotStep ==
    ASSUME OrdinaryUse, IInv,
           NEW i \in -2..MaxPlots, NEW upto \in Upto, RemovePlot(i, upto)
    PROVE  /\ IInv'
           /\ Plots' = Plots \/ \E n \in 1..Len(Plots) : Plots' = RemoveAt(Plots, n)
           /\ store'.idCounter = store.idCounter
  <1> DEFINE d == Device
             j == IF i = -1 THEN d.target.newest ELSE i
             e == PltRemove(d, j, upto)
             a == PlotsIn(d)
  <1>1. GoodDevice(d) /\ Undisturbed(d, failures, shifted)
    BY OfDevice
  <1>2. /\ d.initialized /\ Current(d) /\ d.target = target
        /\ d.target.newest >= -1 /\ ReplaysAll(upto)
        /\ Kind(i) \in {"newest", "older"} /\ shifted \in BOOLEAN
        /\ shifted' = (shifted \/ Kind(i) = "older")
    BY CallsCurrent, DeviceFields DEF RemovePlot, OrdinaryUse, IInv, TypeOK
  <1>3. i \in Int /\ upto \in Int /\ upto <= MaxOps /\ MaxOps \in Nat /\ d.target.newest \in Int
    <2>1. d.target.newest \in Int
      BY <1>1, DeviceAssumption DEF GoodDevice, DeviceType, Target
    <2> QED
      BY <2>1, DeviceAssumption DEF Upto
  <1>4. Becomes(e)
    BY <1>2 DEF RemovePlot
  <1> HIDE DEF d
  <1>5. /\ j \in Int
        /\ j = d.target.newest \/ j \in 0..(d.target.newest - 1)
        /\ j # d.target.newest => shifted' = TRUE
    <2>1. CASE Kind(i) = "newest"
      <3>1. i = -1 \/ i = d.target.newest
        BY <1>2, <2>1 DEF Kind
      <3> QED
        BY <1>3, <3>1
    <2>2. CASE Kind(i) = "older"
      <3>1. ~ (i = -1 \/ i = d.target.newest) /\ ~ (i < 0) /\ i < d.target.newest
        BY <1>2, <2>2 DEF Kind
      <3>2. j = i /\ i \in 0..(d.target.newest - 1)
        BY <1>3, <3>1
      <3>3. shifted' = TRUE
        BY <1>2, <2>2
      <3> QED
        BY <1>3, <3>2, <3>3
    <2> QED
      BY <1>2, <2>1, <2>2
  <1>6. /\ GoodDevice(e)
        /\ e.store.idCounter = d.store.idCounter
        /\ d.buffer = <<>> /\ upto >= 0 => e.buffer = <<>>
        /\ j = d.target.newest => OnTarget(e)
        /\ j = d.target.newest /\ d.buffer = <<>> /\ AllWhole(d) /\ upto >= MaxOps
           => AllWhole(e)
        /\ PlotsIn(e) = a \/ \E k \in 1..Len(a) : PlotsIn(e) = RemoveAt(a, k)
    <2> HIDE DEF j
    <2> QED
      BY <1>1, <1>2, <1>3, <1>5, RemoveGood
  <1> HIDE DEF e, j, a
  <1>7. (Succeeds \/ Fails) /\ (~Fails => upto >= MaxOps)
    BY <1>2, <1>3 DEF ReplaysAll
  <1>8. failures' = 0 => failures = 0 /\ upto >= MaxOps
    BY <1>7, FailureCount
  <1>9. shifted' \in BOOLEAN /\ (~shifted' => ~shifted /\ j = d.target.newest)
    BY <1>2, <1>5
  <1>10. Undisturbed(e, failures', shifted')
    BY <1>1, <1>3, <1>6, <1>8, <1>9 DEF Undisturbed
  <1>11. /\ IInv'
         /\ Plots' = PlotsIn(e) /\ store'.idCounter = e.store.idCounter
         /\ Plots = a /\ store = d.store
    BY <1>4, <1>6, <1>7, <1>9, <1>10, StepTo DEF d, a
  <1> QED
    BY <1>6, <1>11

LEMMA ClearStep ==
    ASSUME IInv, Clear
    PROVE  IInv' /\ Plots' = <<>> /\ store'.idCounter = store.idCounter
  <1> DEFINE d == Device
             e == PltClear(d)
  <1>1. GoodDevice(d) /\ Undisturbed(d, failures, shifted)
    BY OfDevice
  <1>2. Becomes(e) /\ Succeeds /\ shifted' = shifted /\ shifted \in BOOLEAN /\ failures' = failures
    BY DEF Clear, Succeeds, IInv, TypeOK
  <1>3. /\ GoodDevice(e) /\ OnTarget(e) /\ AllWhole(e)
        /\ e.store.idCounter = d.store.idCounter
        /\ e.buffer = d.buffer
        /\ PlotsIn(e) = <<>>
    BY <1>1, ClearGood
  <1> HIDE DEF d, e
  <1>4. Undisturbed(e, failures', shifted')
    BY <1>1, <1>2, <1>3 DEF Undisturbed
  <1> QED
    BY <1>2, <1>3, <1>4, StepTo DEF d

LEMMA ActivateStep ==
    ASSUME IInv, NEW b \in BOOLEAN, Activate(b)
    PROVE  IInv' /\ SamePlots
  <1> DEFINE d == Device
             e == StateChange([d EXCEPT !.store = SetActive(@, b)])
  <1>1. GoodDevice(d) /\ Undisturbed(d, failures, shifted)
    BY OfDevice
  <1>2. Becomes(e) /\ Succeeds /\ shifted' = shifted /\ shifted \in BOOLEAN /\ failures' = failures
    BY DEF Activate, Succeeds, IInv, TypeOK
  <1>3. /\ GoodDevice(e)
        /\ OnTarget(d) => OnTarget(e)
        /\ AllWhole(d) => AllWhole(e)
        /\ e.store.idCounter = d.store.idCounter
        /\ e.buffer = d.buffer
        /\ PlotsIn(e) = PlotsIn(d)
    BY <1>1, ActivateGood
  <1> HIDE DEF d, e
  <1>4. Undisturbed(e, failures', shifted')
    BY <1>1, <1>2, <1>3 DEF Undisturbed
  <1>5. /\ IInv'
        /\ Plots' = PlotsIn(e) /\ store'.idCounter = e.store.idCounter
        /\ Plots = PlotsIn(d) /\ store = d.store
    BY <1>2, <1>3, <1>4, StepTo DEF d
  <1> QED
    BY <1>3, <1>5 DEF SamePlots

LEMMA CloseStep ==
    ASSUME IInv, Close
    PROVE  IInv' /\ Plots' = <<>> /\ store'.idCounter = store.idCounter
  <1> DEFINE d == Device
             e == SetNewest(SetVoid([d EXCEPT !.initialized = FALSE, !.history = <<>>]), -1)
  <1>1. GoodDevice(d) /\ Undisturbed(d, failures, shifted)
    BY OfDevice
  <1>2. Becomes(e) /\ Succeeds /\ shifted' = shifted /\ shifted \in BOOLEAN /\ failures' = failures
    BY DEF Close, Succeeds, IInv, TypeOK
  <1>3. /\ GoodDevice(e) /\ OnTarget(e) /\ AllWhole(e)
        /\ e.store.idCounter = d.store.idCounter
        /\ e.buffer = d.buffer
        /\ PlotsIn(e) = <<>>
    BY <1>1, CloseGood
  <1> HIDE DEF d, e
  <1>4. Undisturbed(e, failures', shifted')
    BY <1>1, <1>2, <1>3 DEF Undisturbed
  <1> QED
    BY <1>2, <1>3, <1>4, StepTo DEF d

LEMMA InitIInv ==
    ASSUME OrdinaryUse, Init
    PROVE  IInv /\ Plots = <<>> /\ store.idCounter = 0
  <1> DEFINE d == Device
  <1>1. /\ d.store = EmptyStore /\ d.history = <<>> /\ d.buffer = <<>> /\ d.told = <<>>
        /\ d.target = [index |-> -1, newest |-> -1, void |-> TRUE]
        /\ d.replaying = FALSE /\ d.initialized = TRUE
        /\ d.displayList = NoDrawing /\ d.devSize = StartSize
    BY DeviceFields DEF Init
  <1>2. /\ EmptyStore \in Store /\ EmptyStore.pages = <<>> /\ EmptyStore.idCounter = 0
        /\ Len(EmptyStore.pages) = 0
    BY DeviceAssumption, CounterAssumption DEF EmptyStore, Store
  <1>3. d \in DeviceType
    <2>1. NoDrawing \in Drawing
      BY DeviceAssumption DEF NoDrawing, Drawing
    <2>2. StartSize \in Size
      BY DeviceAssumption DEF Size
    <2>3. [index |-> -1, newest |-> -1, void |-> TRUE] \in Target
      BY DeviceAssumption DEF Target
    <2>4. /\ store \in Store /\ target \in Target
          /\ displayList \in Drawing /\ devSize \in Size
      BY <1>2, <2>1, <2>2, <2>3 DEF Init
    <2>5. history \in Seq(Drawing) /\ buffer \in Seq(DrawnOp) /\ told \in Seq(0..(MaxPlots - 1))
      BY DEF Init
    <2>6. replaying \in BOOLEAN /\ initialized \in BOOLEAN
      BY DEF Init
    <2> QED
      BY <2>4, <2>5, <2>6 DEF Device, DeviceType
  <1> HIDE DEF d
  <1>4. Lists(d)
    BY <1>1, <1>2 DEF Lists
  <1>5. Told(d)
    <2>1. 1..Len(d.store.pages) = {}
      BY <1>1, <1>2
    <2>2. ToSet(d.told) = {}
      BY <1>1 DEF ToSet
    <2> QED
      BY <2>1, <2>2 DEF Told
  <1>6. Fit(d.devSize) = d.devSize
    BY <1>1 DEF OrdinaryUse
  <1>7. GoodDevice(d) /\ OnTarget(d) /\ AllWhole(d)
    <2>1. 1..Len(d.store.pages) = {} /\ 1..Len(d.buffer) = {}
      BY <1>1, <1>2
    <2>2. ~ (d.target.newest >= 0) /\ Len(d.store.pages) <= d.store.idCounter
      BY <1>1, <1>2
    <2> QED
      BY <1>1, <1>3, <1>4, <1>5, <1>6, <2>1, <2>2 DEF GoodDevice, OnTarget, AllWhole
  <1>8. Undisturbed(d, failures, shifted)
    BY <1>1, <1>7 DEF Undisturbed
  <1>9. failures \in 0..MaxFailures /\ shifted \in BOOLEAN
    <2>1. failures \in 0..MaxFailures
      BY DeviceAssumption DEF Init
    <2>2. shifted \in BOOLEAN
      BY DEF Init
    <2> QED
      BY <2>1, <2>2
  <1>10. IInv
    BY <1>7, <1>8, <1>9, ToDevice DEF d
  <1>11. PlotsIn(d) = <<>>
    <2>1. PlotsIn(d) \in Seq(Plot) /\ Len(PlotsIn(d)) = 0
      BY <1>1, <1>2, <1>3, PlotsFields
    <2> QED
      BY <2>1
  <1> QED
    BY <1>2, <1>10, <1>11, PlotsOfDevice DEF Init, d

(* What is done to the device is done to the list of plots, or nothing is. *)
LEMMA StepIInv ==
    ASSUME OrdinaryUse, IInv, [Next]_vars
    PROVE  IInv' /\ [PlotListOf!Next]_(PlotListOf!vars)
  <1>1. CASE NewPlot
    <2>1. /\ IInv'
          /\ Plots' = Append(Plots, [id |-> store.idCounter, ops |-> 0])
          /\ store'.idCounter = store.idCounter + 1
      BY <1>1, NewPlotStep
    <2>2. PlotListOf!NewPlot
      BY <2>1 DEF PlotListOf!NewPlot
    <2> QED
      BY <2>1, <2>2 DEF PlotListOf!Next
  <1>2. CASE Draw
    <2>1. /\ IInv'
          /\ Plots = <<>> => Plots' = Plots
          /\ Plots # <<>> => Plots' = [Plots EXCEPT ![Len(Plots)].ops = @ + 1]
          /\ store'.idCounter = store.idCounter
      BY <1>2, DrawStep
    <2>2. CASE Plots = <<>>
      BY <2>1, <2>2 DEF PlotListOf!vars
    <2>3. CASE Plots # <<>>
      <3>1. PlotListOf!Draw
        BY <2>1, <2>3 DEF PlotListOf!Draw
      <3> QED
        BY <2>1, <3>1 DEF PlotListOf!Next
    <2> QED
      BY <2>2, <2>3
  <1>3. ASSUME IInv', SamePlots
        PROVE  IInv' /\ [PlotListOf!Next]_(PlotListOf!vars)
    BY <1>3 DEF SamePlots, PlotListOf!vars
  <1>4. CASE DrawInterrupted
    BY <1>3, <1>4, DrawInterruptedStep
  <1>5. ASSUME NEW i \in -1..(MaxPlots - 1), NEW size \in RenderSize,
               NEW upto \in Upto, NEW upto2 \in 0..MaxOps, Render(i, size, upto, upto2)
        PROVE  IInv' /\ [PlotListOf!Next]_(PlotListOf!vars)
    BY <1>3, <1>5, RenderStep
  <1>6. ASSUME NEW i \in -2..MaxPlots, NEW upto \in Upto, RemovePlot(i, upto)
        PROVE  IInv' /\ [PlotListOf!Next]_(PlotListOf!vars)
    <2>1. /\ IInv'
          /\ Plots' = Plots \/ \E n \in 1..Len(Plots) : Plots' = RemoveAt(Plots, n)
          /\ store'.idCounter = store.idCounter
      BY <1>6, RemovePlotStep
    <2>2. CASE Plots' = Plots
      BY <2>1, <2>2 DEF PlotListOf!vars
    <2>3. CASE \E n \in 1..Len(Plots) : Plots' = RemoveAt(Plots, n)
      <3>1. PICK n \in 1..Len(Plots) : Plots' = RemoveAt(Plots, n)
        BY <2>3
      <3>2. PlotListOf!RemovePlot(n)
        BY <2>1, <3>1 DEF PlotListOf!RemovePlot, PlotListOf!RemoveAt, RemoveAt
      <3> QED
        BY <2>1, <3>2 DEF PlotListOf!Next
    <2> QED
      BY <2>1, <2>2, <2>3
  <1>7. ASSUME IInv', Plots' = <<>>, store'.idCounter = store.idCounter
        PROVE  IInv' /\ [PlotListOf!Next]_(PlotListOf!vars)
    <2>1. PlotListOf!Clear
      BY <1>7 DEF PlotListOf!Clear
    <2> QED
      BY <1>7, <2>1 DEF PlotListOf!Next
  <1>8. CASE Clear
    BY <1>7, <1>8, ClearStep
  <1>9. ASSUME NEW b \in BOOLEAN, Activate(b)
        PROVE  IInv' /\ [PlotListOf!Next]_(PlotListOf!vars)
    BY <1>3, <1>9, ActivateStep
  <1>10. CASE Close
    BY <1>7, <1>10, CloseStep
  <1>11. CASE UNCHANGED vars
    <2>1. Device' = Device /\ failures' = failures /\ shifted' = shifted
      BY <1>11 DEF vars, device, Device
    <2>2. GoodDevice(Device) /\ Undisturbed(Device, failures, shifted)
      BY OfDevice
    <2>3. Becomes(Device)
      BY <1>11, DeviceFields DEF Becomes, vars, device
    <2>4. /\ IInv'
          /\ Plots' = PlotsIn(Device) /\ store'.idCounter = Device.store.idCounter
          /\ Plots = PlotsIn(Device) /\ store = Device.store
      BY <2>1, <2>2, <2>3, StepTo DEF Succeeds, IInv, TypeOK
    <2> QED
      BY <1>3, <2>4 DEF SamePlots
  <1> QED
    BY <1>1, <1>2, <1>4, <1>5, <1>6, <1>8, <1>9, <1>10, <1>11 DEF Next

----------------------------------------------------------------------------
(* The theorems.                                                           *)

(* A device that is used as R uses it keeps its store, its history, its    *)
(* target, its buffer and R's display list in step: every method and every *)
(* callback of unigd_dev.cpp keeps the inductive invariant.                *)
THEOREM DeviceIInv == ASSUME OrdinaryUse PROVE Spec => []IInv
  <1>1. Init => IInv
    BY InitIInv
  <1>2. IInv /\ [Next]_vars => IInv'
    BY StepIInv
  <1> QED
    BY <1>1, <1>2, PTL DEF Spec

(* Page n, entry n of the history and, at the end, R's display list are of *)
(* the same plot: every index that plt_render and plt_remove use finds it. *)
THEOREM DeviceAligned == ASSUME OrdinaryUse PROVE Spec => []Aligned
  <1>1. IInv => Aligned
    BY DEF IInv
  <1> QED
    BY <1>1, DeviceIInv, PTL

(* dev_put and dev_mode never add an operation to the page of another      *)
(* plot, twice to one page, or out of order.                               *)
THEOREM DeviceOwnDrawing == ASSUME OrdinaryUse PROVE Spec => []OwnDrawing
  <1>1. IInv => OwnDrawing
    BY DEF IInv
  <1> QED
    BY <1>1, DeviceIInv, PTL

(* Until something fails or an older page is removed, rendering one page   *)
(* leaves no other incomplete: plt_prerender puts the open drawing back.   *)
THEOREM DevicePagesComplete == ASSUME OrdinaryUse PROVE Spec => []PagesComplete
  <1>1. IInv => PagesComplete
    BY DEF IInv
  <1> QED
    BY <1>1, DeviceIInv, PTL

(* However pages are resized and removed, R's graphics engine has the size *)
(* of the open page when it lays out the next operation                    *)
(* (resize_device_to_page).                                                *)
THEOREM DeviceSize == ASSUME OrdinaryUse PROVE Spec => []DeviceFits
  <1>1. IInv => DeviceFits
    BY DEF IInv
  <1> QED
    BY <1>1, DeviceIInv, PTL

(* No page keeps an operation that was laid out for a size it had before.  *)
THEOREM DeviceLaidOut == ASSUME OrdinaryUse PROVE Spec => []LaidOut
  <1>1. IInv => LaidOut
    BY DEF IInv
  <1> QED
    BY <1>1, DeviceIInv, PTL

(* The clip that add_dc gives to a buffered operation is the one dev_clip  *)
(* set when it was drawn.                                                  *)
THEOREM DeviceClipHonoured == ASSUME OrdinaryUse PROVE Spec => []ClipHonoured
  <1>1. IInv => ClipHonoured
    BY DEF IInv
  <1> QED
    BY <1>1, DeviceIInv, PTL

(* No plot is drawn, and none removed, without a state_change to the       *)
(* client.                                                                 *)
THEOREM DeviceTold == ASSUME OrdinaryUse PROVE Spec => []ToldOfDrawing
  <1>1. IInv => ToldOfDrawing
    BY DEF IInv
  <1> QED
    BY <1>1, DeviceIInv, PTL

(* With its page store, its history and R's display list, unigd_device     *)
(* implements a list of plots: a drawing callback adds to the newest one,  *)
(* a removal takes one out, and rendering is invisible.                    *)
THEOREM DeviceRefinement == ASSUME OrdinaryUse PROVE Spec => ImplementsPlotList
  <1>1. Init => PlotListOf!Init
    BY InitIInv DEF PlotListOf!Init
  <1>2. IInv /\ [Next]_vars => [PlotListOf!Next]_(PlotListOf!vars)
    BY StepIInv
  <1> QED
    BY <1>1, <1>2, DeviceIInv, PTL DEF Spec, ImplementsPlotList, PlotListOf!Spec
-----------------------------------------------------------------------------
(* The calls that clients make.  A removal that comes too late leaves a    *)
(* device of which IInv is not true, so there are two invariants.          *)
(* CallsInv is about the calls and needs no more of the device than that   *)
(* its operators keep the pages, in whatever state it is.  InTimeInv says  *)
(* that the device is as UnigdDevice has it as long as no removal came too *)
(* late.                                                                   *)

ShapedPage(p) == p = [id |-> p.id, size |-> p.size, dcs |-> p.dcs, cps |-> p.cps]

ShapedStore(s) ==
    /\ s = [pages |-> s.pages, idCounter |-> s.idCounter, upid |-> s.upid,
            active |-> s.active]
    /\ s.idCounter \in Int
    /\ Len(s.pages) \in Nat /\ s.pages = [n \in 1..Len(s.pages) |-> s.pages[n]]
    /\ \A n \in 1..Len(s.pages) : ShapedPage(s.pages[n])

ShapedTarget == [index : Int, newest : Int, void : BOOLEAN]

Recording == [plot : Int, ops : Nat]

(* A device in whatever state calls that come too late have left it.       *)
Shaped(d) ==
    /\ d = [store |-> d.store, target |-> d.target, history |-> d.history,
            buffer |-> d.buffer, replaying |-> d.replaying,
            initialized |-> d.initialized, displayList |-> d.displayList,
            devSize |-> d.devSize, told |-> d.told]
    /\ ShapedStore(d.store) /\ d.target \in ShapedTarget
    /\ d.history \in Seq(Recording) /\ d.displayList \in Recording

(* The pages of s, with their sizes, are those of t.                       *)
SamePages(s, t) ==
    /\ ShapedStore(t)
    /\ t.idCounter = s.idCounter /\ t.active = s.active
    /\ Len(t.pages) = Len(s.pages)
    /\ \A n \in 1..Len(s.pages) :
          t.pages[n].id = s.pages[n].id /\ t.pages[n].size = s.pages[n].size

Keeps(d, e) ==
    Shaped(e) /\ SamePages(d.store, e.store) /\ e.initialized = d.initialized

----------------------------------------------------------------------------
(* Pages and stores.                                                       *)

LEMMA ShapedClip ==
    ASSUME NEW p, ShapedPage(p), NEW rect
    PROVE  LET q == WithClip(p, rect) IN
             ShapedPage(q) /\ q.id = p.id /\ q.size = p.size
  <1>1. ASSUME NEW a
        PROVE  LET q == [p EXCEPT !.cps = a] IN
                 ShapedPage(q) /\ q.id = p.id /\ q.size = p.size
    BY DEF ShapedPage
  <1> QED
    BY <1>1 DEF WithClip

LEMMA ShapedDcs ==
    ASSUME NEW p, ShapedPage(p), NEW ops
    PROVE  LET q == WithDcs(p, ops) IN
             ShapedPage(q) /\ q.id = p.id /\ q.size = p.size
  <1>1. ASSUME NEW a
        PROVE  LET q == [p EXCEPT !.dcs = a] IN
                 ShapedPage(q) /\ q.id = p.id /\ q.size = p.size
    BY DEF ShapedPage
  <1> QED
    BY <1>1 DEF WithDcs

LEMMA ShapedCleared ==
    ASSUME NEW p, ShapedPage(p)
    PROVE  LET q == Cleared(p) IN ShapedPage(q) /\ q.id = p.id /\ q.size = p.size
  <1> DEFINE d == [p EXCEPT !.dcs = <<>>]
             c == [d EXCEPT !.cps = <<>>]
             q == WithClip(c, Full(p.size))
  <1>1. ShapedPage(d) /\ d.id = p.id /\ d.size = p.size
    BY DEF ShapedPage
  <1>2. Cleared(p) = q
    BY DEF Cleared
  <1> HIDE DEF d
  <1>3. ShapedPage(c) /\ c.id = d.id /\ c.size = d.size
    BY <1>1 DEF ShapedPage
  <1> HIDE DEF c
  <1>4. ShapedPage(q) /\ q.id = c.id /\ q.size = c.size
    BY <1>3, ShapedClip, Zenon
  <1> QED
    BY <1>1, <1>2, <1>3, <1>4, Zenon

LEMMA ShapedResized ==
    ASSUME NEW p, ShapedPage(p), NEW z
    PROVE  LET q == Cleared([p EXCEPT !.size = z]) IN
             ShapedPage(q) /\ q.id = p.id /\ q.size = z
  <1> DEFINE r == [p EXCEPT !.size = z]
             q == Cleared(r)
  <1>1. ShapedPage(r) /\ r.id = p.id /\ r.size = z
    BY DEF ShapedPage
  <1> HIDE DEF r
  <1>2. ShapedPage(q) /\ q.id = r.id /\ q.size = r.size
    BY <1>1, ShapedCleared, Zenon
  <1> QED
    BY <1>1, <1>2 DEF r

LEMMA ShapedNewPage ==
    ASSUME NEW id, NEW z
    PROVE  ShapedPage(NewPage(id, z)) /\ NewPage(id, z).id = id
  <1> DEFINE p == [id |-> id, size |-> z, dcs |-> <<>>, cps |-> <<>>]
             q == WithClip(p, Full(z))
  <1>1. ShapedPage(p) /\ p.id = id
    BY DEF ShapedPage
  <1> HIDE DEF p
  <1>2. ShapedPage(q) /\ q.id = p.id
    BY <1>1, ShapedClip, Zenon
  <1> QED
    BY <1>1, <1>2 DEF NewPage, p

(* t is s with q for page k.                                               *)
ReplacedBy(s, t, k, q) ==
    /\ ShapedStore(t)
    /\ t.idCounter = s.idCounter /\ t.active = s.active
    /\ Len(t.pages) = Len(s.pages)
    /\ \A n \in 1..Len(s.pages) :
          /\ t.pages[n].id = s.pages[n].id
          /\ t.pages[n] = IF n = k THEN q ELSE s.pages[n]

(* One page is replaced by one of the same id.                             *)
LEMMA ReplacedPage ==
    ASSUME NEW s, ShapedStore(s), NEW k, NEW q,
           k \in 1..Len(s.pages) => ShapedPage(q) /\ q.id = s.pages[k].id
    PROVE  ReplacedBy(s, [s EXCEPT !.pages[k] = q], k, q)
  <1> DEFINE m == Len(s.pages)
             a == [s.pages EXCEPT ![k] = q]
             t == [s EXCEPT !.pages = a]
  <1>1. m \in Nat /\ s.pages = [n \in 1..m |-> s.pages[n]]
    BY DEF ShapedStore
  <1>2. a = [n \in 1..m |-> IF n = k THEN q ELSE s.pages[n]]
    BY <1>1
  <1>3. Len(a) = m /\ \A n \in 1..m : a[n] = IF n = k THEN q ELSE s.pages[n]
    BY <1>1, <1>2
  <1>4. a = [n \in 1..Len(a) |-> a[n]]
    BY <1>2, <1>3
  <1>5. \A n \in 1..m : ShapedPage(a[n]) /\ a[n].id = s.pages[n].id
    BY <1>3 DEF ShapedStore
  <1> HIDE DEF a, m
  <1>6. /\ t = [pages |-> a, idCounter |-> s.idCounter, upid |-> s.upid,
                active |-> s.active]
    BY DEF ShapedStore
  <1>7. [s EXCEPT !.pages[k] = q] = t
    BY DEF a
  <1>8. ShapedStore(t)
    BY <1>1, <1>3, <1>4, <1>5, <1>6 DEF ShapedStore
  <1> QED
    BY <1>3, <1>5, <1>6, <1>7, <1>8 DEF m, ReplacedBy

LEMMA PageKept ==
    ASSUME NEW s, ShapedStore(s), NEW k, NEW q,
           k \in 1..Len(s.pages) =>
              ShapedPage(q) /\ q.id = s.pages[k].id /\ q.size = s.pages[k].size
    PROVE  SamePages(s, [s EXCEPT !.pages[k] = q])
  <1> DEFINE t == [s EXCEPT !.pages[k] = q]
  <1>1. ReplacedBy(s, t, k, q)
    BY ReplacedPage
  <1> HIDE DEF t
  <1>2. SamePages(s, t)
    BY <1>1 DEF SamePages, ReplacedBy
  <1> QED
    BY <1>2 DEF t

LEMMA SamePagesRefl ==
    ASSUME NEW s, ShapedStore(s)
    PROVE  SamePages(s, s)
  BY DEF SamePages

LEMMA SamePagesTrans ==
    ASSUME NEW s, NEW t, NEW u, SamePages(s, t), SamePages(t, u)
    PROVE  SamePages(s, u)
  BY DEF SamePages

LEMMA TouchKeeps ==
    ASSUME NEW s, ShapedStore(s), NEW silent
    PROVE  SamePages(s, Touch(s, silent))
  <1>1. ASSUME NEW v
        PROVE  SamePages(s, [s EXCEPT !.upid = v])
    <2> DEFINE t == [s EXCEPT !.upid = v]
    <2>1. t = [pages |-> s.pages, idCounter |-> s.idCounter, upid |-> v,
               active |-> s.active]
      BY DEF ShapedStore
    <2> HIDE DEF t
    <2>2. ShapedStore(t)
      BY <2>1 DEF ShapedStore
    <2>3. SamePages(s, t)
      BY <2>1, <2>2 DEF SamePages
    <2> QED
      BY <2>3 DEF t
  <1> QED
    BY <1>1, SamePagesRefl DEF Touch

LEMMA AddDcsKeeps ==
    ASSUME NEW s, ShapedStore(s), NEW i, NEW ops, NEW silent
    PROVE  SamePages(s, AddDcs(s, i, ops, silent))
  <1> DEFINE k == Pos(s, i)
             q == WithDcs(s.pages[k], ops)
             t == [s EXCEPT !.pages[k] = q]
  <1>1. SamePages(s, t)
    <2>1. ASSUME k \in 1..Len(s.pages)
          PROVE  ShapedPage(q) /\ q.id = s.pages[k].id /\ q.size = s.pages[k].size
      <3>1. ShapedPage(s.pages[k])
        BY <2>1 DEF ShapedStore
      <3> HIDE DEF k
      <3> QED
        BY <3>1, ShapedDcs, Zenon
    <2> HIDE DEF k, q
    <2> QED
      BY <2>1, PageKept, Zenon
  <1>2. SamePages(s, Touch(t, silent))
    <2> HIDE DEF t
    <2>1. ShapedStore(t)
      BY <1>1 DEF SamePages
    <2> QED
      BY <1>1, <2>1, TouchKeeps, SamePagesTrans, Zenon
  <1>3. AddDcs(s, i, ops, silent) = IF ValidIndex(s, i) THEN Touch(t, silent) ELSE s
    BY DEF AddDcs
  <1> HIDE DEF t
  <1> QED
    BY <1>2, <1>3, SamePagesRefl, Zenon

LEMMA ClearPageKeeps ==
    ASSUME NEW s, ShapedStore(s), NEW i, NEW silent
    PROVE  SamePages(s, ClearPage(s, i, silent))
  <1> DEFINE k == Pos(s, i)
             q == Cleared(s.pages[k])
             t == [s EXCEPT !.pages[k] = q]
  <1>1. SamePages(s, t)
    <2>1. ASSUME k \in 1..Len(s.pages)
          PROVE  ShapedPage(q) /\ q.id = s.pages[k].id /\ q.size = s.pages[k].size
      <3>1. ShapedPage(s.pages[k])
        BY <2>1 DEF ShapedStore
      <3> HIDE DEF k
      <3> QED
        BY <3>1, ShapedCleared, Zenon
    <2> HIDE DEF k, q
    <2> QED
      BY <2>1, PageKept, Zenon
  <1>2. SamePages(s, Touch(t, silent))
    <2> HIDE DEF t
    <2>1. ShapedStore(t)
      BY <1>1 DEF SamePages
    <2> QED
      BY <1>1, <2>1, TouchKeeps, SamePagesTrans, Zenon
  <1>3. ClearPage(s, i, silent) = IF ValidIndex(s, i) THEN Touch(t, silent) ELSE s
    BY DEF ClearPage
  <1> HIDE DEF t
  <1> QED
    BY <1>2, <1>3, SamePagesRefl, Zenon

LEMMA ClipPageKeeps ==
    ASSUME NEW s, ShapedStore(s), NEW i, NEW rect
    PROVE  SamePages(s, ClipPage(s, i, rect))
  <1> DEFINE k == Pos(s, i)
             q == WithClip(s.pages[k], rect)
             t == [s EXCEPT !.pages[k] = q]
  <1>1. SamePages(s, t)
    <2>1. ASSUME k \in 1..Len(s.pages)
          PROVE  ShapedPage(q) /\ q.id = s.pages[k].id /\ q.size = s.pages[k].size
      <3>1. ShapedPage(s.pages[k])
        BY <2>1 DEF ShapedStore
      <3> HIDE DEF k
      <3> QED
        BY <3>1, ShapedClip, Zenon
    <2> HIDE DEF k, q
    <2> QED
      BY <2>1, PageKept, Zenon
  <1>2. ClipPage(s, i, rect) = IF ValidIndex(s, i) THEN t ELSE s
    BY DEF ClipPage
  <1> HIDE DEF t
  <1> QED
    BY <1>1, <1>2, SamePagesRefl, Zenon

(* After resize the page has the size asked for, and only its size changed *)
(* of what SamePages is about.                                             *)
ResizedPages(s, t, i, z) ==
    /\ ShapedStore(t)
    /\ t.idCounter = s.idCounter /\ t.active = s.active
    /\ Len(t.pages) = Len(s.pages)
    /\ \A n \in 1..Len(s.pages) : t.pages[n].id = s.pages[n].id
    /\ ValidIndex(s, i) => t.pages[Pos(s, i)].size = z

LEMMA ValidPos ==
    ASSUME NEW s, Len(s.pages) \in Nat, NEW i \in Int, ValidIndex(s, i)
    PROVE  Pos(s, i) \in 1..Len(s.pages)
  BY DEF ValidIndex, Pos

LEMMA ResizeKeepsIds ==
    ASSUME NEW s, ShapedStore(s), NEW i \in Int, NEW z
    PROVE  ResizedPages(s, Resize(s, i, z), i, z)
  <1> DEFINE k == Pos(s, i)
             q == Cleared([s.pages[k] EXCEPT !.size = z])
             t == [s EXCEPT !.pages[k] = q]
  <1>1. CASE ~ValidIndex(s, i)
    BY <1>1 DEF Resize, ResizedPages
  <1>2. CASE ValidIndex(s, i)
    <2>1. k \in 1..Len(s.pages)
      BY <1>2, ValidPos DEF ShapedStore
    <2>2. ShapedPage(s.pages[k])
      BY <2>1 DEF ShapedStore
    <2>3. Resize(s, i, z) = t
      BY <1>2 DEF Resize
    <2>k. k = Pos(s, i)
      OBVIOUS
    <2> HIDE DEF k
    <2>4. ShapedPage(q) /\ q.id = s.pages[k].id /\ q.size = z
      BY <2>2, ShapedResized, Zenon
    <2> HIDE DEF q
    <2>5. ReplacedBy(s, t, k, q)
      BY <2>4, ReplacedPage
    <2> HIDE DEF t
    <2> QED
      BY <2>1, <2>3, <2>4, <2>5, <2>k DEF ResizedPages, ReplacedBy
  <1> QED
    BY <1>1, <1>2

----------------------------------------------------------------------------
(* Devices.                                                                *)

LEMMA KeepsRefl ==
    ASSUME NEW d, Shaped(d)
    PROVE  Keeps(d, d)
  BY SamePagesRefl DEF Keeps, Shaped

LEMMA KeepsTrans ==
    ASSUME NEW d, NEW e, NEW f, Keeps(d, e), Keeps(e, f)
    PROVE  Keeps(d, f)
  <1>1. SamePages(d.store, f.store)
    BY SamePagesTrans DEF Keeps
  <1> QED
    BY <1>1 DEF Keeps

LEMMA ShapedStoreSet ==
    ASSUME NEW d, Shaped(d), NEW s, ShapedStore(s)
    PROVE  LET e == [d EXCEPT !.store = s] IN
             /\ Shaped(e) /\ e.store = s /\ e.initialized = d.initialized
             /\ e.target = d.target
  BY DEF Shaped

LEMMA StoreKeeps ==
    ASSUME NEW d, Shaped(d), NEW s, SamePages(d.store, s)
    PROVE  Keeps(d, [d EXCEPT !.store = s])
  <1>1. ShapedStore(s)
    BY DEF SamePages
  <1>2. LET e == [d EXCEPT !.store = s] IN
          /\ Shaped(e) /\ e.store = s /\ e.initialized = d.initialized
          /\ e.target = d.target
    BY <1>1, ShapedStoreSet, Zenon
  <1> QED
    BY <1>2 DEF Keeps

(* Any other field.                                                        *)
LEMMA TargetKeeps ==
    ASSUME NEW d, Shaped(d), NEW t \in ShapedTarget
    PROVE  Keeps(d, [d EXCEPT !.target = t]) /\ [d EXCEPT !.target = t].target = t
  <1> DEFINE e == [d EXCEPT !.target = t]
  <1>1. Shaped(e) /\ e.store = d.store /\ e.initialized = d.initialized /\ e.target = t
    BY DEF Shaped
  <1> HIDE DEF e
  <1>2. SamePages(d.store, d.store)
    BY SamePagesRefl DEF Shaped
  <1>3. Keeps(d, e)
    BY <1>1, <1>2 DEF Keeps
  <1> QED
    BY <1>1, <1>3 DEF e

LEMMA HistoryKeeps ==
    ASSUME NEW d, Shaped(d), NEW h \in Seq(Recording)
    PROVE  Keeps(d, [d EXCEPT !.history = h])
  <1> DEFINE e == [d EXCEPT !.history = h]
  <1>1. Shaped(e) /\ e.store = d.store /\ e.initialized = d.initialized
    BY DEF Shaped
  <1> HIDE DEF e
  <1>2. SamePages(d.store, d.store)
    BY SamePagesRefl DEF Shaped
  <1>3. Keeps(d, e)
    BY <1>1, <1>2 DEF Keeps
  <1> QED
    BY <1>3 DEF e

LEMMA DisplayListKeeps ==
    ASSUME NEW d, Shaped(d), NEW l \in Recording
    PROVE  Keeps(d, [d EXCEPT !.displayList = l])
  <1> DEFINE e == [d EXCEPT !.displayList = l]
  <1>1. Shaped(e) /\ e.store = d.store /\ e.initialized = d.initialized
    BY DEF Shaped
  <1> HIDE DEF e
  <1>2. SamePages(d.store, d.store)
    BY SamePagesRefl DEF Shaped
  <1>3. Keeps(d, e)
    BY <1>1, <1>2 DEF Keeps
  <1> QED
    BY <1>3 DEF e

LEMMA OtherFieldsKeep ==
    ASSUME NEW d, Shaped(d), NEW v
    PROVE  /\ Keeps(d, [d EXCEPT !.buffer = v])
           /\ Keeps(d, [d EXCEPT !.replaying = v])
           /\ Keeps(d, [d EXCEPT !.devSize = v])
           /\ Keeps(d, [d EXCEPT !.told = v])
  <1> DEFINE Same(e) ==
               Shaped(e) /\ e.store = d.store /\ e.initialized = d.initialized
  <1>1. Same([d EXCEPT !.buffer = v])
    BY DEF Shaped
  <1>2. Same([d EXCEPT !.replaying = v])
    BY DEF Shaped
  <1>3. Same([d EXCEPT !.devSize = v])
    BY DEF Shaped
  <1>4. Same([d EXCEPT !.told = v])
    BY DEF Shaped
  <1>5. ASSUME NEW e, Same(e)
        PROVE  Keeps(d, e)
    <2>1. SamePages(d.store, d.store)
      BY SamePagesRefl DEF Shaped
    <2> QED
      BY <1>5, <2>1 DEF Keeps
  <1> HIDE DEF Same
  <1> QED
    BY <1>1, <1>2, <1>3, <1>4, <1>5, Zenon

LEMMA ShapedTargetSet ==
    ASSUME NEW t \in ShapedTarget, NEW i \in Int, NEW b \in BOOLEAN
    PROVE  LET u == [t EXCEPT !.index = i, !.void = b] IN
             u \in ShapedTarget /\ u.newest = t.newest
  BY DEF ShapedTarget

LEMMA IndexKeeps ==
    ASSUME NEW d, Shaped(d), NEW i \in Int
    PROVE  Keeps(d, SetIndex(d, i)) /\ SetIndex(d, i).target.newest = d.target.newest
  <1> DEFINE t == [d.target EXCEPT !.index = i, !.void = FALSE]
  <1>1. d.target \in ShapedTarget
    BY DEF Shaped
  <1>2. t \in ShapedTarget /\ t.newest = d.target.newest
    <2>1. FALSE \in BOOLEAN
      OBVIOUS
    <2> QED
      BY <1>1, <2>1, ShapedTargetSet, Zenon
  <1>3. SetIndex(d, i) = [d EXCEPT !.target = t]
    <2>1. d \in [store : {d.store}, target : ShapedTarget, history : {d.history},
                 buffer : {d.buffer}, replaying : {d.replaying},
                 initialized : {d.initialized}, displayList : {d.displayList},
                 devSize : {d.devSize}, told : {d.told}]
      BY <1>1 DEF Shaped
    <2> QED
      BY <1>2, <2>1 DEF SetIndex
  <1> HIDE DEF t
  <1> QED
    BY <1>2, <1>3, TargetKeeps

LEMMA VoidKeeps ==
    ASSUME NEW d, Shaped(d)
    PROVE  Keeps(d, SetVoid(d)) /\ SetVoid(d).target.newest = d.target.newest
  <1> DEFINE t == [d.target EXCEPT !.index = -1, !.void = TRUE]
  <1>1. d.target \in ShapedTarget
    BY DEF Shaped
  <1>2. t \in ShapedTarget /\ t.newest = d.target.newest
    <2>1. -1 \in Int /\ TRUE \in BOOLEAN
      OBVIOUS
    <2> QED
      BY <1>1, <2>1, ShapedTargetSet, Zenon
  <1>3. SetVoid(d) = [d EXCEPT !.target = t]
    <2>1. d \in [store : {d.store}, target : ShapedTarget, history : {d.history},
                 buffer : {d.buffer}, replaying : {d.replaying},
                 initialized : {d.initialized}, displayList : {d.displayList},
                 devSize : {d.devSize}, told : {d.told}]
      BY <1>1 DEF Shaped
    <2> QED
      BY <1>2, <2>1 DEF SetVoid
  <1> HIDE DEF t
  <1> QED
    BY <1>2, <1>3, TargetKeeps

LEMMA NewestKeeps ==
    ASSUME NEW d, Shaped(d), NEW i \in Int
    PROVE  Keeps(d, SetNewest(d, i))
  <1> DEFINE t == [d.target EXCEPT !.newest = i]
  <1>1. t \in ShapedTarget
    BY DEF Shaped, ShapedTarget
  <1>2. SetNewest(d, i) = [d EXCEPT !.target = t]
    BY DEF SetNewest
  <1> HIDE DEF t
  <1> QED
    BY <1>1, <1>2, TargetKeeps

LEMMA StateChangeKeeps ==
    ASSUME NEW d, Shaped(d)
    PROVE  Keeps(d, StateChange(d))
  BY OtherFieldsKeep DEF StateChange

LEMMA ResizeToPageKeeps ==
    ASSUME NEW d, Shaped(d)
    PROVE  Keeps(d, ResizeToPage(d))
  <1> DEFINE index == IF d.target.void THEN d.target.newest ELSE d.target.index
             v == Fit(SizeOf(d.store, index, <<10, 10>>))
  <1>1. ResizeToPage(d) = IF Current(d) THEN [d EXCEPT !.devSize = v] ELSE d
    BY DEF ResizeToPage
  <1> HIDE DEF v
  <1>2. Keeps(d, [d EXCEPT !.devSize = v])
    BY OtherFieldsKeep, Zenon
  <1> QED
    BY <1>1, <1>2, KeepsRefl

----------------------------------------------------------------------------
(* Callbacks and replays.                                                  *)

LEMMA ClipAndPutKeeps ==
    ASSUME NEW d, Shaped(d), NEW op
    PROVE  Keeps(d, ClipAndPut(d, op))
  <1> DEFINE s == ClipPage(d.store, d.target.index, ClipOf(op))
             a == [d EXCEPT !.store = s]
             ops == Append(d.buffer, op)
             b == [a EXCEPT !.buffer = ops]
             c == ClipAndPut(d, op)
  <1>1. SamePages(d.store, s)
    BY ClipPageKeeps DEF Shaped
  <1> HIDE DEF s
  <1>2. Keeps(d, a) /\ Shaped(a) /\ a.buffer = d.buffer
    <2>1. Keeps(d, a)
      BY <1>1, StoreKeeps
    <2>2. a.buffer = d.buffer
      BY DEF Shaped
    <2> QED
      BY <2>1, <2>2 DEF Keeps
  <1>3. c = IF d.target.void THEN d ELSE [a EXCEPT !.buffer = Append(@, op)]
    BY DEF ClipAndPut, s
  <1>4. [a EXCEPT !.buffer = Append(@, op)] = b
    BY <1>2
  <1> HIDE DEF a, ops, c
  <1>5. Keeps(a, b)
    BY <1>2, OtherFieldsKeep
  <1>6. Keeps(d, b)
    BY <1>2, <1>5, KeepsTrans, Zenon
  <1> HIDE DEF b
  <1>7. Keeps(d, c)
    BY <1>3, <1>4, <1>6, KeepsRefl, Zenon
  <1> QED
    BY <1>7 DEF c

LEMMA OperationKeeps ==
    ASSUME NEW d, Shaped(d), NEW op
    PROVE  Keeps(d, Operation(d, op))
  <1> DEFINE c == ClipAndPut(d, op)
             t == AddDcs(c.store, c.target.index, c.buffer, c.replaying)
             e == [c EXCEPT !.store = t]
             f == [e EXCEPT !.buffer = <<>>]
  <1>1. Keeps(d, c)
    BY ClipAndPutKeeps
  <1>2. Shaped(c)
    BY <1>1 DEF Keeps
  <1>3. Operation(d, op) = IF c.target.void THEN c ELSE StateChange(f)
    BY DEF Operation, Flush
  <1> HIDE DEF c
  <1>4. Keeps(c, e) /\ Shaped(e)
    <2>1. SamePages(c.store, t)
      BY <1>2, AddDcsKeeps DEF Shaped
    <2> HIDE DEF t
    <2> QED
      BY <1>2, <2>1, StoreKeeps DEF Keeps
  <1> HIDE DEF e
  <1>5. Keeps(e, f) /\ Shaped(f)
    BY <1>4, OtherFieldsKeep DEF Keeps
  <1> HIDE DEF f
  <1>6. Keeps(f, StateChange(f))
    BY <1>5, StateChangeKeeps
  <1>7. Keeps(d, StateChange(f))
    BY <1>1, <1>4, <1>5, <1>6, KeepsTrans, Zenon
  <1> QED
    BY <1>1, <1>3, <1>7, Zenon

LEMMA NewPageReplayKeeps ==
    ASSUME NEW d, Shaped(d)
    PROVE  Keeps(d, NewPageReplay(d))
  <1> DEFINE s == ClearPage(d.store, d.target.index, TRUE)
  <1>1. SamePages(d.store, s)
    BY ClearPageKeeps DEF Shaped
  <1>2. NewPageReplay(d) = IF d.target.void THEN d ELSE [d EXCEPT !.store = s]
    BY DEF NewPageReplay
  <1> HIDE DEF s
  <1> QED
    BY <1>1, <1>2, StoreKeeps, KeepsRefl, Zenon

LEMMA ProgressKeeps ==
    ASSUME NEW d, Shaped(d), NEW drawing, NEW k \in Nat
    PROVE  Keeps(d, Progress(d, drawing)[k])
  <1> DEFINE S == {n \in Nat : Keeps(d, Progress(d, drawing)[n])}
  <1>1. 0 \in S
    BY NewPageReplayKeeps, ProgressEquation
  <1>2. ASSUME NEW n \in Nat, n \in S
        PROVE  n + 1 \in S
    <2> DEFINE a == Progress(d, drawing)[n]
    <2>1. Keeps(d, a) /\ Shaped(a)
      BY <1>2 DEF Keeps
    <2>2. Progress(d, drawing)[n + 1] = ReplayOp(a, drawing, n + 1)
      BY ProgressEquation
    <2> HIDE DEF a
    <2>3. Keeps(a, ReplayOp(a, drawing, n + 1))
      BY <2>1, OperationKeeps DEF ReplayOp
    <2> QED
      BY <2>1, <2>2, <2>3, KeepsTrans
  <1>3. Nat \subseteq S
    <2> HIDE DEF S
    <2> QED
      BY <1>1, <1>2, SetInduction
  <1> QED
    BY <1>3

LEMMA ReplayKeeps ==
    ASSUME NEW d, Shaped(d), NEW drawing \in Recording, NEW upto \in Int
    PROVE  Keeps(d, Replay(d, drawing, upto))
  <1> DEFINE k == Completed(upto, drawing.ops)
             e == Progress(d, drawing)[k]
             op == [plot |-> drawing.plot, n |-> 0, size |-> e.devSize]
             f == ClipAndPut(e, op)
  <1>1. k \in Nat
    BY CompletedOf DEF Recording
  <1>2. Replay(d, drawing, upto) = IF upto < 0 /\ -upto <= drawing.ops THEN f ELSE e
    BY DEF Replay
  <1> HIDE DEF k
  <1>3. Keeps(d, e) /\ Shaped(e)
    BY <1>1, ProgressKeeps DEF Keeps
  <1> HIDE DEF e, op
  <1>4. Keeps(d, f)
    BY <1>3, ClipAndPutKeeps, KeepsTrans
  <1> QED
    BY <1>2, <1>3, <1>4

LEMMA PlayKeeps ==
    ASSUME NEW d, Shaped(d), NEW i, NEW upto \in Int
    PROVE  Keeps(d, Play(d, i, upto))
  <1> DEFINE drawing == HistoryGet(d.history, i)
             a == [d EXCEPT !.displayList = drawing]
  <1>1. NoDrawing \in Recording /\ d.history \in Seq(Recording)
    BY DEF NoDrawing, Recording, Shaped
  <1>2. drawing \in Recording
    BY <1>1 DEF HistoryGet
  <1>3. Play(d, i, upto) = IF drawing = NoDrawing \/ ~Current(d) THEN d
                           ELSE Replay(a, drawing, upto)
    BY DEF Play
  <1> HIDE DEF drawing
  <1>4. Keeps(d, a) /\ Shaped(a)
    BY <1>2, DisplayListKeeps DEF Keeps
  <1> HIDE DEF a
  <1>5. Keeps(d, Replay(a, drawing, upto))
    BY <1>2, <1>4, ReplayKeeps, KeepsTrans
  <1> QED
    BY <1>3, <1>5, KeepsRefl, Zenon

----------------------------------------------------------------------------
(* Methods.                                                                *)

LEMMA RecordingPut ==
    ASSUME NEW h \in Seq(Recording), NEW i \in Int, NEW x \in Recording
    PROVE  HistoryPut(h, i, x) \in Seq(Recording)
  <1> DEFINE m == IF Len(h) <= i THEN i + 1 ELSE Len(h)
             v(n) == IF n = i + 1 THEN x ELSE IF n <= Len(h) THEN h[n] ELSE NoDrawing
  <1>1. m \in Nat
    OBVIOUS
  <1>2. \A n \in 1..m : v(n) \in Recording
    <2>1. NoDrawing \in Recording
      BY DEF NoDrawing, Recording
    <2>2. \A n \in 1..m : n <= Len(h) => n \in 1..Len(h)
      OBVIOUS
    <2> HIDE DEF m
    <2> QED
      BY <2>1, <2>2
  <1>3. HistoryPut(h, i, x) = [n \in 1..m |-> v(n)]
    BY DEF HistoryPut
  <1> HIDE DEF m, v
  <1> QED
    BY <1>1, <1>2, <1>3, SeqDef

(* The page of index i gets the size z.                                    *)
Resizes(d, e, i, z) ==
    Shaped(e) /\ ResizedPages(d.store, e.store, i, z) /\ e.initialized = d.initialized

LEMMA ResizesThenKeeps ==
    ASSUME NEW d, Shaped(d), NEW i \in Int, NEW z, NEW e, Resizes(d, e, i, z),
           NEW f, Keeps(e, f)
    PROVE  Resizes(d, f, i, z)
  <1>1. ValidIndex(d.store, i) => Pos(d.store, i) \in 1..Len(d.store.pages)
    BY ValidPos DEF Shaped, ShapedStore
  <1>2. ResizedPages(d.store, f.store, i, z)
    BY <1>1 DEF Resizes, Keeps, ResizedPages, SamePages
  <1> QED
    BY <1>2 DEF Resizes, Keeps

LEMMA ResizeStarts ==
    ASSUME NEW d, Shaped(d), NEW i \in Int, NEW z
    PROVE  LET a == [d EXCEPT !.replaying = TRUE, !.store = Resize(@, i, z)] IN
             Resizes(d, a, i, z) /\ a.target = d.target
  <1> DEFINE b == [d EXCEPT !.replaying = TRUE]
             s == Resize(d.store, i, z)
             a == [b EXCEPT !.store = s]
  <1>1. Shaped(b) /\ b.store = d.store /\ b.initialized = d.initialized /\ b.target = d.target
    <2>1. Keeps(d, b)
      BY OtherFieldsKeep, Zenon
    <2>2. b.store = d.store /\ b.initialized = d.initialized /\ b.target = d.target
      BY DEF Shaped
    <2> QED
      BY <2>1, <2>2 DEF Keeps
  <1>2. ResizedPages(d.store, s, i, z)
    BY ResizeKeepsIds DEF Shaped
  <1>3. [d EXCEPT !.replaying = TRUE, !.store = Resize(@, i, z)] = a
    BY <1>1
  <1> HIDE DEF b, s
  <1>4. ShapedStore(s)
    BY <1>2 DEF ResizedPages
  <1>5. /\ Shaped(a) /\ a.store = s /\ a.initialized = b.initialized
        /\ a.target = b.target
    BY <1>1, <1>4, ShapedStoreSet, Zenon
  <1> HIDE DEF a
  <1>6. Resizes(d, a, i, z)
    BY <1>1, <1>2, <1>5 DEF Resizes
  <1> QED
    BY <1>1, <1>3, <1>5, <1>6

(* Whatever state the device is in, plt_prerender changes the size of the  *)
(* page it renders, to the one it is given, and no other size or id.       *)
LEMMA PrerenderResizes ==
    ASSUME NEW d, Shaped(d), NEW i \in Int, NEW z,
           NEW upto \in Int, NEW upto2 \in Int
    PROVE  Resizes(d, Prerender(d, i, z, upto, upto2), i, z)
  <1> DEFINE a == [d EXCEPT !.replaying = TRUE, !.store = Resize(@, i, z)]
  <1>1. Resizes(d, a, i, z) /\ Shaped(a) /\ a.target = d.target
    BY ResizeStarts, Zenon DEF Resizes
  <1>2. ASSUME NEW x, Keeps(a, x)
        PROVE  Resizes(d, [x EXCEPT !.replaying = FALSE], i, z)
    <2> HIDE DEF a
    <2>1. Shaped(x)
      BY <1>2 DEF Keeps
    <2>2. Keeps(x, [x EXCEPT !.replaying = FALSE])
      BY <2>1, OtherFieldsKeep, Zenon
    <2>3. Keeps(a, [x EXCEPT !.replaying = FALSE])
      BY <1>2, <2>2, KeepsTrans, Zenon
    <2> QED
      BY <1>1, <2>3, ResizesThenKeeps, Zenon
  <1>3. ASSUME NEW x, Keeps(a, x), NEW n \in Int
        PROVE  /\ Keeps(a, ResizeToPage(SetIndex(x, n)))
               /\ Shaped(ResizeToPage(SetIndex(x, n)))
    <2> HIDE DEF a
    <2>1. Shaped(x)
      BY <1>3 DEF Keeps
    <2>2. Keeps(x, SetIndex(x, n)) /\ Shaped(SetIndex(x, n))
      BY <2>1, IndexKeeps DEF Keeps
    <2>3. Keeps(SetIndex(x, n), ResizeToPage(SetIndex(x, n)))
      BY <2>2, ResizeToPageKeeps
    <2>4. Keeps(a, ResizeToPage(SetIndex(x, n)))
      BY <1>3, <2>2, <2>3, KeepsTrans, Zenon
    <2> QED
      BY <2>4 DEF Keeps
  <1>4. Keeps(a, a) /\ a.target.newest \in Int
    <2>1. a.target.newest \in Int
      BY <1>1 DEF Shaped, ShapedTarget
    <2> QED
      BY <1>1, <2>1, KeepsRefl
  <1>5. CASE i = d.target.newest
    <2> DEFINE b == ResizeToPage(SetIndex(a, i))
               l == b.displayList
               c == IF l = NoDrawing \/ ~Current(b) THEN b ELSE Replay(b, l, upto)
    <2>1. Prerender(d, i, z, upto, upto2) = [c EXCEPT !.replaying = FALSE]
      <3>1. Prerender(d, i, z, upto, upto2) = PrerenderOpen(d, z, upto)
        BY <1>5 DEF Prerender
      <3> QED
        BY <1>5, <3>1 DEF PrerenderOpen
    <2>2. Keeps(a, b) /\ Shaped(b)
      BY <1>3, <1>4
    <2> HIDE DEF a, b
    <2>3. l \in Recording
      BY <2>2 DEF Shaped
    <2>4. Keeps(b, Replay(b, l, upto))
      BY <2>2, <2>3, ReplayKeeps
    <2> DEFINE x == Replay(b, l, upto)
    <2>5. c = b \/ c = x
      OBVIOUS
    <2> HIDE DEF c, x
    <2>6. Keeps(a, x)
      BY <2>2, <2>4, KeepsTrans DEF x
    <2>7. Keeps(a, c)
      BY <2>2, <2>5, <2>6
    <2> QED
      BY <1>2, <2>1, <2>7
  <1>6. CASE i # d.target.newest
    <2> DEFINE l == ActiveList(a)
               newest == d.target.newest
               h == HistoryPut(a.history, newest, l)
               b == IF l = NoDrawing THEN a ELSE [a EXCEPT !.history = h]
               x == ResizeToPage(SetIndex(b, i))
               c == Play(x, i, upto)
               y == ResizeToPage(SetVoid(c))
               e == Play(y, newest, upto2)
               f == SetIndex(e, newest)
               g == [f EXCEPT !.replaying = FALSE]
    <2>1. Prerender(d, i, z, upto, upto2)
            = IF newest >= 0 THEN g ELSE IF l # NoDrawing THEN a ELSE y
      <3> DEFINE k == IF ActiveList(a) = NoDrawing
                      THEN a
                      ELSE [a EXCEPT !.history = HistoryPut(@, newest, ActiveList(a))]
      <3>1. Prerender(d, i, z, upto, upto2) = PrerenderOlder(d, i, z, upto, upto2)
        BY <1>6 DEF Prerender
      <3>2. k = b
        OBVIOUS
      <3> QED
        BY <3>1, <3>2, Zenon DEF PrerenderOlder
    <2>a. newest \in Int
      BY <1>1, <1>4
    <2> HIDE DEF a, newest
    <2>2. l \in Recording
      BY <1>1 DEF ActiveList, Foreign, Recording, Shaped
    <2>3. h \in Seq(Recording)
      <3>1. a.history \in Seq(Recording)
        BY <1>1 DEF Shaped
      <3> HIDE DEF l
      <3> QED
        BY <2>a, <2>2, <3>1, RecordingPut
    <2> HIDE DEF h, l
    <2>4. Keeps(a, b)
      BY <1>1, <1>4, <2>3, HistoryKeeps, Zenon
    <2> HIDE DEF b
    <2>5. Keeps(a, x) /\ Shaped(x)
      BY <1>3, <2>4
    <2> HIDE DEF x
    <2>6. Keeps(a, c) /\ Shaped(c)
      <3>1. Keeps(x, c)
        BY <2>5, PlayKeeps
      <3> QED
        BY <2>5, <3>1, KeepsTrans DEF Keeps
    <2> HIDE DEF c
    <2>7. Keeps(a, y) /\ Shaped(y)
      <3>1. Keeps(c, SetVoid(c)) /\ Shaped(SetVoid(c))
        BY <2>6, VoidKeeps DEF Keeps
      <3>2. Keeps(SetVoid(c), y)
        BY <3>1, ResizeToPageKeeps
      <3>3. Keeps(a, y)
        BY <2>6, <3>1, <3>2, KeepsTrans, Zenon
      <3> QED
        BY <3>3 DEF Keeps
    <2> HIDE DEF y
    <2>8. Keeps(a, e) /\ Shaped(e)
      <3>1. Keeps(y, e)
        BY <2>7, PlayKeeps
      <3> QED
        BY <2>7, <3>1, KeepsTrans DEF Keeps
    <2> HIDE DEF e
    <2>9. Keeps(a, f)
      <3>1. Keeps(e, f)
        BY <2>a, <2>8, IndexKeeps
      <3> QED
        BY <2>8, <3>1, KeepsTrans, Zenon
    <2> HIDE DEF f
    <2>10. Resizes(d, g, i, z)
      BY <1>2, <2>9
    <2>11. Resizes(d, y, i, z)
      BY <1>1, <2>7, ResizesThenKeeps
    <2> QED
      BY <1>1, <2>1, <2>10, <2>11
  <1> QED
    BY <1>5, <1>6

(* Pages may be added after those of s.                                    *)
MorePages(s, t) ==
    /\ ShapedStore(t) /\ t.active = s.active
    /\ Len(t.pages) >= Len(s.pages)
    /\ \A n \in 1..Len(s.pages) : t.pages[n].id = s.pages[n].id

LEMMA AppendPageShaped ==
    ASSUME NEW s, ShapedStore(s), NEW z
    PROVE  MorePages(s, AppendPage(s, z))
  <1> DEFINE m == Len(s.pages)
             x == NewPage(s.idCounter, z)
             a == Append(s.pages, x)
             i == IncWrap(s.idCounter, MaxId)
             t == [pages |-> a, idCounter |-> i, upid |-> s.upid, active |-> s.active]
  <1>1. ShapedPage(x)
    BY ShapedNewPage
  <1> HIDE DEF x
  <1>2. /\ m \in Nat /\ Len(a) = m + 1
        /\ a = [n \in 1..(m + 1) |-> a[n]]
        /\ \A n \in 1..m : a[n] = s.pages[n]
        /\ a[m + 1] = x
    <2> DEFINE S == {s.pages[n] : n \in 1..m} \cup {x}
    <2>1. m \in Nat /\ s.pages = [n \in 1..m |-> s.pages[n]]
      BY DEF ShapedStore
    <2>2. s.pages \in Seq(S)
      <3>1. s.pages \in [1..m -> S]
        BY <2>1
      <3> HIDE DEF S, m
      <3> QED
        BY <2>1, <3>1, SeqDef
    <2>3. x \in S
      OBVIOUS
    <2> HIDE DEF S
    <2>4. /\ a \in Seq(S) /\ Len(a) = m + 1
          /\ \A n \in 1..m : a[n] = s.pages[n]
          /\ a[m + 1] = x
      BY <2>2, <2>3, AppendProperties
    <2>5. a = [n \in 1..Len(a) |-> a[n]]
      BY <2>4
    <2> QED
      BY <2>1, <2>4, <2>5
  <1>3. i \in Int
    BY CounterAssumption DEF IncWrap, ShapedStore
  <1>4. AppendPage(s, z) = t
    <2> DEFINE b == [s EXCEPT !.pages = a]
               c == [b EXCEPT !.idCounter = i]
    <2>1. AppendPage(s, z) = c
      BY DEF AppendPage, x
    <2> HIDE DEF a, i
    <2>2. b = [pages |-> a, idCounter |-> s.idCounter, upid |-> s.upid,
               active |-> s.active]
      BY DEF ShapedStore
    <2> HIDE DEF b
    <2>3. c = t
      BY <2>2
    <2> QED
      BY <2>1, <2>3
  <1> HIDE DEF a, i, m
  <1>5. \A n \in 1..(m + 1) : ShapedPage(a[n])
    <2>1. \A n \in 1..m : ShapedPage(s.pages[n])
      BY DEF m, ShapedStore
    <2>2. \A n \in 1..(m + 1) : n \in 1..m \/ n = m + 1
      BY <1>2
    <2> QED
      BY <1>1, <1>2, <2>1, <2>2
  <1>6. ShapedStore(t)
    BY <1>2, <1>3, <1>5 DEF ShapedStore
  <1>7. MorePages(s, t)
    <2>1. t.pages = a /\ t.active = s.active
      OBVIOUS
    <2> HIDE DEF t
    <2>2. Len(t.pages) >= m /\ \A n \in 1..m : t.pages[n].id = s.pages[n].id
      <3>1. \A n \in 1..m : a[n].id = s.pages[n].id
        BY <1>2
      <3> QED
        BY <1>2, <2>1, <3>1
    <2> QED
      BY <1>6, <2>1, <2>2 DEF MorePages, m
  <1> QED
    BY <1>4, <1>7

LEMMA RemovePageShaped ==
    ASSUME NEW s, ShapedStore(s), NEW i \in Int
    PROVE  LET t == RemovePage(s, i, FALSE) IN ShapedStore(t) /\ t.active = s.active
  <1> DEFINE k == Pos(s, i)
             a == RemoveAt(s.pages, k)
             m == Len(s.pages)
             t == [s EXCEPT !.pages = a]
             e == Touch(t, FALSE)
  <1>1. CASE ~ValidIndex(s, i)
    BY <1>1 DEF RemovePage
  <1>2. CASE ValidIndex(s, i)
    <2>1. k \in 1..m /\ m \in Nat /\ s.pages = [n \in 1..m |-> s.pages[n]]
      BY <1>2, ValidPos DEF ShapedStore
    <2>2. RemovePage(s, i, FALSE) = e
      BY <1>2 DEF RemovePage
    <2>m. m = Len(s.pages)
      OBVIOUS
    <2> HIDE DEF k, m
    <2>3. /\ Len(a) \in Nat /\ a = [n \in 1..Len(a) |-> a[n]]
          /\ \A n \in 1..Len(a) : \E j \in 1..m : a[n] = s.pages[j]
      <3> DEFINE S == {s.pages[n] : n \in 1..m}
      <3>1. s.pages \in Seq(S)
        <4>1. s.pages \in [1..m -> S]
          BY <2>1
        <4> HIDE DEF S
        <4> QED
          BY <2>1, <4>1, SeqDef
      <3> HIDE DEF S
      <3>2. LET b == RemoveAt(s.pages, k) IN
               /\ b \in Seq(S)
               /\ Len(b) = Len(s.pages) - 1
               /\ \A n \in 1..Len(b) : b[n] = s.pages[IF n < k THEN n ELSE n + 1]
        BY <2>1, <2>m, <3>1, RemoveAtElements
      <3>3. a \in Seq(S)
        BY <3>2, Zenon
      <3> HIDE DEF a
      <3>4. \A n \in 1..Len(a) : a[n] \in S
        BY <3>3
      <3>5. Len(a) \in Nat /\ a = [n \in 1..Len(a) |-> a[n]]
        BY <3>3
      <3> QED
        BY <3>4, <3>5 DEF S
    <2> HIDE DEF a
    <2>4. \A n \in 1..Len(a) : ShapedPage(a[n])
      BY <2>3, <2>m DEF ShapedStore
    <2>5. t = [pages |-> a, idCounter |-> s.idCounter, upid |-> s.upid,
               active |-> s.active]
      BY DEF ShapedStore
    <2> HIDE DEF t
    <2>6. ShapedStore(t) /\ t.active = s.active
      <3>1. s.idCounter \in Int
        BY DEF ShapedStore
      <3> QED
        BY <2>3, <2>4, <2>5, <3>1 DEF ShapedStore
    <2>7. SamePages(t, e)
      BY <2>6, TouchKeeps
    <2> QED
      BY <2>2, <2>6, <2>7 DEF SamePages
  <1> QED
    BY <1>1, <1>2

LEMMA RemoveAllShaped ==
    ASSUME NEW s, ShapedStore(s)
    PROVE  ShapedStore(RemoveAll(s)) /\ RemoveAll(s).active = s.active
  <1> DEFINE t == [s EXCEPT !.pages = <<>>]
  <1>1. t = [pages |-> <<>>, idCounter |-> s.idCounter, upid |-> s.upid,
             active |-> s.active]
    BY DEF ShapedStore
  <1>2. RemoveAll(s) = IF s.pages = <<>> THEN s ELSE Touch(t, FALSE)
    BY DEF RemoveAll
  <1> HIDE DEF t
  <1>3. ShapedStore(t) /\ t.active = s.active
    <2>1. s.idCounter \in Int
      BY DEF ShapedStore
    <2>2. t.pages = <<>> /\ Len(t.pages) = 0 /\ t.pages = [n \in 1..0 |-> t.pages[n]]
      BY <1>1
    <2> QED
      BY <1>1, <2>1, <2>2 DEF ShapedStore
  <1>4. SamePages(t, Touch(t, FALSE))
    BY <1>3, TouchKeeps
  <1> QED
    BY <1>2, <1>3, <1>4 DEF SamePages

(* What drawing does to a device, and what removals do.                    *)
Grows(d, e) ==
    Shaped(e) /\ MorePages(d.store, e.store) /\ e.initialized = d.initialized

Stays(d, e) ==
    Shaped(e) /\ e.store.active = d.store.active /\ e.initialized = d.initialized

LEMMA KeepsGrows ==
    ASSUME NEW d, NEW e, Shaped(d), Keeps(d, e)
    PROVE  Grows(d, e) /\ Stays(d, e)
  <1>1. Len(d.store.pages) \in Nat
    BY DEF Shaped, ShapedStore
  <1> QED
    BY <1>1 DEF Keeps, Grows, Stays, SamePages, MorePages

LEMMA GrowsKeeps ==
    ASSUME NEW d, NEW e, NEW f, Grows(d, e), Keeps(e, f), Shaped(d)
    PROVE  Grows(d, f)
  <1>1. Len(d.store.pages) \in Nat /\ Len(e.store.pages) \in Nat
    BY DEF Shaped, ShapedStore, Grows
  <1>2. \A n \in 1..Len(d.store.pages) : n \in 1..Len(e.store.pages)
    BY <1>1 DEF Grows, MorePages
  <1>3. MorePages(d.store, f.store)
    BY <1>1, <1>2 DEF Grows, Keeps, SamePages, MorePages
  <1> QED
    BY <1>3 DEF Grows, Keeps

LEMMA StaysKeeps ==
    ASSUME NEW d, NEW e, NEW f, Stays(d, e), Keeps(e, f)
    PROVE  Stays(d, f)
  BY DEF Stays, Keeps, SamePages

LEMMA StaysStore ==
    ASSUME NEW d, Shaped(d), NEW s, ShapedStore(s), s.active = d.store.active
    PROVE  Stays(d, [d EXCEPT !.store = s])
  <1>1. LET e == [d EXCEPT !.store = s] IN
             /\ Shaped(e) /\ e.store = s /\ e.initialized = d.initialized
             /\ e.target = d.target
    BY ShapedStoreSet, Zenon
  <1> QED
    BY <1>1 DEF Stays

LEMMA NewPagePlotGrows ==
    ASSUME NEW d, Shaped(d), NEW saved \in Recording
    PROVE  Grows(d, NewPagePlot(d, saved))
  <1> DEFINE r == HistoryPut(d.history, d.target.newest, saved)
             h == IF d.target.newest >= 0 THEN [d EXCEPT !.history = r] ELSE d
             s == AppendPage(h.store, h.devSize)
             t == [h EXCEPT !.store = s]
             i == Len(d.store.pages)
             u == SetIndex(t, i)
             e == SetNewest(u, i)
  <1>1. NewPagePlot(d, saved) =
          LET g == IF d.target.newest >= 0
                   THEN [d EXCEPT !.history = HistoryPut(@, d.target.newest, saved)]
                   ELSE d
              x == [g EXCEPT !.store = AppendPage(@, d.devSize)]
          IN  SetNewest(SetIndex(x, i), i)
    BY DEF NewPagePlot
  <1>2. Keeps(d, h) /\ Shaped(h) /\ h.devSize = d.devSize
    <2>1. r \in Seq(Recording)
      BY RecordingPut DEF Shaped, ShapedTarget
    <2> HIDE DEF r
    <2>2. Keeps(d, [d EXCEPT !.history = r])
      BY <2>1, HistoryKeeps
    <2>3. Keeps(d, d)
      BY KeepsRefl
    <2>4. [d EXCEPT !.history = r].devSize = d.devSize
      BY DEF Shaped
    <2>5. Keeps(d, h) /\ h.devSize = d.devSize
      BY <2>2, <2>3, <2>4
    <2> QED
      BY <2>5 DEF Keeps
  <1>3. NewPagePlot(d, saved) = e
    BY <1>1, <1>2
  <1> HIDE DEF r, h
  <1>4. MorePages(h.store, s) /\ ShapedStore(s)
    BY <1>2, AppendPageShaped DEF Shaped, MorePages
  <1> HIDE DEF s
  <1>5. Grows(d, t) /\ Shaped(t)
    <2>1. /\ Shaped(t) /\ t.store = s /\ t.initialized = h.initialized
          /\ t.target = h.target
      BY <1>2, <1>4, ShapedStoreSet, Zenon
    <2> HIDE DEF t
    <2>2. MorePages(d.store, s)
      BY <1>2, <1>4 DEF Keeps, SamePages, MorePages
    <2> QED
      BY <1>2, <2>1, <2>2 DEF Grows, Keeps
  <1> HIDE DEF t
  <1>6. i \in Int
    BY DEF Shaped, ShapedStore
  <1> HIDE DEF i
  <1>7. Keeps(t, u) /\ Shaped(u)
    BY <1>5, <1>6, IndexKeeps DEF Keeps
  <1> HIDE DEF u
  <1>8. Keeps(u, e)
    BY <1>6, <1>7, NewestKeeps
  <1>9. Keeps(t, e)
    BY <1>7, <1>8, KeepsTrans
  <1> HIDE DEF e
  <1> QED
    BY <1>3, <1>5, <1>9, GrowsKeeps

LEMMA RecordingsLeft ==
    ASSUME NEW h \in Seq(Recording), NEW i \in Int
    PROVE  HistoryRemove(h, i) \in Seq(Recording)
  <1>1. CASE i \in 0..(Len(h) - 1)
    <2>1. i + 1 \in 1..Len(h)
      BY <1>1
    <2>2. LET b == RemoveAt(h, i + 1) IN
             /\ b \in Seq(Recording)
             /\ Len(b) = Len(h) - 1
             /\ \A n \in 1..Len(b) : b[n] = h[IF n < i + 1 THEN n ELSE n + 1]
      BY <2>1, RemoveAtElements
    <2>3. RemoveAt(h, i + 1) \in Seq(Recording)
      BY <2>2, Zenon
    <2> QED
      BY <1>1, <2>3 DEF HistoryRemove
  <1>2. CASE i \notin 0..(Len(h) - 1)
    BY <1>2 DEF HistoryRemove
  <1> QED
    BY <1>1, <1>2

LEMMA ReplayingSet ==
    ASSUME NEW f, Shaped(f), NEW v
    PROVE  LET g == [f EXCEPT !.replaying = v] IN StateChange(g).replaying = v
  <1> DEFINE g == [f EXCEPT !.replaying = v]
             w == Ids(g.store)
             e == [g EXCEPT !.told = w]
  <1>1. g = [store |-> f.store, target |-> f.target, history |-> f.history,
             buffer |-> f.buffer, replaying |-> v,
             initialized |-> f.initialized, displayList |-> f.displayList,
             devSize |-> f.devSize, told |-> f.told]
    BY DEF Shaped
  <1>2. StateChange(g) = e
    BY DEF StateChange
  <1> HIDE DEF g, w
  <1>3. e.replaying = v
    BY <1>1
  <1> QED
    BY <1>2, <1>3 DEF g

LEMMA PltRemoveStays ==
    ASSUME NEW d, Shaped(d), NEW i \in Int, NEW upto \in Int
    PROVE  /\ Stays(d, PltRemove(d, i, upto))
           /\ ~HistoryFails(d.history, i) => PltRemove(d, i, upto).replaying = FALSE
  <1> DEFINE n == d.target.newest
             s == RemovePage(d.store, i, FALSE)
             x == [d EXCEPT !.store = s]
             a == [x EXCEPT !.replaying = TRUE]
             h == HistoryRemove(a.history, i)
             b == [a EXCEPT !.history = h]
             u == SetIndex(b, n - 1)
             v == ResizeToPage(u)
             c == IF i = n /\ i > 0 THEN Play(v, n - 1, upto) ELSE b
             f == SetNewest(c, n - 1)
             g == [f EXCEPT !.replaying = FALSE]
             e == StateChange(g)
  <1>1. PltRemove(d, i, upto) = IF HistoryFails(d.history, i) THEN a ELSE e
    BY DEF PltRemove
  <1>2. n \in Int /\ n - 1 \in Int
    BY DEF Shaped, ShapedTarget
  <1>3. Stays(d, a) /\ Shaped(a)
    <2>1. ShapedStore(s) /\ s.active = d.store.active
      <3>1. ShapedStore(d.store)
        BY DEF Shaped
      <3> QED
        BY <3>1, RemovePageShaped, Zenon
    <2> HIDE DEF s
    <2>2. Stays(d, x) /\ Shaped(x)
      BY <2>1, StaysStore DEF Stays
    <2> HIDE DEF x
    <2>3. Keeps(x, a)
      BY <2>2, OtherFieldsKeep, Zenon
    <2> HIDE DEF a
    <2>4. Stays(d, a)
      BY <2>2, <2>3, StaysKeeps
    <2> QED
      BY <2>4 DEF Stays
  <1> HIDE DEF n, a
  <1>4. Keeps(a, b) /\ Shaped(b)
    <2>1. h \in Seq(Recording)
      BY <1>3, RecordingsLeft DEF Shaped
    <2> HIDE DEF h
    <2> QED
      BY <1>3, <2>1, HistoryKeeps DEF Keeps
  <1> HIDE DEF b
  <1>5. Keeps(b, u) /\ Shaped(u)
    BY <1>2, <1>4, IndexKeeps DEF Keeps
  <1> HIDE DEF u
  <1>6. Keeps(u, v) /\ Shaped(v)
    BY <1>5, ResizeToPageKeeps DEF Keeps
  <1> HIDE DEF v
  <1>7. Keeps(a, c) /\ Shaped(c)
    <2>1. Keeps(v, Play(v, n - 1, upto))
      BY <1>6, PlayKeeps
    <2>2. Keeps(a, Play(v, n - 1, upto))
      BY <1>4, <1>5, <1>6, <2>1, KeepsTrans, Zenon
    <2>3. Keeps(a, c)
      BY <1>4, <2>2
    <2> QED
      BY <2>3 DEF Keeps
  <1> HIDE DEF c
  <1>8. Keeps(c, f) /\ Shaped(f)
    BY <1>2, <1>7, NewestKeeps DEF Keeps
  <1> HIDE DEF f
  <1>9. Keeps(f, g) /\ Shaped(g)
    <2>1. Keeps(f, g)
      BY <1>8, OtherFieldsKeep, Zenon
    <2> QED
      BY <2>1 DEF Keeps
  <1>12. e.replaying = FALSE
    BY <1>8, ReplayingSet, Zenon
  <1> HIDE DEF g
  <1>10. Keeps(g, e)
    BY <1>9, StateChangeKeeps
  <1> HIDE DEF e
  <1>11. Stays(d, e)
    <2>1. Keeps(a, e)
      BY <1>7, <1>8, <1>9, <1>10, KeepsTrans, Zenon
    <2> QED
      BY <1>3, <2>1, StaysKeeps
  <1> QED
    BY <1>1, <1>3, <1>11, <1>12

LEMMA PltClearStays ==
    ASSUME NEW d, Shaped(d)
    PROVE  Stays(d, PltClear(d))
  <1> DEFINE s == RemoveAll(d.store)
             x == [d EXCEPT !.store = s]
             a == [x EXCEPT !.history = <<>>]
             b == SetVoid(a)
             c == SetNewest(b, -1)
             e == StateChange(c)
  <1>1. PltClear(d) = e
    BY DEF PltClear
  <1>2. Stays(d, x) /\ Shaped(x)
    <2>1. ShapedStore(s) /\ s.active = d.store.active
      <3>1. ShapedStore(d.store)
        BY DEF Shaped
      <3> QED
        BY <3>1, RemoveAllShaped, Zenon
    <2> HIDE DEF s
    <2> QED
      BY <2>1, StaysStore DEF Stays
  <1> HIDE DEF x
  <1>3. Keeps(x, a) /\ Shaped(a)
    <2>1. <<>> \in Seq(Recording)
      OBVIOUS
    <2>2. Keeps(x, a)
      BY <1>2, <2>1, HistoryKeeps
    <2> QED
      BY <2>2 DEF Keeps
  <1> HIDE DEF a
  <1>4. Keeps(a, b) /\ Shaped(b)
    BY <1>3, VoidKeeps DEF Keeps
  <1> HIDE DEF b
  <1>5. Keeps(b, c) /\ Shaped(c)
    <2>1. -1 \in Int
      OBVIOUS
    <2>2. Keeps(b, c)
      BY <1>4, <2>1, NewestKeeps
    <2> QED
      BY <2>2 DEF Keeps
  <1> HIDE DEF c
  <1>6. Keeps(c, e)
    BY <1>5, StateChangeKeeps
  <1> HIDE DEF e
  <1>7. Keeps(x, e)
    BY <1>3, <1>4, <1>5, <1>6, KeepsTrans, Zenon
  <1> QED
    BY <1>1, <1>2, <1>7, StaysKeeps

----------------------------------------------------------------------------
(* The calls.                                                              *)

IsCall(r) ==
    r = [pc |-> r.pc, method |-> r.method, id |-> r.id, index |-> r.index,
         size |-> r.size, got |-> r.got, undisturbed |-> r.undisturbed]

(* The index of the call is that of the plot it is about.                  *)
Finds(s, r) ==
    r.index \in 0..(Len(s.pages) - 1) /\ s.pages[r.index + 1].id = r.id

AskedSize(r, got) == \A k \in {1, 2} : r.size[k] > 0 => got.size[k] = r.size[k]

CallOK(s, r) ==
    /\ IsCall(r)
    /\ r.pc \in {"idle", "try", "queued", "done", "lost"}
    /\ r.index \in Int /\ r.index >= -1
    /\ r.method = "render" => r.size \in RenderSize
    /\ r.pc = "try" => r.method = "render"
    /\ r.undisturbed => r.pc # "idle"
    /\ r.undisturbed /\ r.pc \notin {"done", "lost"} => Finds(s, r)
    /\ r.undisturbed /\ r.pc = "done" => r.got.id = r.id
    /\ r.pc = "done" /\ r.method = "render" /\ r.got # NoPage => AskedSize(r, r.got)

(* While the R thread is in plt_prerender for a task, the task's call      *)
(* waits, and the page is the one its index is of.                         *)
BlankOK ==
    blank # NoRender =>
        /\ blank.index \in 0..(Len(store.pages) - 1)
        /\ blank.by \in Client =>
            /\ call[blank.by].pc = "queued" /\ call[blank.by].method = "render"
            /\ Pos(store, call[blank.by].index) - 1 = blank.index
            /\ blank.size = call[blank.by].size

CallsInv ==
    /\ Shaped(Device)
    /\ call = [c \in Client |-> call[c]]
    /\ \A c \in Client : CallOK(store, call[c])
    /\ BlankOK

LEMMA LeastElement ==
    ASSUME NEW S, S \subseteq Nat, S # {}
    PROVE  \E x \in S : \A y \in S : x <= y
  <1> DEFINE R == {ss \in Nat \X Nat : ss[1] < ss[2]}
  <1>1. PICK x \in S : \A y \in S : ~ (<<y, x>> \in R)
    <2> HIDE DEF R
    <2>1. IsWellFoundedOn(R, Nat)
      BY LessWellFounded DEF R
    <2> QED
      BY <2>1, WFMin
  <1>2. \A y \in S : ~ (y < x)
    BY <1>1
  <1> QED
    BY <1>2

LEMMA FoundIndex ==
    ASSUME NEW s, ShapedStore(s), NEW id
    PROVE  LET i == FindIndex(s, id) IN
             /\ i \in Int /\ i >= -1
             /\ i # -1 => i \in 0..(Len(s.pages) - 1) /\ s.pages[i + 1].id = id
  <1> DEFINE found == {k \in 1..Len(s.pages) : s.pages[k].id = id}
             x == SelectInSeq(s.pages, LAMBDA p : p.id = id)
  <1>1. x = IF found # {} THEN Min(found) ELSE 0
    BY DEF SelectInSeq
  <1>2. Len(s.pages) \in Nat
    BY DEF ShapedStore
  <1>3. found # {} => Min(found) \in found
    <2>1. found \subseteq Nat
      OBVIOUS
    <2> HIDE DEF found
    <2> QED
      BY <2>1, LeastElement DEF Min
  <1>4. FindIndex(s, id) = x - 1
    BY DEF FindIndex
  <1> HIDE DEF x
  <1>5. \/ x = 0
        \/ x \in 1..Len(s.pages) /\ s.pages[x].id = id
    BY <1>1, <1>3
  <1> HIDE DEF found
  <1>6. x - 1 \in Int /\ x - 1 >= -1 /\ (x - 1 # -1 => x \in 1..Len(s.pages) /\ s.pages[x].id = id)
    BY <1>2, <1>5
  <1>7. x - 1 # -1 => x - 1 \in 0..(Len(s.pages) - 1) /\ s.pages[x - 1 + 1].id = id
    BY <1>2, <1>6
  <1> QED
    BY <1>4, <1>6, <1>7

(* Drawing and rendering leave the calls right.                            *)
LEMMA CallKept ==
    ASSUME NEW s, Len(s.pages) \in Nat, NEW t, MorePages(s, t),
           NEW r, CallOK(s, r)
    PROVE  CallOK(t, r)
  <1>1. Finds(s, r) => Finds(t, r)
    <2> SUFFICES ASSUME Finds(s, r) PROVE Finds(t, r)
      OBVIOUS
    <2>1. Len(t.pages) \in Nat /\ Len(t.pages) >= Len(s.pages)
      BY DEF MorePages, ShapedStore
    <2>2. /\ r.index \in 0..(Len(s.pages) - 1) /\ s.pages[r.index + 1].id = r.id
      BY DEF Finds
    <2>3. r.index + 1 \in 1..Len(s.pages)
      BY <2>2
    <2>4. r.index \in 0..(Len(t.pages) - 1)
      BY <2>1, <2>2
    <2> QED
      BY <2>2, <2>3, <2>4 DEF Finds, MorePages
  <1> QED
    BY <1>1 DEF CallOK

LEMMA CallDisturbed ==
    ASSUME NEW s, NEW t, NEW r, CallOK(s, r)
    PROVE  LET q == [r EXCEPT !.undisturbed = FALSE] IN
             CallOK(t, q) /\ q.pc = r.pc /\ q.method = r.method /\ q.got = r.got
  <1> DEFINE q == [r EXCEPT !.undisturbed = FALSE]
  <1>1. q = [pc |-> r.pc, method |-> r.method, id |-> r.id, index |-> r.index,
             size |-> r.size, got |-> r.got, undisturbed |-> FALSE]
    <2>1. IsCall(r)
      BY DEF CallOK
    <2> DEFINE u == FALSE
    <2> HIDE DEF u
    <2>2. [r EXCEPT !.undisturbed = u]
            = [pc |-> r.pc, method |-> r.method, id |-> r.id, index |-> r.index,
               size |-> r.size, got |-> r.got, undisturbed |-> u]
      BY <2>1 DEF IsCall
    <2> QED
      BY <2>2 DEF u
  <1> HIDE DEF q
  <1>2. CallOK(t, q)
    BY <1>1 DEF CallOK, IsCall, AskedSize
  <1> QED
    BY <1>1, <1>2 DEF q

LEMMA CallReturned ==
    ASSUME NEW s, NEW t, NEW r, CallOK(s, r), NEW got,
           r.undisturbed => got.id = r.id,
           r.method = "render" /\ got # NoPage => AskedSize(r, got)
    PROVE  LET q == [r EXCEPT !.pc = "done", !.got = got] IN
             CallOK(t, q) /\ q.pc = "done" /\ q.method = r.method /\ q.got = got
  <1> DEFINE x == [r EXCEPT !.pc = "done"]
             q == [x EXCEPT !.got = got]
  <1>1. x = [pc |-> "done", method |-> r.method, id |-> r.id, index |-> r.index,
             size |-> r.size, got |-> r.got, undisturbed |-> r.undisturbed]
    BY DEF CallOK, IsCall
  <1>2. [r EXCEPT !.pc = "done", !.got = got] = q
    OBVIOUS
  <1> HIDE DEF x
  <1>3. q = [pc |-> "done", method |-> r.method, id |-> r.id, index |-> r.index,
             size |-> r.size, got |-> got, undisturbed |-> r.undisturbed]
    BY <1>1
  <1> HIDE DEF q
  <1>4. CallOK(t, q)
    BY <1>3 DEF CallOK, IsCall, AskedSize
  <1> QED
    BY <1>2, <1>3, <1>4

LEMMA CallLost ==
    ASSUME NEW s, NEW t, NEW r, CallOK(s, r), r.pc # "idle", NEW got
    PROVE  LET p == [r EXCEPT !.pc = "lost"]
               q == [r EXCEPT !.pc = "lost", !.got = got] IN
           /\ CallOK(t, p) /\ p.pc = "lost" /\ p.method = r.method
           /\ CallOK(t, q) /\ q.pc = "lost" /\ q.method = r.method
  <1> DEFINE x == [r EXCEPT !.pc = "lost"]
             q == [x EXCEPT !.got = got]
  <1>1. x = [pc |-> "lost", method |-> r.method, id |-> r.id, index |-> r.index,
             size |-> r.size, got |-> r.got, undisturbed |-> r.undisturbed]
    BY DEF CallOK, IsCall
  <1>2. [r EXCEPT !.pc = "lost", !.got = got] = q
    OBVIOUS
  <1> HIDE DEF x
  <1>3. q = [pc |-> "lost", method |-> r.method, id |-> r.id, index |-> r.index,
             size |-> r.size, got |-> got, undisturbed |-> r.undisturbed]
    BY <1>1
  <1> HIDE DEF q
  <1>4. CallOK(t, x)
    BY <1>1 DEF CallOK, IsCall, AskedSize
  <1>5. CallOK(t, q)
    BY <1>3 DEF CallOK, IsCall, AskedSize
  <1>6. /\ x.pc = "lost" /\ x.method = r.method
        /\ q.pc = "lost" /\ q.method = r.method
    BY <1>1, <1>3
  <1> QED
    BY <1>2, <1>4, <1>5, <1>6 DEF x

LEMMA CallQueued ==
    ASSUME NEW s, NEW r, CallOK(s, r), r.pc \notin {"idle", "done", "lost"}
    PROVE  LET q == [r EXCEPT !.pc = "queued"] IN
             CallOK(s, q) /\ q.pc = "queued" /\ q.method = r.method
  <1> DEFINE q == [r EXCEPT !.pc = "queued"]
  <1>1. q = [pc |-> "queued", method |-> r.method, id |-> r.id, index |-> r.index,
             size |-> r.size, got |-> r.got, undisturbed |-> r.undisturbed]
    BY DEF CallOK, IsCall
  <1> HIDE DEF q
  <1>2. CallOK(s, q)
    BY <1>1 DEF CallOK, IsCall, Finds
  <1> QED
    BY <1>1, <1>2 DEF q

LEMMA CallLookedUp ==
    ASSUME NEW s, ShapedStore(s), NEW m, NEW id, NEW z,
           m = "render" => z \in RenderSize
    PROVE  LET i == FindIndex(s, id)
               q == [pc |-> IF m = "render" THEN "try" ELSE "queued",
                     method |-> m, id |-> id, index |-> i, size |-> z,
                     got |-> NoPage, undisturbed |-> i # -1] IN
             CallOK(s, q) /\ q.pc # "done"
  <1> DEFINE i == FindIndex(s, id)
             p == IF m = "render" THEN "try" ELSE "queued"
             u == i # -1
             q == [pc |-> p, method |-> m, id |-> id, index |-> i, size |-> z,
                   got |-> NoPage, undisturbed |-> u]
  <1>1. /\ i \in Int /\ i >= -1
        /\ i # -1 => i \in 0..(Len(s.pages) - 1) /\ s.pages[i + 1].id = id
    BY FoundIndex
  <1>2. p \in {"try", "queued"} /\ (p = "try" => m = "render") /\ (u => i # -1)
    OBVIOUS
  <1> HIDE DEF p, i, u
  <1>3. /\ IsCall(q)
        /\ q.pc = p /\ q.method = m /\ q.id = id /\ q.index = i
        /\ q.size = z /\ q.undisturbed = u
    BY DEF IsCall
  <1> HIDE DEF q
  <1>4. CallOK(s, q) /\ q.pc # "done"
    BY <1>1, <1>2, <1>3 DEF CallOK, Finds
  <1> QED
    BY <1>4 DEF q, p, i, u

----------------------------------------------------------------------------
(* Steps.                                                                  *)

LEMMA ShownFields ==
    ASSUME NEW s, NEW i
    PROVE  /\ Shown(s, i).id = s.pages[Pos(s, i)].id
           /\ Shown(s, i).size = s.pages[Pos(s, i)].size
  BY DEF Shown

LEMMA ShownHasSize ==
    ASSUME NEW s, NEW r, r.size \in RenderSize, HasSize(s, r.index, r.size)
    PROVE  AskedSize(r, Shown(s, r.index))
  <1>1. \A k \in {1, 2} :
           r.size[k] <= 0 \/ s.pages[Pos(s, r.index)].size[k] = r.size[k]
    BY DEF HasSize
  <1>2. Shown(s, r.index).size = s.pages[Pos(s, r.index)].size
    BY ShownFields
  <1>3. \A k \in {1, 2} : r.size[k] > 0 => ~(r.size[k] <= 0)
    BY DeviceAssumption DEF Pair
  <1> QED
    BY <1>1, <1>2, <1>3 DEF AskedSize

LEMMA ShownFound ==
    ASSUME NEW s, Len(s.pages) \in Nat, NEW r, Finds(s, r)
    PROVE  /\ Shown(s, r.index).id = r.id
           /\ r.index \in Nat /\ ValidIndex(s, r.index) /\ Pos(s, r.index) = r.index + 1
  <1>1. r.index \in 0..(Len(s.pages) - 1) /\ s.pages[r.index + 1].id = r.id
    BY DEF Finds
  <1>2. /\ r.index \in Nat /\ ValidIndex(s, r.index)
        /\ Pos(s, r.index) = r.index + 1
    BY <1>1 DEF ValidIndex, Pos
  <1> QED
    BY <1>1, <1>2, ShownFields

LEMMA DeviceIs ==
    ASSUME NEW e, Shaped(e), Becomes(e)
    PROVE  Device' = e
  BY DEF Device, Becomes, Shaped

(* Nothing here closes the device or activates another one.                *)
ActiveKept == initialized' = initialized /\ store'.active = store.active

(* One call changes and nothing else does.                                 *)
LEMMA CallSet ==
    ASSUME CallsInv, UNCHANGED <<vars, blank>>, NEW c \in Client, NEW q, CallOK(store, q),
           call' = [call EXCEPT ![c] = q], blank # NoRender => blank.by # c
    PROVE  CallsInv' /\ ActiveKept
  <1>1. UNCHANGED <<Device, store, blank>> /\ ActiveKept
    BY DEF vars, device, Device, ActiveKept
  <1>2. /\ call' = [o \in Client |-> call'[o]]
        /\ \A o \in Client : call'[o] = IF o = c THEN q ELSE call[o]
    BY DEF CallsInv
  <1>3. \A o \in Client : CallOK(store', call'[o])
    BY <1>1, <1>2 DEF CallsInv
  <1>4. BlankOK'
    BY <1>1, <1>2 DEF CallsInv, BlankOK
  <1> QED
    BY <1>1, <1>2, <1>3, <1>4 DEF CallsInv

LEMMA LookupStep ==
    ASSUME CallsInv, NEW c \in Client, NEW m, NEW id, NEW z,
           m = "render" => z \in RenderSize, Lookup(c, m, id, z)
    PROVE  CallsInv' /\ ActiveKept
  <1> DEFINE i == FindIndex(store, id)
             q == [pc |-> IF m = "render" THEN "try" ELSE "queued",
                   method |-> m, id |-> id, index |-> i, size |-> z,
                   got |-> NoPage, undisturbed |-> i # -1]
  <1>1. ShapedStore(store)
    BY DEF CallsInv, Shaped, Device
  <1>2. CallOK(store, q)
    BY <1>1, CallLookedUp, Zenon
  <1>3. /\ call[c].pc = "idle" /\ call' = [call EXCEPT ![c] = q]
        /\ UNCHANGED <<vars, blank>>
    BY DEF Lookup
  <1> HIDE DEF q
  <1>4. blank # NoRender => blank.by # c
    BY <1>3 DEF CallsInv, BlankOK
  <1> QED
    BY <1>2, <1>3, <1>4, CallSet

LEMMA TryRenderStep ==
    ASSUME CallsInv, NEW c \in Client, TryRender(c)
    PROVE  CallsInv' /\ ActiveKept
  <1> DEFINE r == call[c]
  <1>1. /\ r.pc = "try" /\ CallOK(store, r) /\ r.method = "render" /\ r.size \in RenderSize
        /\ Len(store.pages) \in Nat
    BY DEF TryRender, CallsInv, CallOK, Shaped, ShapedStore, Device
  <1>2. blank # NoRender => blank.by # c
    BY <1>1 DEF CallsInv, BlankOK
  <1>3. UNCHANGED <<vars, blank>>
    BY DEF TryRender
  <1>4. CASE HasSize(store, r.index, r.size)
    <2> DEFINE got == Shown(store, r.index)
               q == [r EXCEPT !.pc = "done", !.got = got]
    <2>1. AskedSize(r, got)
      BY <1>1, <1>4, ShownHasSize
    <2>2. r.undisturbed => got.id = r.id
      BY <1>1, ShownFound DEF CallOK
    <2>3. call' = [call EXCEPT ![c] = q]
      BY <1>4 DEF TryRender, Return
    <2> HIDE DEF got, r
    <2>4. CallOK(store, q)
      BY <1>1, <2>1, <2>2, CallReturned, Zenon
    <2> HIDE DEF q
    <2> QED
      BY <1>2, <1>3, <2>3, <2>4, CallSet
  <1>5. CASE ~HasSize(store, r.index, r.size)
    <2> DEFINE q == [r EXCEPT !.pc = "queued"]
    <2>1. call' = [call EXCEPT ![c] = q]
      BY <1>5 DEF TryRender
    <2> HIDE DEF r
    <2>2. CallOK(store, q)
      BY <1>1, CallQueued
    <2> HIDE DEF q
    <2> QED
      BY <1>2, <1>3, <2>1, <2>2, CallSet
  <1> QED
    BY <1>4, <1>5

(* A drawing operation, or R rendering.                                    *)
LEMMA GrowsStep ==
    ASSUME CallsInv, blank' = NoRender, NEW e, Grows(Device, e), Becomes(e), UNCHANGED call
    PROVE  CallsInv' /\ ActiveKept
  <1>1. Device' = e /\ store' = e.store /\ initialized' = e.initialized
    BY DeviceIs DEF Grows, Becomes
  <1>2. Len(store.pages) \in Nat /\ MorePages(store, store')
    BY <1>1 DEF CallsInv, Shaped, ShapedStore, Grows, Device
  <1>3. \A o \in Client : CallOK(store', call'[o])
    BY <1>2, CallKept DEF CallsInv
  <1>4. ActiveKept
    BY <1>1, <1>2 DEF Grows, MorePages, Device, ActiveKept
  <1> QED
    BY <1>1, <1>3, <1>4 DEF CallsInv, BlankOK, Grows

(* A removal.                                                              *)
LEMMA StaysStep ==
    ASSUME CallsInv, blank' = NoRender, NEW e, Stays(Device, e), Becomes(e), Disturb
    PROVE  CallsInv' /\ ActiveKept
  <1>1. Device' = e
    BY DeviceIs DEF Stays
  <1>2. call' = [o \in Client |-> [call[o] EXCEPT !.undisturbed = FALSE]]
    BY DEF Disturb
  <1>3. \A o \in Client : CallOK(store', call'[o])
    <2> TAKE o \in Client
    <2>1. CallOK(store, call[o])
      BY DEF CallsInv
    <2>2. call'[o] = [call[o] EXCEPT !.undisturbed = FALSE]
      BY <1>2
    <2>3. CallOK(store', [call[o] EXCEPT !.undisturbed = FALSE])
      <3> DEFINE r == call[o]
                 t == store'
      <3> HIDE DEF r, t
      <3>1. LET q == [r EXCEPT !.undisturbed = FALSE] IN
              CallOK(t, q) /\ q.pc = r.pc /\ q.method = r.method /\ q.got = r.got
        BY <2>1, CallDisturbed, Zenon DEF r
      <3>2. CallOK(t, [r EXCEPT !.undisturbed = FALSE])
        BY <3>1, Zenon
      <3> QED
        BY <3>2 DEF r, t
    <2> QED
      BY <2>2, <2>3
  <1>4. call' = [o \in Client |-> call'[o]]
    BY <1>2
  <1>5. ActiveKept
    BY DEF Becomes, Stays, Device, ActiveKept
  <1> QED
    BY <1>1, <1>3, <1>4, <1>5 DEF CallsInv, BlankOK, Stays

LEMMA RWorksStep ==
    ASSUME CallsInv, RWorks
    PROVE  CallsInv' /\ ActiveKept
  <1>1. /\ Shaped(Device) /\ displayList \in Recording /\ store.idCounter \in Int
        /\ Device.displayList = displayList /\ blank' = NoRender
    BY DEF CallsInv, Shaped, ShapedStore, Device, RWorks
  <1>2. MaxOps \in Nat
    BY DeviceAssumption
  <1>3. CASE NewPlot /\ UNCHANGED call
    <2> DEFINE d == IF replaying THEN NewPageReplay(Device)
                    ELSE NewPagePlot(Device, displayList)
               x == [plot |-> store.idCounter, ops |-> 0]
               e == [d EXCEPT !.displayList = x]
    <2>1. Grows(Device, d) /\ Shaped(d)
      <3>1. Grows(Device, NewPageReplay(Device))
        BY <1>1, NewPageReplayKeeps, KeepsGrows
      <3>2. Grows(Device, NewPagePlot(Device, displayList))
        BY <1>1, NewPagePlotGrows
      <3> QED
        BY <3>1, <3>2 DEF Grows
    <2>2. x \in Recording
      BY <1>1 DEF Recording
    <2>3. Becomes(e)
      BY <1>3 DEF NewPlot
    <2> HIDE DEF d, x
    <2>4. Keeps(d, e)
      BY <2>1, <2>2, DisplayListKeeps
    <2> HIDE DEF e
    <2>5. Grows(Device, e)
      BY <1>1, <2>1, <2>4, GrowsKeeps
    <2> QED
      BY <1>1, <1>3, <2>3, <2>5, GrowsStep
  <1>4. CASE Draw /\ UNCHANGED call
    <2> DEFINE op == [plot |-> displayList.plot, n |-> displayList.ops + 1, size |-> devSize]
               d == Operation(Device, op)
               x == [d.displayList EXCEPT !.ops = @ + 1]
               e == [d EXCEPT !.displayList = x]
    <2>1. Keeps(Device, d) /\ Shaped(d)
      BY <1>1, OperationKeeps DEF Keeps
    <2>2. Becomes([d EXCEPT !.displayList.ops = @ + 1])
      BY <1>4 DEF Draw
    <2> HIDE DEF d
    <2>3. x \in Recording
      BY <2>1 DEF Shaped, Recording
    <2>4. [d EXCEPT !.displayList.ops = @ + 1] = e
      OBVIOUS
    <2> HIDE DEF x
    <2>5. Keeps(d, e)
      BY <2>1, <2>3, DisplayListKeeps
    <2> HIDE DEF e
    <2>6. Grows(Device, e)
      BY <1>1, <2>1, <2>5, KeepsTrans, KeepsGrows
    <2> QED
      BY <1>1, <1>4, <2>2, <2>4, <2>6, GrowsStep
  <1>5. CASE Clear /\ Disturb
    <2>1. Becomes(PltClear(Device))
      BY <1>5 DEF Clear
    <2> QED
      BY <1>1, <1>5, <2>1, PltClearStays, StaysStep
  <1>6. ASSUME NEW i \in 0..(MaxPlots - 1), RemovePlot(i, MaxOps), Disturb
        PROVE  CallsInv' /\ ActiveKept
    <2> DEFINE j == IF i = -1 THEN target.newest ELSE i
    <2>1. Becomes(PltRemove(Device, j, MaxOps))
      BY <1>6 DEF RemovePlot
    <2>2. j \in Int
      BY <1>1 DEF Shaped, ShapedTarget, Device
    <2> HIDE DEF j
    <2>3. Stays(Device, PltRemove(Device, j, MaxOps))
      <3>1. MaxOps \in Int
        BY <1>2
      <3> QED
        BY <1>1, <2>2, <3>1, PltRemoveStays, Zenon
    <2> QED
      BY <1>1, <1>6, <2>1, <2>3, StaysStep
  <1> QED
    BY <1>3, <1>4, <1>5, <1>6 DEF RWorks

(* plt_prerender begins, for by.                                           *)
LEMMA PrepareStep ==
    ASSUME CallsInv, NEW i \in Int, NEW z, NEW by, ValidIndex(store, i),
           Prepare(i, z, by), UNCHANGED call,
           by \in Client =>
              /\ call[by].pc = "queued" /\ call[by].method = "render"
              /\ i = call[by].index /\ z = call[by].size
    PROVE  CallsInv' /\ ActiveKept
  <1> DEFINE s == Resize(store, i, z)
             e == [Device EXCEPT !.store = s]
  <1>1. /\ store' = s
        /\ UNCHANGED <<target, history, buffer, replaying, initialized, displayList,
                       devSize, told>>
        /\ blank' = [index |-> Pos(store, i) - 1, size |-> z, by |-> by]
    BY DEF Prepare
  <1>2. Shaped(Device) /\ ShapedStore(store)
    BY DEF CallsInv, Shaped, Device
  <1>3. ResizedPages(store, s, i, z)
    BY <1>2, ResizeKeepsIds
  <1>4. Len(store.pages) \in Nat /\ Len(s.pages) = Len(store.pages) /\ ShapedStore(s)
    BY <1>2, <1>3 DEF ResizedPages, ShapedStore
  <1> HIDE DEF s
  <1>5. Device' = e
    BY <1>1 DEF Device
  <1>6. Shaped(Device')
    BY <1>2, <1>4, <1>5, ShapedStoreSet, Zenon
  <1>7. \A o \in Client : CallOK(store', call'[o])
    <2>1. MorePages(store, store')
      BY <1>1, <1>3, <1>4 DEF ResizedPages, MorePages
    <2> QED
      BY <1>4, <2>1, CallKept DEF CallsInv
  <1>8. BlankOK'
    <2>1. Pos(store, i) - 1 \in 0..(Len(store.pages) - 1)
      BY <1>4, ValidPos
    <2>2. Pos(store', i) = Pos(store, i)
      BY <1>1, <1>4 DEF Pos
    <2> QED
      BY <1>1, <1>4, <2>1, <2>2 DEF BlankOK
  <1>9. ActiveKept
    BY <1>1, <1>3 DEF ResizedPages, ActiveKept
  <1> QED
    BY <1>6, <1>7, <1>8, <1>9 DEF CallsInv

LEMMA RenderTaskStep ==
    ASSUME CallsInv, NEW c \in Client, RenderTask(c)
    PROVE  CallsInv' /\ ActiveKept
  <1> DEFINE r == call[c]
             i == r.index
             z == r.size
  <1>1. /\ r.pc = "queued" /\ r.method = "render" /\ CallOK(store, r)
        /\ i \in Int /\ z \in RenderSize /\ Len(store.pages) \in Nat /\ blank = NoRender
    BY DEF RenderTask, CallsInv, CallOK, Shaped, ShapedStore, Device
  <1>2. ASSUME NEW got, Return(c, got), UNCHANGED <<vars, blank>>,
               r.undisturbed => got.id = r.id, got # NoPage => AskedSize(r, got)
        PROVE  CallsInv' /\ ActiveKept
    <2> DEFINE q == [r EXCEPT !.pc = "done", !.got = got]
    <2>1. call' = [call EXCEPT ![c] = q]
      BY <1>2 DEF Return
    <2> HIDE DEF r
    <2>2. CallOK(store, q)
      BY <1>1, <1>2, CallReturned, Zenon
    <2> HIDE DEF q
    <2> QED
      BY <1>1, <1>2, <2>1, <2>2, CallSet
  <1>3. r.undisturbed => Shown(store, i).id = r.id /\ ValidIndex(store, i)
    BY <1>1, ShownFound DEF CallOK
  <1>4. CASE ~ValidIndex(store, i) /\ Return(c, NoPage) /\ UNCHANGED <<vars, blank>>
    BY <1>2, <1>3, <1>4
  <1>5. CASE /\ HasSize(store, i, z) /\ Return(c, Shown(store, i))
             /\ UNCHANGED <<vars, blank>>
    BY <1>1, <1>2, <1>3, <1>5, ShownHasSize
  <1>6. CASE ValidIndex(store, i) /\ Prepare(i, z, c) /\ UNCHANGED call
    BY <1>1, <1>6, PrepareStep
  <1> QED
    BY <1>4, <1>5, <1>6 DEF RenderTask

LEMMA RRendersStep ==
    ASSUME CallsInv, NEW i \in Int, NEW z, RRenders(i, z)
    PROVE  CallsInv' /\ ActiveKept
  <1>1. ValidIndex(store, i) /\ Prepare(i, z, "R") /\ UNCHANGED call
    BY DEF RRenders
  <1> QED
    BY <1>1, AsyncAssumption, PrepareStep

LEMMA ReplayedStep ==
    ASSUME CallsInv, Replayed
    PROVE  CallsInv' /\ ActiveKept
  <1> DEFINE i == blank.index
             z == blank.size
             by == blank.by
             e == Prerender(Device, i, z, MaxOps, MaxOps)
             got == Shown(e.store, i)
  <1>1. /\ Shaped(Device) /\ Len(store.pages) \in Nat /\ i \in 0..(Len(store.pages) - 1)
        /\ MaxOps \in Nat /\ Device.store = store
    BY DeviceAssumption DEF Replayed, CallsInv, BlankOK, Shaped, ShapedStore, Device
  <1>2. /\ Becomes(e) /\ blank' = NoRender
        /\ by \in Client => IF e.replaying THEN Lose(by) ELSE Return(by, got)
        /\ by \notin Client => UNCHANGED call
    BY DEF Replayed
  <1> HIDE DEF e
  <1>3. Resizes(Device, e, i, z)
    BY <1>1, PrerenderResizes DEF e
  <1>4. i \in Nat /\ ValidIndex(store, i) /\ Pos(store, i) = i + 1 /\ i + 1 \in 1..Len(store.pages)
    BY <1>1 DEF ValidIndex, Pos
  <1>5. /\ Grows(Device, e) /\ Len(e.store.pages) = Len(store.pages)
        /\ e.store.pages[i + 1].id = store.pages[i + 1].id
        /\ e.store.pages[i + 1].size = z
    <2>1. /\ Len(e.store.pages) = Len(store.pages)
          /\ e.store.pages[i + 1].id = store.pages[i + 1].id
          /\ e.store.pages[i + 1].size = z
      BY <1>1, <1>3, <1>4 DEF Resizes, ResizedPages
    <2>2. MorePages(store, e.store)
      BY <1>1, <1>3 DEF Resizes, ResizedPages, MorePages
    <2>3. Grows(Device, e)
      BY <1>1, <1>3, <2>2 DEF Resizes, Grows
    <2> QED
      BY <2>1, <2>3
  <1>6. CASE by \notin Client
    BY <1>2, <1>5, <1>6, GrowsStep
  <1>7. CASE by \in Client
    <2> DEFINE r == call[by]
               q == IF e.replaying
                    THEN [r EXCEPT !.pc = "lost"]
                    ELSE [r EXCEPT !.pc = "done", !.got = got]
    <2>1. /\ CallOK(store, r) /\ z = r.size /\ Pos(store, r.index) = i + 1
          /\ r.index \in Int /\ r.pc = "queued"
      <3>1. /\ CallOK(store, r) /\ z = r.size /\ Pos(store, r.index) - 1 = i
            /\ r.pc = "queued"
        BY <1>7 DEF Replayed, CallsInv, BlankOK
      <3>2. r.index \in Int
        BY <3>1 DEF CallOK
      <3>3. Pos(store, r.index) \in Int
        BY <1>1, <3>2 DEF Pos
      <3> QED
        BY <1>4, <3>1, <3>2, <3>3
    <2>2. got.id = store.pages[i + 1].id /\ got.size = z
      <3>1. Pos(e.store, i) = i + 1
        BY <1>4 DEF Pos
      <3> QED
        BY <1>5, <3>1, ShownFields
    <2> HIDE DEF got
    <2>3. AskedSize(r, got)
      BY <2>1, <2>2 DEF AskedSize
    <2>4. r.undisturbed => got.id = r.id
      <3> SUFFICES ASSUME r.undisturbed PROVE got.id = r.id
        OBVIOUS
      <3>1. Finds(store, r)
        BY <2>1 DEF CallOK
      <3>2. /\ Shown(store, r.index).id = r.id
            /\ r.index \in Nat /\ ValidIndex(store, r.index)
            /\ Pos(store, r.index) = r.index + 1
        BY <1>1, <3>1, ShownFound
      <3> QED
        BY <2>1, <2>2, <3>2, ShownFields
    <2>5. Device' = e /\ store' = e.store /\ Shaped(e)
      BY <1>2, <1>5, DeviceIs DEF Grows, Becomes
    <2>6. MorePages(store, store')
      BY <1>5, <2>5 DEF Grows, Device
    <2>7. call' = [call EXCEPT ![by] = q]
      BY <1>2, <1>7 DEF Return, Lose
    <2>8. CallOK(store', q)
      <3>1. r.pc # "idle"
        BY <2>1
      <3> HIDE DEF r
      <3> DEFINE t == store'
      <3> HIDE DEF t
      <3>2. CallOK(t, [r EXCEPT !.pc = "done", !.got = got])
        BY <2>1, <2>3, <2>4, CallReturned, Zenon
      <3>3. CallOK(t, [r EXCEPT !.pc = "lost"])
        BY <2>1, <3>1, CallLost, Zenon
      <3> QED
        BY <3>2, <3>3 DEF t
    <2> HIDE DEF q
    <2>9. /\ call' = [o \in Client |-> call'[o]]
          /\ \A o \in Client : call'[o] = IF o = by THEN q ELSE call[o]
      BY <2>7 DEF CallsInv
    <2>10. \A o \in Client : CallOK(store', call'[o])
      BY <1>1, <2>6, <2>8, <2>9, CallKept DEF CallsInv
    <2>11. ActiveKept
      BY <1>2, <1>5 DEF Grows, MorePages, Becomes, Device, ActiveKept
    <2> QED
      BY <1>2, <2>5, <2>9, <2>10, <2>11 DEF CallsInv, BlankOK
  <1> QED
    BY <1>6, <1>7

LEMMA RemoveTaskStep ==
    ASSUME CallsInv, NEW c \in Client, RemoveTask(c)
    PROVE  CallsInv' /\ ActiveKept
  <1> DEFINE r == call[c]
             i == IF r.index = -1 THEN target.newest ELSE r.index
             got == IF ValidIndex(store, i) THEN Shown(store, i) ELSE NoPage
             e == PltRemove(Device, i, MaxOps)
             q == [r EXCEPT !.pc = IF e.replaying THEN "lost" ELSE "done", !.got = got]
  <1>1. /\ Shaped(Device) /\ Len(store.pages) \in Nat /\ MaxOps \in Nat
        /\ CallOK(store, r) /\ r.method = "remove" /\ r.pc = "queued"
    BY DeviceAssumption DEF RemoveTask, CallsInv, Shaped, ShapedStore, Device
  <1>2. i \in Int
    BY <1>1 DEF CallOK, Shaped, ShapedTarget, Device
  <1>3. /\ blank = NoRender /\ blank' = NoRender /\ Becomes(e)
        /\ call' = [o \in Client |->
              IF o # c THEN [call[o] EXCEPT !.undisturbed = FALSE] ELSE q]
    BY DEF RemoveTask
  <1>4. r.undisturbed => got.id = r.id
    <2> SUFFICES ASSUME r.undisturbed PROVE got.id = r.id
      OBVIOUS
    <2>1. Finds(store, r)
      BY <1>1 DEF CallOK
    <2>2. /\ Shown(store, r.index).id = r.id
          /\ r.index \in Nat /\ ValidIndex(store, r.index)
      BY <1>1, <2>1, ShownFound
    <2>3. i = r.index
      BY <2>2
    <2> HIDE DEF i
    <2> QED
      BY <2>2, <2>3
  <1> HIDE DEF got
  <1>5. Stays(Device, e)
    <2>1. MaxOps \in Int
      BY <1>1
    <2> HIDE DEF i
    <2> QED
      BY <1>1, <1>2, <2>1, PltRemoveStays, Zenon
  <1> HIDE DEF e, i
  <1>6. Device' = e /\ Shaped(e)
    BY <1>3, <1>5, DeviceIs DEF Stays
  <1> DEFINE t == store'
  <1> HIDE DEF t
  <1>7. CallOK(t, q)
    <2>1. r.pc # "idle" /\ r.method # "render"
      BY <1>1
    <2> HIDE DEF r
    <2>2. CallOK(t, [r EXCEPT !.pc = "done", !.got = got])
      BY <1>1, <1>4, <2>1, CallReturned, Zenon
    <2>3. CallOK(t, [r EXCEPT !.pc = "lost", !.got = got])
      BY <1>1, <2>1, CallLost, Zenon
    <2>4. CASE e.replaying
      BY <2>3, <2>4
    <2>5. CASE ~e.replaying
      BY <2>2, <2>5
    <2> QED
      BY <2>4, <2>5
  <1>8. \A o \in Client : o # c => CallOK(t, [call[o] EXCEPT !.undisturbed = FALSE])
    <2> TAKE o \in Client
    <2> DEFINE p == call[o]
    <2>1. CallOK(store, p)
      BY DEF CallsInv
    <2> HIDE DEF p
    <2>2. LET x == [p EXCEPT !.undisturbed = FALSE] IN
            CallOK(t, x) /\ x.pc = p.pc /\ x.method = p.method /\ x.got = p.got
      BY <2>1, CallDisturbed, Zenon
    <2>3. CallOK(t, [p EXCEPT !.undisturbed = FALSE])
      BY <2>2, Zenon
    <2> QED
      BY <2>3 DEF p
  <1> HIDE DEF q
  <1>9. \A o \in Client : CallOK(store', call'[o])
    BY <1>3, <1>7, <1>8 DEF t
  <1>10. call' = [o \in Client |-> call'[o]]
    BY <1>3
  <1>11. ActiveKept
    BY <1>3, <1>5 DEF Becomes, Stays, Device, ActiveKept
  <1> QED
    BY <1>3, <1>6, <1>9, <1>10, <1>11 DEF CallsInv, BlankOK

LEMMA CallsInit ==
    ASSUME AsyncInit
    PROVE  CallsInv
  <1>1. Shaped(Device)
    <2>1. Len(<<>>) = 0 /\ <<>> = [n \in 1..0 |-> <<>>[n]] /\ <<>> \in Seq(Recording)
      OBVIOUS
    <2>2. ShapedStore(EmptyStore)
      BY <2>1 DEF EmptyStore, ShapedStore
    <2> QED
      BY <2>1, <2>2
      DEF AsyncInit, Init, Device, Shaped, ShapedTarget, Recording, NoDrawing
  <1>2. blank = NoRender
    BY DEF AsyncInit
  <1>3. call = [c \in Client |-> call[c]]
    BY DEF AsyncInit
  <1>4. ASSUME NEW c \in Client
        PROVE  CallOK(store, call[c])
    <2> DEFINE u == FALSE
               q == [pc |-> "idle", method |-> "none", id |-> -1, index |-> -1,
                     size |-> <<0, 0>>, got |-> NoPage, undisturbed |-> u]
    <2>1. call[c] = q
      BY DEF AsyncInit
    <2>2. ~u
      OBVIOUS
    <2> HIDE DEF u
    <2>3. IsCall(q)
      BY DEF IsCall
    <2>4. CallOK(store, q)
      BY <2>2, <2>3 DEF CallOK
    <2> QED
      BY <2>1, <2>4
  <1> QED
    BY <1>1, <1>2, <1>3, <1>4 DEF CallsInv, BlankOK

LEMMA CallsStep ==
    ASSUME CallsInv, [AsyncNext]_asyncVars
    PROVE  CallsInv' /\ ActiveKept
  <1>1. CASE UNCHANGED asyncVars
    <2>1. UNCHANGED <<Device, store, call, blank>> /\ ActiveKept
      BY <1>1 DEF asyncVars, vars, device, Device, ActiveKept
    <2> QED
      BY <2>1 DEF CallsInv, BlankOK
  <1>2. ASSUME NEW c \in Renderer, NEW id, NEW z \in RenderSize, Lookup(c, "render", id, z)
        PROVE  CallsInv' /\ ActiveKept
    BY <1>2, LookupStep DEF Client
  <1>3. ASSUME NEW c \in Remover, NEW id, Lookup(c, "remove", id, <<0, 0>>)
        PROVE  CallsInv' /\ ActiveKept
    BY <1>3, LookupStep DEF Client
  <1>4. ASSUME NEW c \in Client, TryRender(c) \/ RenderTask(c) \/ RemoveTask(c)
        PROVE  CallsInv' /\ ActiveKept
    BY <1>4, TryRenderStep, RenderTaskStep, RemoveTaskStep
  <1>5. CASE RWorks
    BY <1>5, RWorksStep
  <1>6. ASSUME NEW i \in 0..(MaxPlots - 1), NEW z \in RenderSize, RRenders(i, z)
        PROVE  CallsInv' /\ ActiveKept
    BY <1>6, RRendersStep
  <1>7. CASE Replayed
    BY <1>7, ReplayedStep
  <1> QED
    BY <1>1, <1>2, <1>3, <1>4, <1>5, <1>6, <1>7 DEF AsyncNext

----------------------------------------------------------------------------
(* Theorems about the calls.                                               *)

(* Whatever R does and however late removals come, each call's index is    *)
(* that of the plot it was looked up for until a plot is removed, and the  *)
(* task that is in plt_prerender waits for the page it found.              *)
THEOREM AsyncCalls == AsyncSpec => []CallsInv
  <1>1. AsyncInit => CallsInv
    BY CallsInit
  <1>2. CallsInv /\ [AsyncNext]_asyncVars => CallsInv'
    BY CallsStep
  <1> QED
    BY <1>1, <1>2, PTL DEF AsyncSpec

(* A call whose plot no removal overtook renders, or removes, the plot     *)
(* with the id it was given: api_render and api_remove, for any number of  *)
(* threads.                                                                *)
THEOREM AsyncRightPlot == AsyncSpec => []RightPlot
  <1>1. CallsInv => RightPlot
    BY DEF CallsInv, CallOK, RightPlot
  <1> QED
    BY <1>1, AsyncCalls, PTL

(* What api_render returns has the size it was asked for, although other   *)
(* clients and R resize the same page in between.                          *)
THEOREM AsyncRenderedSize == AsyncSpec => []RenderedSize
  <1>1. CallsInv => RenderedSize
    BY DEF CallsInv, CallOK, RenderedSize, AskedSize, Done
  <1> QED
    BY <1>1, AsyncCalls, PTL

----------------------------------------------------------------------------
(* Calls that come in time.                                                *)

LEMMA ClearedFields ==
    ASSUME NEW p \in Page
    PROVE  Cleared(p) = [id |-> p.id, size |-> p.size, dcs |-> <<>>,
                         cps |-> <<[id |-> 0, rect |-> Full(p.size)]>>]
  <1> DEFINE d == [p EXCEPT !.dcs = <<>>]
             e == [d EXCEPT !.cps = <<>>]
             c == [id |-> 0, rect |-> Full(p.size)]
  <1>1. d = [id |-> p.id, size |-> p.size, dcs |-> <<>>, cps |-> p.cps]
    BY DEF Page
  <1>2. Cleared(p) = WithClip(e, Full(p.size))
    BY DEF Cleared
  <1> HIDE DEF d
  <1>3. e = [id |-> p.id, size |-> p.size, dcs |-> <<>>, cps |-> <<>>]
    BY <1>1
  <1> HIDE DEF e
  <1>4. WithClip(e, Full(p.size)) = [e EXCEPT !.cps = Append(<<>>, c)]
    BY <1>3 DEF WithClip
  <1>5. Append(<<>>, c) = <<c>>
    OBVIOUS
  <1> HIDE DEF c
  <1>6. [e EXCEPT !.cps = <<c>>]
          = [id |-> p.id, size |-> p.size, dcs |-> <<>>, cps |-> <<c>>]
    BY <1>3
  <1> QED
    BY <1>2, <1>4, <1>5, <1>6 DEF c

LEMMA ResizeTwice ==
    ASSUME NEW s \in Store, NEW i \in Nat, i < Len(s.pages), NEW z \in Size
    PROVE  Resize(Resize(s, i, z), i, z) = Resize(s, i, z)
  <1> DEFINE p == [s.pages[i + 1] EXCEPT !.size = z]
             q == Cleared(p)
             t == Resize(s, i, z)
  <1>1. i + 1 \in 1..Len(s.pages) /\ ValidIndex(s, i) /\ Pos(s, i) = i + 1
    BY IndexOf
  <1>2. p \in Page /\ p.size = z
    BY <1>1, PageAt DEF Page
  <1>3. t = [s EXCEPT !.pages[i + 1] = q]
    BY <1>1 DEF Resize
  <1> HIDE DEF p
  <1>4. q \in Page /\ q.size = z /\ q.id = p.id
    BY <1>2, ClearedGood DEF GoodPage
  <1>5. [q EXCEPT !.size = z] = q
    BY <1>4 DEF Page
  <1>6. Cleared(q) = q
    BY <1>2, <1>4, ClearedFields
  <1> HIDE DEF q
  <1>7. LET u == [s EXCEPT !.pages[i + 1] = q] IN
          OnlyPage(s, u, i + 1) /\ u.pages[i + 1] = q
    BY <1>1, <1>4, UpdatePage, Zenon
  <1>8. t \in Store /\ Len(t.pages) = Len(s.pages) /\ t.pages[i + 1] = q
    BY <1>3, <1>7 DEF OnlyPage
  <1> HIDE DEF t
  <1>9. ValidIndex(t, i) /\ Pos(t, i) = i + 1
    BY <1>8, IndexOf
  <1>10. Resize(t, i, z) = [t EXCEPT !.pages[i + 1] = q]
    BY <1>5, <1>6, <1>8, <1>9 DEF Resize
  <1>11. [t EXCEPT !.pages[i + 1] = q] = t
    BY <1>8 DEF Store
  <1> QED
    BY <1>10, <1>11 DEF t

Good(d) == GoodDevice(d) /\ d.initialized /\ Current(d)

(* While no removal has come too late the device is good, but for the page *)
(* that plt_prerender has cleared.                                         *)
InTimeInv ==
    InTime =>
        IF blank = NoRender
        THEN Good(Device)
        ELSE /\ blank.index \in 0..target.newest /\ blank.size \in Size
             /\ \E s \in Store :
                   /\ Good([Device EXCEPT !.store = s])
                   /\ store = Resize(s, blank.index, blank.size)

(* Calls that have returned stay as they are.                              *)
LEMMA InTimeBefore ==
    ASSUME CallsInv, [AsyncNext]_asyncVars, InTime'
    PROVE  InTime
  <1> SUFFICES \A c \in Client : Done(c, "remove") =>
                  call'[c].pc = "done" /\ call'[c].method = "remove"
                  /\ call'[c].got = call[c].got
    BY DEF InTime, Done
  <1>1. ASSUME NEW o \in Client, call[o].pc # "done", NEW q, call' = [call EXCEPT ![o] = q]
        PROVE  \A c \in Client : Done(c, "remove") => call'[c] = call[c]
    BY <1>1 DEF CallsInv, Done
  <1>2. ASSUME NEW o \in Client, call[o].pc # "done", NEW got, Return(o, got)
        PROVE  \A c \in Client : Done(c, "remove") => call'[c] = call[c]
    BY <1>1, <1>2 DEF Return
  <1>3. ASSUME NEW c \in Client
        PROVE  LET q == [call[c] EXCEPT !.undisturbed = FALSE] IN
                 q.pc = call[c].pc /\ q.method = call[c].method /\ q.got = call[c].got
    <2> DEFINE r == call[c]
    <2>1. CallOK(store, r)
      BY DEF CallsInv
    <2> HIDE DEF r
    <2>2. LET q == [r EXCEPT !.undisturbed = FALSE] IN
            CallOK(store, q) /\ q.pc = r.pc /\ q.method = r.method /\ q.got = r.got
      BY <2>1, CallDisturbed, Zenon
    <2> QED
      BY <2>2 DEF r
  <1>4. CASE UNCHANGED call
    BY <1>4 DEF Done
  <1>5. ASSUME NEW c \in Client, NEW m, NEW id, NEW z, Lookup(c, m, id, z)
        PROVE  \A o \in Client : Done(o, "remove") => call'[o] = call[o]
    BY <1>1, <1>5 DEF Lookup
  <1>6. ASSUME NEW c \in Client, TryRender(c)
        PROVE  \A o \in Client : Done(o, "remove") => call'[o] = call[o]
    <2>1. call[c].pc # "done"
      BY <1>6 DEF TryRender
    <2> QED
      BY <1>1, <1>2, <1>6, <2>1 DEF TryRender
  <1>7. ASSUME NEW c \in Client, RenderTask(c)
        PROVE  \A o \in Client : Done(o, "remove") => call'[o] = call[o]
    <2>1. call[c].pc # "done"
      BY <1>7 DEF RenderTask
    <2> QED
      BY <1>2, <1>7, <2>1 DEF RenderTask
  <1>8. ASSUME NEW c \in Client, RemoveTask(c)
        PROVE  \A o \in Client : Done(o, "remove") =>
                  call'[o].pc = "done" /\ call'[o].method = "remove"
                  /\ call'[o].got = call[o].got
    <2>1. call[c].pc # "done"
      BY <1>8 DEF RemoveTask
    <2>2. \A o \in Client : o # c => call'[o] = [call[o] EXCEPT !.undisturbed = FALSE]
      BY <1>8 DEF RemoveTask
    <2> QED
      BY <1>3, <2>1, <2>2 DEF Done
  <1>9. CASE Disturb
    <2>1. \A o \in Client : call'[o] = [call[o] EXCEPT !.undisturbed = FALSE]
      BY <1>9 DEF Disturb
    <2> QED
      BY <1>3, <2>1 DEF Done
  <1>10. CASE Replayed
    <2>1. CASE blank.by \in Client
      <3>1. call[blank.by].pc # "done"
        BY <1>10, <2>1 DEF Replayed, CallsInv, BlankOK
      <3>2. Lose(blank.by) \/ \E got : Return(blank.by, got)
        BY <1>10, <2>1 DEF Replayed
      <3>3. \A o \in Client : Done(o, "remove") => call'[o] = call[o]
        BY <1>1, <1>2, <2>1, <3>1, <3>2 DEF Lose
      <3> QED
        BY <3>3 DEF Done
    <2>2. CASE blank.by \notin Client
      BY <1>4, <1>10, <2>2 DEF Replayed
    <2> QED
      BY <2>1, <2>2
  <1>11. CASE RWorks
    BY <1>4, <1>9, <1>11 DEF RWorks
  <1>12. CASE UNCHANGED asyncVars
    BY <1>4, <1>12 DEF asyncVars
  <1>13. ASSUME NEW c \in Client, TryRender(c) \/ RenderTask(c) \/ RemoveTask(c)
         PROVE  \A o \in Client : Done(o, "remove") =>
                  call'[o].pc = "done" /\ call'[o].method = "remove"
                  /\ call'[o].got = call[o].got
    BY <1>6, <1>7, <1>8, <1>13 DEF Done
  <1>14. ASSUME NEW c \in Client, NEW m, NEW id, NEW z, Lookup(c, m, id, z)
         PROVE  \A o \in Client : Done(o, "remove") =>
                  call'[o].pc = "done" /\ call'[o].method = "remove"
                  /\ call'[o].got = call[o].got
    BY <1>5, <1>14 DEF Done
  <1>15. ASSUME NEW i, NEW z, RRenders(i, z)
         PROVE  UNCHANGED call
    BY <1>15 DEF RRenders
  <1> QED
    BY <1>4, <1>10, <1>11, <1>12, <1>13, <1>14, <1>15 DEF AsyncNext, Client

(* A step that leaves plt_prerender or does not enter it.                  *)
LEMMA GoodNext ==
    ASSUME NEW e, GoodDevice(e), Becomes(e), blank' = NoRender, ActiveKept,
           initialized, store.active
    PROVE  InTimeInv'
  <1>1. Device' = e
    BY BecomesDevice DEF GoodDevice
  <1>2. e.initialized /\ e.store.active
    BY DEF Becomes, ActiveKept
  <1>3. Good(e)
    BY <1>2 DEF Good, Current
  <1> QED
    BY <1>1, <1>3 DEF InTimeInv

LEMMA RWorksGood ==
    ASSUME OrdinaryUse, Good(Device), RWorks, ActiveKept
    PROVE  InTimeInv'
  <1> DEFINE d == Device
             l == [plot |-> d.store.idCounter, ops |-> 0]
             plotted == [NewPagePlot(d, d.displayList) EXCEPT !.displayList = l]
             drawn == [Operation(d, NextOp(d)) EXCEPT !.displayList.ops = @ + 1]
  <1>1. /\ GoodDevice(d) /\ d.initialized /\ Current(d)
        /\ initialized /\ store.active /\ blank' = NoRender
    BY DeviceFields DEF Good, Current, RWorks
  <1>2. d.displayList = displayList /\ d.store = store /\ d.devSize = devSize
        /\ d.target = target
    BY DeviceFields
  <1>3. CASE NewPlot
    <2>1. ~replaying /\ d.store.idCounter < MaxPlots
      BY <1>1, <1>3, DeviceFields DEF NewPlot, GoodDevice
    <2>2. Becomes(plotted)
      BY <1>2, <1>3, <2>1 DEF NewPlot
    <2>3. GoodDevice(plotted)
      BY <1>1, <2>1, NewPlotGood
    <2> HIDE DEF plotted
    <2> QED
      BY <1>1, <2>2, <2>3, GoodNext
  <1>4. CASE Draw
    <2>1. /\ d.displayList # NoDrawing /\ d.displayList.ops < MaxOps
          /\ NextOp(d) = [plot |-> displayList.plot, n |-> displayList.ops + 1,
                          size |-> devSize]
      BY <1>2, <1>4 DEF Draw, NextOp
    <2>2. Becomes(drawn)
      BY <1>4, <2>1 DEF Draw
    <2>3. GoodDevice(drawn)
      BY <1>1, <2>1, DrawGood
    <2> HIDE DEF drawn
    <2> QED
      BY <1>1, <2>2, <2>3, GoodNext
  <1>5. CASE Clear
    <2>1. Becomes(PltClear(d)) /\ GoodDevice(PltClear(d))
      BY <1>1, <1>5, ClearGood DEF Clear
    <2> QED
      BY <1>1, <2>1, GoodNext
  <1>6. ASSUME NEW i \in 0..(MaxPlots - 1), RemovePlot(i, MaxOps)
        PROVE  InTimeInv'
    <2>0. i # -1
      OBVIOUS
    <2>1. /\ d.target.newest >= -1 /\ Kind(i) \in {"newest", "older"}
          /\ Becomes(PltRemove(d, i, MaxOps))
      <3> HIDE DEF d
      <3>1. /\ target.newest >= -1 /\ Kind(i) \in Removable
            /\ Becomes(PltRemove(d, i, MaxOps))
        BY <1>6, <2>0 DEF RemovePlot, d
      <3> QED
        BY <1>2, <3>1 DEF OrdinaryUse
    <2>2. i \in Int /\ i >= 0 /\ MaxOps \in Nat /\ d.target.newest \in Int
      <3>1. d.target.newest \in Int
        BY <1>1, DeviceAssumption DEF GoodDevice, DeviceType, Target
      <3> QED
        BY <3>1, DeviceAssumption
    <2>3. i = d.target.newest \/ i < d.target.newest
      BY <1>2, <2>1, <2>2 DEF Kind
    <2>4. i = d.target.newest \/ i \in 0..(d.target.newest - 1)
      <3> HIDE DEF d
      <3> QED
        BY <2>2, <2>3
    <2>5. GoodDevice(PltRemove(d, i, MaxOps))
      <3> HIDE DEF d
      <3> QED
        BY <1>1, <2>1, <2>2, <2>4, RemoveGood
    <2> QED
      BY <1>1, <2>1, <2>5, GoodNext
  <1> QED
    BY <1>3, <1>4, <1>5, <1>6 DEF RWorks

LEMMA PrepareGood ==
    ASSUME Good(Device), NEW i \in Int, NEW z \in Size, NEW by, ValidIndex(store, i),
           Prepare(i, z, by)
    PROVE  InTimeInv'
  <1> DEFINE j == Pos(store, i) - 1
             n == Len(store.pages)
  <1>1. /\ store \in Store /\ n \in Nat /\ target.newest \in Int
        /\ n = IF target.newest < 0 THEN 0 ELSE target.newest + 1
    BY DeviceAssumption, DeviceFields
    DEF Good, GoodDevice, DeviceType, Store, Target, Lists
  <1>2. n > 0 /\ i >= -n /\ i < n
    BY DEF ValidIndex
  <1>3. j = IF i < 0 THEN n + i ELSE i
    BY <1>1 DEF Pos
  <1>4. /\ blank' = [index |-> j, size |-> z, by |-> by]
        /\ store' = Resize(store, i, z)
        /\ UNCHANGED <<target, history, buffer, replaying, initialized, displayList,
                       devSize, told>>
    BY DEF Prepare
  <1>5. Resize(store, i, z) = Resize(store, j, z)
    <2>1. ValidIndex(store, j) /\ Pos(store, j) = Pos(store, i)
      <3>1. j \in 0..(n - 1)
        BY <1>1, <1>2, <1>3
      <3>2. ValidIndex(store, j) /\ Pos(store, j) = j + 1
        BY <1>1, <3>1 DEF ValidIndex, Pos
      <3>3. Pos(store, i) \in Int
        BY <1>1 DEF Pos
      <3> QED
        BY <3>2, <3>3
    <2> QED
      BY <2>1 DEF Resize
  <1> HIDE DEF j, n
  <1>6. j \in 0..target.newest
    BY <1>1, <1>2, <1>3
  <1>7. [Device' EXCEPT !.store = store] = Device
    BY <1>4 DEF Device
  <1>8. blank' # NoRender => InTimeInv'
    <2>1. blank'.index = j /\ blank'.size = z
      BY <1>4
    <2>2. /\ blank'.index \in 0..target'.newest /\ blank'.size \in Size
          /\ store \in Store /\ Good([Device' EXCEPT !.store = store])
          /\ store' = Resize(store, blank'.index, blank'.size)
      BY <1>1, <1>4, <1>5, <1>6, <1>7, <2>1
    <2> QED
      BY <2>2 DEF InTimeInv
  <1>9. blank' # NoRender
    BY <1>4, <1>6 DEF NoRender
  <1> QED
    BY <1>8, <1>9

(* plt_prerender after resize.                                             *)
OpenFrom(a, n, upto) ==
    LET b == ResizeToPage(SetIndex(a, n))
        c == IF b.displayList = NoDrawing \/ ~Current(b)
             THEN b
             ELSE Replay(b, b.displayList, upto)
    IN  [c EXCEPT !.replaying = FALSE]

OlderFrom(a, i, newest, upto, upto2) ==
    LET b == IF ActiveList(a) = NoDrawing
             THEN a
             ELSE [a EXCEPT !.history = HistoryPut(@, newest, ActiveList(a))]
        c == ResizeToPage(SetVoid(Play(ResizeToPage(SetIndex(b, i)), i, upto)))
        e == Play(c, newest, upto2)
    IN  IF newest >= 0 THEN [SetIndex(e, newest) EXCEPT !.replaying = FALSE]
        ELSE IF ActiveList(a) # NoDrawing THEN a ELSE c

LEMMA PrerenderFrom ==
    ASSUME NEW d, NEW i, NEW z, NEW upto, NEW upto2
    PROVE  LET a == [d EXCEPT !.replaying = TRUE, !.store = Resize(@, i, z)] IN
           Prerender(d, i, z, upto, upto2)
             = IF i = d.target.newest
               THEN OpenFrom(a, i, upto)
               ELSE OlderFrom(a, i, d.target.newest, upto, upto2)
  <1>1. CASE i = d.target.newest
    <2>1. Prerender(d, i, z, upto, upto2) = PrerenderOpen(d, z, upto)
      BY <1>1 DEF Prerender
    <2>2. PrerenderOpen(d, z, upto)
            = OpenFrom([d EXCEPT !.replaying = TRUE,
                                 !.store = Resize(@, d.target.newest, z)],
                       d.target.newest, upto)
      BY Zenon DEF PrerenderOpen, OpenFrom
    <2> QED
      BY <1>1, <2>1, <2>2
  <1>2. CASE i # d.target.newest
    <2>1. Prerender(d, i, z, upto, upto2) = PrerenderOlder(d, i, z, upto, upto2)
      BY <1>2 DEF Prerender
    <2>2. PrerenderOlder(d, i, z, upto, upto2)
            = OlderFrom([d EXCEPT !.replaying = TRUE, !.store = Resize(@, i, z)],
                        i, d.target.newest, upto, upto2)
      BY Zenon DEF PrerenderOlder, OlderFrom
    <2> QED
      BY <1>2, <2>1, <2>2
  <1> QED
    BY <1>1, <1>2

(* It clears the page again that has been cleared already.                 *)
LEMMA PrerenderResized ==
    ASSUME NEW s \in Store, NEW d \in DeviceType, NEW i \in Nat, i < Len(s.pages),
           NEW z \in Size, d.store = Resize(s, i, z), NEW upto, NEW upto2
    PROVE  Prerender(d, i, z, upto, upto2)
             = Prerender([d EXCEPT !.store = s], i, z, upto, upto2)
  <1> DEFINE b == [d EXCEPT !.store = s]
             x == [d EXCEPT !.replaying = TRUE, !.store = Resize(@, i, z)]
             y == [b EXCEPT !.replaying = TRUE, !.store = Resize(@, i, z)]
  <1>1. Resize(d.store, i, z) = Resize(s, i, z)
    BY ResizeTwice
  <1>2. x = y
    BY <1>1 DEF DeviceType
  <1>3. b.target = d.target
    BY DEF DeviceType
  <1> HIDE DEF b
  <1>4. Prerender(d, i, z, upto, upto2)
          = IF i = d.target.newest
            THEN OpenFrom(x, i, upto)
            ELSE OlderFrom(x, i, d.target.newest, upto, upto2)
    BY PrerenderFrom, Zenon
  <1>5. Prerender(b, i, z, upto, upto2)
          = IF i = b.target.newest
            THEN OpenFrom(y, i, upto)
            ELSE OlderFrom(y, i, b.target.newest, upto, upto2)
    BY PrerenderFrom, Zenon
  <1> HIDE DEF x, y
  <1> QED
    BY <1>2, <1>3, <1>4, <1>5 DEF b

LEMMA DeviceWithStore ==
    ASSUME NEW s
    PROVE  LET d == [Device EXCEPT !.store = s] IN
           /\ d.store = s /\ d.target = target /\ d.history = history
           /\ d.initialized = initialized /\ d.displayList = displayList
           /\ Device = [d EXCEPT !.store = store]
  <1> DEFINE d == [Device EXCEPT !.store = s]
  <1>1. d = [store |-> s, target |-> target, history |-> history,
             buffer |-> buffer, replaying |-> replaying,
             initialized |-> initialized, displayList |-> displayList,
             devSize |-> devSize, told |-> told]
    BY DEF Device
  <1> HIDE DEF d
  <1>2. Device = [d EXCEPT !.store = store]
    BY <1>1 DEF Device
  <1>3. /\ d.store = s /\ d.target = target /\ d.history = history
        /\ d.displayList = displayList
    BY <1>1
  <1>4. d.initialized = initialized
    BY <1>1, Zenon
  <1> QED
    BY <1>2, <1>3, <1>4 DEF d

LEMMA ReplayedGood ==
    ASSUME InTime, InTimeInv, Replayed, ActiveKept
    PROVE  /\ InTimeInv'
           /\ blank.by \in Client => \E got : Return(blank.by, got)
           /\ blank.by \notin Client => UNCHANGED call
  <1> DEFINE i == blank.index
             z == blank.size
             e == Prerender(Device, i, z, MaxOps, MaxOps)
  <1>a. /\ blank.by \in Client =>
              IF e.replaying THEN Lose(blank.by)
              ELSE Return(blank.by, Shown(e.store, i))
        /\ blank.by \notin Client => UNCHANGED call
    BY DEF Replayed
  <1>1. PICK s \in Store : /\ Good([Device EXCEPT !.store = s])
                           /\ store = Resize(s, i, z)
    BY DEF InTimeInv, Replayed
  <1> DEFINE d == [Device EXCEPT !.store = s]
             f == Prerender(d, i, z, MaxOps, MaxOps)
  <1>2. i \in 0..target.newest /\ z \in Size /\ Becomes(e) /\ blank' = NoRender
    BY DEF InTimeInv, Replayed
  <1>3. /\ d.store = s /\ d.target = target /\ d.initialized = initialized
        /\ Device = [d EXCEPT !.store = store]
    BY DeviceWithStore, Zenon
  <1>d. Good(d)
    BY <1>1
  <1> HIDE DEF d
  <1>4. GoodDevice(d) /\ d.initialized /\ Current(d) /\ s.active /\ initialized
    BY <1>d, <1>3 DEF Good, Current
  <1>5. target.newest \in Int /\ MaxOps \in Nat
    BY <1>3, <1>4, DeviceAssumption DEF GoodDevice, DeviceType, Target
  <1>6. i \in Nat /\ target.newest >= 0 /\ i < Len(s.pages)
    <2>1. Len(s.pages) = IF target.newest < 0 THEN 0 ELSE target.newest + 1
      BY <1>3, <1>4 DEF GoodDevice, Lists
    <2> QED
      BY <1>2, <1>5, <2>1
  <1>7. OnlyPage(s, store, i + 1)
    BY <1>1, <1>2, <1>6, ResizeStore
  <1>8. Device \in DeviceType /\ Device.store = store
    BY <1>3, <1>4, <1>7 DEF GoodDevice, DeviceType, OnlyPage
  <1> HIDE DEF i, z
  <1>9. e = f
    <2>1. Prerender(Device, i, z, MaxOps, MaxOps)
            = Prerender([Device EXCEPT !.store = s], i, z, MaxOps, MaxOps)
      BY <1>1, <1>2, <1>6, <1>8, PrerenderResized
    <2> QED
      BY <2>1 DEF d
  <1>10. GoodDevice(f)
    BY <1>2, <1>3, <1>4, <1>5, <1>6, PrerenderGood
  <1> HIDE DEF e, f
  <1>11. store.active
    BY <1>4, <1>7 DEF OnlyPage
  <1>12. InTimeInv'
    BY <1>2, <1>4, <1>9, <1>10, <1>11, GoodNext
  <1>13. e.replaying = FALSE
    BY <1>9, <1>10 DEF GoodDevice
  <1>14. blank.by \in Client => \E got : Return(blank.by, got)
    BY <1>a, <1>13
  <1> QED
    BY <1>a, <1>12, <1>14

LEMMA RemoveTaskGood ==
    ASSUME CallsInv, Good(Device), InTime', NEW c \in Client, RemoveTask(c), ActiveKept
    PROVE  InTimeInv' /\ call'[c].pc = "done"
  <1> DEFINE d == Device
             r == call[c]
             n == target.newest
             i == IF r.index = -1 THEN n ELSE r.index
             m == Len(store.pages)
  <1>1. /\ GoodDevice(d) /\ d.initialized /\ Current(d) /\ d.target = target
        /\ d.store = store /\ initialized /\ store.active
    BY DeviceFields DEF Good, Current
  <1>2. /\ r.method = "remove" /\ blank' = NoRender /\ Becomes(PltRemove(d, i, MaxOps))
        /\ call'[c] = [r EXCEPT !.pc = IF PltRemove(d, i, MaxOps).replaying
                                       THEN "lost" ELSE "done",
                         !.got = IF ValidIndex(store, i) THEN Shown(store, i) ELSE NoPage]
    BY DEF RemoveTask
  <1>3. CallOK(store, r)
    BY DEF CallsInv
  <1>4. /\ n \in Int /\ r.index \in Int /\ r.index >= -1 /\ MaxOps \in Nat /\ m \in Nat
        /\ m = IF n < 0 THEN 0 ELSE n + 1
    BY <1>1, <1>3, DeviceAssumption
    DEF GoodDevice, DeviceType, Target, Store, Lists, CallOK
  <1>a. PltRemove(d, i, MaxOps).replaying = FALSE
    <2>1. Shaped(d) /\ i \in Int
      BY <1>4 DEF CallsInv
    <2>2. ~HistoryFails(d.history, i)
      <3>1. i < 0 => n < 0
        BY <1>4
      <3>2. n < 0 => Len(d.history) = 0
        BY <1>1 DEF GoodDevice, Lists
      <3>3. d.history \in Seq(Drawing)
        BY <1>1 DEF GoodDevice, DeviceType
      <3> HIDE DEF i, n, d
      <3>4. n < 0 => d.history = <<>>
        BY <3>2, <3>3
      <3> QED
        BY <3>1, <3>4 DEF HistoryFails
    <2>3. MaxOps \in Int
      BY <1>4
    <2> HIDE DEF d, i
    <2> QED
      BY <2>1, <2>2, <2>3, PltRemoveStays, Zenon
  <1>b. LET got == IF ValidIndex(store, i) THEN Shown(store, i) ELSE NoPage IN
        call'[c].pc = "done" /\ call'[c].method = "remove" /\ call'[c].got = got
    <2> DEFINE got == IF ValidIndex(store, i) THEN Shown(store, i) ELSE NoPage
               x == [r EXCEPT !.pc = "done"]
    <2>1. call'[c] = [x EXCEPT !.got = got]
      BY <1>2, <1>a
    <2>2. x = [pc |-> "done", method |-> r.method, id |-> r.id, index |-> r.index,
               size |-> r.size, got |-> r.got, undisturbed |-> r.undisturbed]
      BY <1>3 DEF CallOK, IsCall
    <2> HIDE DEF x, got
    <2>3. call'[c].pc = "done" /\ call'[c].method = "remove" /\ call'[c].got = got
      BY <1>2, <2>1, <2>2
    <2> QED
      BY <2>3 DEF got
  <1>5. ValidIndex(store, i)
    BY <1>b DEF InTime, Done
  <1>6. n >= 0 /\ (i = n \/ i \in 0..(n - 1)) /\ i \in Int
    <2>1. m > 0 /\ i < m
      BY <1>5 DEF ValidIndex
    <2> HIDE DEF m, r, n
    <2> QED
      BY <1>4, <2>1
  <1> HIDE DEF i
  <1>7. GoodDevice(PltRemove(d, i, MaxOps))
    <2>1. d.target.newest = n
      BY <1>1
    <2>2. d.target.newest >= -1 /\ (i = d.target.newest \/ i \in 0..(d.target.newest - 1))
      BY <1>4, <1>6, <2>1
    <2> HIDE DEF d, n
    <2> QED
      BY <1>1, <1>4, <1>6, <2>2, RemoveGood
  <1>8. InTimeInv'
    BY <1>1, <1>2, <1>7, GoodNext
  <1> QED
    BY <1>8, <1>b

LEMMA InTimeStep ==
    ASSUME OrdinaryUse, CallsInv, InTimeInv, [AsyncNext]_asyncVars
    PROVE  InTimeInv'
  <1> SUFFICES ASSUME InTime' PROVE InTimeInv'
    BY DEF InTimeInv
  <1>1. InTime /\ CallsInv' /\ ActiveKept
    BY InTimeBefore, CallsStep
  <1>2. blank = NoRender => Good(Device)
    BY <1>1 DEF InTimeInv
  <1>3. ASSUME UNCHANGED <<vars, blank>>
        PROVE  InTimeInv'
    <2>1. UNCHANGED <<Device, store, target, blank>>
      BY <1>3 DEF vars, device, Device
    <2>2. CASE blank = NoRender
      BY <1>2, <2>1, <2>2 DEF InTimeInv
    <2>3. CASE blank # NoRender
      <3>1. /\ blank.index \in 0..target.newest /\ blank.size \in Size
            /\ \E s \in Store : /\ Good([Device EXCEPT !.store = s])
                                /\ store = Resize(s, blank.index, blank.size)
        BY <1>1, <2>3 DEF InTimeInv
      <3> QED
        BY <2>1, <2>3, <3>1 DEF InTimeInv
    <2> QED
      BY <2>2, <2>3
  <1>4. CASE UNCHANGED asyncVars
    BY <1>3, <1>4 DEF asyncVars
  <1>5. ASSUME NEW c, NEW m, NEW id, NEW z, Lookup(c, m, id, z)
        PROVE  InTimeInv'
    BY <1>3, <1>5 DEF Lookup
  <1>6. ASSUME NEW c \in Client, TryRender(c)
        PROVE  InTimeInv'
    BY <1>3, <1>6 DEF TryRender
  <1>7. ASSUME NEW c \in Client, RenderTask(c)
        PROVE  InTimeInv'
    <2>1. CASE UNCHANGED <<vars, blank>>
      BY <1>3, <2>1
    <2>2. CASE ValidIndex(store, call[c].index) /\ Prepare(call[c].index, call[c].size, c)
      <3>1. call[c].index \in Int /\ call[c].size \in Size /\ blank = NoRender
        BY <1>7, DeviceAssumption DEF RenderTask, CallsInv, CallOK, Size
      <3> QED
        BY <1>2, <2>2, <3>1, PrepareGood
    <2> QED
      BY <1>7, <2>1, <2>2 DEF RenderTask
  <1>8. ASSUME NEW c \in Client, RemoveTask(c)
        PROVE  InTimeInv'
    <2>1. blank = NoRender
      BY <1>8 DEF RemoveTask
    <2> QED
      BY <1>1, <1>2, <1>8, <2>1, RemoveTaskGood
  <1>9. CASE RWorks
    <2>1. blank = NoRender
      BY <1>9 DEF RWorks
    <2> QED
      BY <1>1, <1>2, <1>9, <2>1, RWorksGood
  <1>10. ASSUME NEW i \in 0..(MaxPlots - 1), NEW z \in RenderSize, RRenders(i, z)
         PROVE  InTimeInv'
    <2>1. /\ blank = NoRender /\ ValidIndex(store, i) /\ Prepare(i, z, "R")
          /\ i \in Int /\ z \in Size
      BY <1>10, DeviceAssumption DEF RRenders, Size
    <2> QED
      BY <1>2, <2>1, PrepareGood
  <1>11. CASE Replayed
    BY <1>1, <1>11, ReplayedGood
  <1>12. AsyncNext => InTimeInv'
    BY <1>5, <1>6, <1>7, <1>8, <1>9, <1>10, <1>11 DEF AsyncNext
  <1> QED
    BY <1>4, <1>12

(* In time, nothing that a task does ends in an R error.                   *)
LEMMA NoneLostStep ==
    ASSUME OrdinaryUse, CallsInv, InTimeInv, NoneLost, [AsyncNext]_asyncVars
    PROVE  NoneLost'
  <1> SUFFICES ASSUME InTime' PROVE \A o \in Client : call'[o].pc # "lost"
    BY DEF NoneLost
  <1>1. InTime /\ CallsInv' /\ ActiveKept /\ \A o \in Client : call[o].pc # "lost"
    BY InTimeBefore, CallsStep DEF NoneLost
  <1>2. blank = NoRender => Good(Device)
    BY <1>1 DEF InTimeInv
  <1>3. CASE UNCHANGED call
    BY <1>1, <1>3
  <1>4. ASSUME NEW c \in Client, NEW q, q.pc # "lost", call' = [call EXCEPT ![c] = q]
        PROVE  \A o \in Client : call'[o].pc # "lost"
    BY <1>1, <1>4 DEF CallsInv
  <1>5. ASSUME NEW c \in Client, NEW got, Return(c, got)
        PROVE  \A o \in Client : call'[o].pc # "lost"
    <2> DEFINE r == call[c]
               q == [r EXCEPT !.pc = "done", !.got = got]
               x == [r EXCEPT !.pc = "done"]
    <2>1. x = [pc |-> "done", method |-> r.method, id |-> r.id, index |-> r.index,
               size |-> r.size, got |-> r.got, undisturbed |-> r.undisturbed]
      BY DEF CallsInv, CallOK, IsCall
    <2>2. q = [x EXCEPT !.got = got] /\ call' = [call EXCEPT ![c] = q]
      BY <1>5 DEF Return
    <2> HIDE DEF x, q
    <2>3. q.pc = "done"
      BY <2>1, <2>2
    <2> QED
      BY <1>4, <2>2, <2>3
  <1>6. ASSUME NEW o \in Client
        PROVE  [call[o] EXCEPT !.undisturbed = FALSE].pc # "lost"
    <2> DEFINE r == call[o]
    <2>1. CallOK(store, r) /\ r.pc # "lost"
      BY <1>1 DEF CallsInv
    <2> HIDE DEF r
    <2>2. LET q == [r EXCEPT !.undisturbed = FALSE] IN
            CallOK(store, q) /\ q.pc = r.pc /\ q.method = r.method /\ q.got = r.got
      BY <2>1, CallDisturbed, Zenon
    <2> QED
      BY <2>1, <2>2 DEF r
  <1>7. ASSUME NEW c \in Client, NEW m, NEW id, NEW z, Lookup(c, m, id, z)
        PROVE  \A o \in Client : call'[o].pc # "lost"
    <2> DEFINE p == IF m = "render" THEN "try" ELSE "queued"
               i == FindIndex(store, id)
               u == i # -1
               q == [pc |-> p, method |-> m, id |-> id, index |-> i, size |-> z,
                     got |-> NoPage, undisturbed |-> u]
    <2>1. call' = [call EXCEPT ![c] = q]
      BY <1>7, Zenon DEF Lookup
    <2>2. p # "lost"
      OBVIOUS
    <2> HIDE DEF p, i, u
    <2>3. q.pc # "lost"
      BY <2>2
    <2> HIDE DEF q
    <2> QED
      BY <1>4, <2>1, <2>3
  <1>8. ASSUME NEW c \in Client, TryRender(c)
        PROVE  \A o \in Client : call'[o].pc # "lost"
    <2> DEFINE q == [call[c] EXCEPT !.pc = "queued"]
    <2>1. q.pc = "queued"
      BY DEF CallsInv, CallOK, IsCall
    <2>2. (\E got : Return(c, got)) \/ call' = [call EXCEPT ![c] = q]
      BY <1>8 DEF TryRender
    <2> HIDE DEF q
    <2> QED
      BY <1>4, <1>5, <2>1, <2>2
  <1>9. ASSUME NEW c \in Client, RenderTask(c)
        PROVE  \A o \in Client : call'[o].pc # "lost"
    <2>1. (\E got : Return(c, got)) \/ UNCHANGED call
      BY <1>9 DEF RenderTask
    <2> QED
      BY <1>3, <1>5, <2>1
  <1>10. ASSUME NEW c \in Client, RemoveTask(c)
         PROVE  \A o \in Client : call'[o].pc # "lost"
    <2>1. blank = NoRender
      BY <1>10 DEF RemoveTask
    <2>2. call'[c].pc = "done"
      BY <1>1, <1>2, <1>10, <2>1, RemoveTaskGood
    <2>3. \A o \in Client : o # c => call'[o] = [call[o] EXCEPT !.undisturbed = FALSE]
      BY <1>10 DEF RemoveTask
    <2> QED
      BY <1>6, <2>2, <2>3
  <1>11. CASE RWorks
    <2>1. UNCHANGED call \/ Disturb
      BY <1>11 DEF RWorks
    <2>2. CASE Disturb
      <3>1. \A o \in Client : call'[o] = [call[o] EXCEPT !.undisturbed = FALSE]
        BY <2>2 DEF Disturb
      <3> QED
        BY <1>6, <3>1
    <2> QED
      BY <1>3, <2>1, <2>2
  <1>12. ASSUME NEW i, NEW z, RRenders(i, z)
         PROVE  UNCHANGED call
    BY <1>12 DEF RRenders
  <1>13. CASE Replayed
    <2>1. UNCHANGED call \/ (blank.by \in Client /\ \E got : Return(blank.by, got))
      BY <1>1, <1>13, ReplayedGood
    <2> QED
      BY <1>3, <1>5, <2>1
  <1>14. CASE UNCHANGED asyncVars
    BY <1>3, <1>14 DEF asyncVars
  <1> QED
    BY <1>3, <1>7, <1>8, <1>9, <1>10, <1>11, <1>12, <1>13, <1>14 DEF AsyncNext, Client

LEMMA InTimeInit ==
    ASSUME OrdinaryUse, AsyncInit
    PROVE  InTimeInv
  <1>1. Init /\ blank = NoRender
    BY DEF AsyncInit
  <1>2. GoodDevice(Device)
    BY <1>1, InitIInv, OfDevice
  <1>3. Device.initialized /\ Current(Device)
    BY <1>1, DeviceFields DEF Init, Current, EmptyStore
  <1> QED
    BY <1>1, <1>2, <1>3 DEF InTimeInv, Good

----------------------------------------------------------------------------
(* Theorems about the device.                                              *)

(* As long as no removal came too late, the tasks of clients leave the     *)
(* device as R alone would: pages show operations of their own plot, laid  *)
(* out for the size they have and clipped as they were drawn, and the      *)
(* client knows of them.  While a page is cleared and not yet redrawn that *)
(* is so of the store before resize.                                       *)
THEOREM AsyncInTime == ASSUME OrdinaryUse PROVE AsyncSpec => []InTimeInv
  <1>1. AsyncInit => InTimeInv
    BY InTimeInit
  <1>2. CallsInv /\ InTimeInv /\ [AsyncNext]_asyncVars => InTimeInv'
    BY InTimeStep
  <1> QED
    BY <1>1, <1>2, AsyncCalls, PTL DEF AsyncSpec

(* Unless a removal came too late no task ends in an R error, which would  *)
(* leave its future unset and the client waiting for ever.                 *)
THEOREM AsyncNoneLost == ASSUME OrdinaryUse PROVE AsyncSpec => []NoneLost
  <1>1. AsyncInit => NoneLost
    BY DEF AsyncInit, NoneLost
  <1>2. CallsInv /\ InTimeInv /\ NoneLost /\ [AsyncNext]_asyncVars => NoneLost'
    BY NoneLostStep
  <1> QED
    BY <1>1, <1>2, AsyncCalls, AsyncInTime, PTL DEF AsyncSpec

(* Pages, history and open drawing stay those of the same plots while      *)
(* clients render and remove, unless a removal came too late.              *)
THEOREM AsyncAlignedInTime == ASSUME OrdinaryUse PROVE AsyncSpec => []AlignedInTime
  <1>1. InTimeInv => AlignedInTime
    <2> SUFFICES ASSUME InTimeInv, InTime PROVE Aligned
      BY DEF AlignedInTime
    <2>1. CASE blank = NoRender
      <3>1. Lists(Device) /\ (target.newest >= 0 => OpenPage(Device))
        BY <2>1, DeviceFields DEF InTimeInv, Good, GoodDevice
      <3> QED
        BY <3>1, DeviceFields DEF Lists, OpenPage, Aligned, Pages
    <2>2. CASE blank # NoRender
      <3> DEFINE i == blank.index
                 z == blank.size
      <3>1. PICK s \in Store : /\ Good([Device EXCEPT !.store = s])
                               /\ store = Resize(s, i, z)
        BY <2>2 DEF InTimeInv
      <3> DEFINE d == [Device EXCEPT !.store = s]
      <3>2. /\ d.store = s /\ d.target = target /\ d.history = history
            /\ d.displayList = displayList
        BY DeviceWithStore, Zenon
      <3>d. Good(d)
        BY <3>1
      <3> HIDE DEF d
      <3>3. i \in 0..target.newest /\ z \in Size
        BY <2>2 DEF InTimeInv
      <3>4. /\ Lists(d) /\ (target.newest >= 0 => OpenPage(d)) /\ target.newest \in Int
        BY <3>d, <3>2, DeviceAssumption DEF Good, GoodDevice, DeviceType, Target
      <3>5. i \in Nat /\ i < Len(s.pages)
        <4>1. Len(s.pages) = IF target.newest < 0 THEN 0 ELSE target.newest + 1
          BY <3>2, <3>4 DEF Lists
        <4> QED
          BY <3>3, <3>4, <4>1
      <3> HIDE DEF i, z
      <3>6. /\ OnlyPage(s, store, i + 1)
            /\ store.pages[i + 1].id = s.pages[i + 1].id
        BY <3>1, <3>3, <3>5, ResizeStore
      <3>7. /\ Len(store.pages) = Len(s.pages)
            /\ \A n \in 1..Len(s.pages) : store.pages[n].id = s.pages[n].id
        BY <3>6 DEF OnlyPage
      <3>8. /\ Len(s.pages) = IF target.newest < 0 THEN 0 ELSE target.newest + 1
            /\ Len(history) \in IF target.newest < 0 THEN {0}
                                ELSE {target.newest, target.newest + 1}
            /\ \A n \in 1..Len(history) : history[n].plot = s.pages[n].id
            /\ target.newest >= 0 => displayList.plot = s.pages[target.newest + 1].id
        BY <3>2, <3>4 DEF Lists, OpenPage
      <3>9. /\ \A n \in 1..Len(history) : n \in 1..Len(s.pages)
            /\ target.newest >= 0 => target.newest + 1 \in 1..Len(s.pages)
        BY <3>4, <3>8
      <3> QED
        BY <3>7, <3>8, <3>9 DEF Aligned, Pages
    <2> QED
      BY <2>1, <2>2
  <1> QED
    BY <1>1, AsyncInTime, PTL
=============================================================================
