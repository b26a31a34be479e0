--------------------------- MODULE RenderingProofs ---------------------------
(***************************************************************************)
(* Proofs about Rendering: a page holds what R drew on it, and what each   *)
(* renderer makes of a page shows it, whatever is drawn.                   *)
(***************************************************************************)
EXTENDS Rendering, SequenceLemmas, SequenceTheorems

----------------------------------------------------------------------------
(* Sequences.                                                              *)

LEMMA LastOf ==
    ASSUME NEW S, NEW q \in Seq(S), q # <<>>
    PROVE  Last(q) = q[Len(q)] /\ Len(q) \in 1..Len(q) /\ Last(q) \in S
  BY DEF Last

(* The flattening of SequencesExt is the one the lemmas are about.         *)
LEMMA FlattenSame == ASSUME NEW q PROVE FlattenSeq(q) = Flatten(q)
  BY DEF FlattenSeq, Flatten

LEMMA FlattenSeqEmpty == FlattenSeq(<<>>) = <<>>
  BY FlattenSame, FlattenEmpty

LEMMA FlattenSeqSequence ==
    ASSUME NEW S, NEW ss \in Seq(Seq(S))
    PROVE  FlattenSeq(ss) \in Seq(S)
  BY FlattenSame, FlattenSequence

LEMMA FlattenSeqOne ==
    ASSUME NEW S, NEW s \in Seq(S)
    PROVE  FlattenSeq(<<s>>) = s
  BY FlattenSame, FlattenOne

LEMMA FlattenSeqPrefix ==
    ASSUME NEW S, NEW m, NEW n \in Nat, \A k \in 1..(n + 1) : m[k] \in Seq(S)
    PROVE  /\ FlattenSeq([k \in 1..(n + 1) |-> m[k]])
                = FlattenSeq([k \in 1..n |-> m[k]]) \o m[n + 1]
           /\ FlattenSeq([k \in 1..n |-> m[k]]) \in Seq(S)
  BY FlattenSame, FlattenPrefix

----------------------------------------------------------------------------
(* Rectangles and boxes.                                                   *)

Lo(a, b) == IF a < b THEN a ELSE b
Hi(a, b) == IF a < b THEN b ELSE a

LEMMA MinMax ==
    ASSUME NEW a \in Int, NEW b \in Int
    PROVE  /\ Min({a, b}) = Lo(a, b) /\ Max({a, b}) = Hi(a, b)
           /\ Lo(a, b) \in Int /\ Hi(a, b) \in Int
  BY DEF Min, Max, Lo, Hi

LEMMA JoinPairs ==
    ASSUME NEW a, NEW b, NEW c, NEW d
    PROVE  <<a, b>> \o <<c, d>> = <<a, b, c, d>>
  <1> DEFINE S == {a, b, c, d}
             p == <<a, b>>
             q == <<c, d>>
             r == <<a, b, c, d>>
  <1>1. /\ p \in Seq(S) /\ Len(p) = 2 /\ p[1] = a /\ p[2] = b
        /\ q \in Seq(S) /\ Len(q) = 2 /\ q[1] = c /\ q[2] = d
        /\ r \in Seq(S) /\ Len(r) = 4 /\ r[1] = a /\ r[2] = b /\ r[3] = c /\ r[4] = d
    OBVIOUS
  <1> HIDE DEF p, q, r, S
  <1>2. /\ p \o q \in Seq(S) /\ Len(p \o q) = 4
        /\ \A n \in 1..4 : (p \o q)[n] = IF n <= 2 THEN p[n] ELSE q[n - 2]
    <2>1. /\ p \o q \in Seq(S) /\ Len(p \o q) = Len(p) + Len(q)
          /\ \A n \in 1..(Len(p) + Len(q)) :
                (p \o q)[n] = IF n <= Len(p) THEN p[n] ELSE q[n - Len(p)]
      BY <1>1, ConcatProperties
    <2> QED
      BY <1>1, <2>1
  <1>3. \A n \in 1..4 : (p \o q)[n] = r[n]
    <2> TAKE n \in 1..4
    <2>1. n = 1 \/ n = 2 \/ n = 3 \/ n = 4
      OBVIOUS
    <2> QED
      BY <1>1, <1>2, <2>1
  <1>4. p \o q = r
    BY <1>1, <1>2, <1>3, SameSequence
  <1> QED
    BY <1>4 DEF p, q, r

LEMMA JoinOne == ASSUME NEW a, NEW b PROVE Append(<<a>>, b) = <<a, b>>
  <1> DEFINE S == {a, b}
             p == <<a>>
             q == Append(p, b)
             r == <<a, b>>
  <1>1. /\ p \in Seq(S) /\ Len(p) = 1 /\ p[1] = a /\ b \in S
        /\ r \in Seq(S) /\ Len(r) = 2 /\ r[1] = a /\ r[2] = b
    OBVIOUS
  <1> HIDE DEF p, r, S
  <1>2. q \in Seq(S) /\ Len(q) = 2 /\ q[2] = b /\ q[1] = p[1]
    <2>1. p \in Seq(S) /\ b \in S
      BY <1>1
    <2>2. /\ q \in Seq(S) /\ Len(q) = Len(p) + 1
          /\ \A i \in 1..Len(p) : q[i] = p[i]
          /\ q[Len(p) + 1] = b
      BY <2>1, AppendProperties
    <2> HIDE DEF q
    <2> QED
      BY <1>1, <2>2
  <1>3. \A n \in 1..2 : q[n] = r[n]
    <2> TAKE n \in 1..2
    <2>1. n = 1 \/ n = 2
      OBVIOUS
    <2> QED
      BY <1>1, <1>2, <2>1
  <1> HIDE DEF q
  <1>4. q = r
    BY <1>1, <1>2, <1>3, SameSequence
  <1> QED
    BY <1>4 DEF p, q, r

LEMMA BoxValue ==
    ASSUME NEW x0 \in Int, NEW y0 \in Int, NEW x1 \in Int, NEW y1 \in Int
    PROVE  /\ Box(x0, y0, x1, y1)
                = Subpath("box", <<<<Lo(x0, x1), Lo(y0, y1)>>, <<Hi(x0, x1), Hi(y0, y1)>>>>)
           /\ Box(x0, y0, x1, y1) \in ABox
  <1> DEFINE p == <<Lo(x0, x1), Lo(y0, y1)>>
             q == <<Hi(x0, x1), Hi(y0, y1)>>
  <1>1. Box(x0, y0, x1, y1) = Subpath("box", <<p, q>>)
    BY MinMax DEF Box
  <1>2. p \in Point /\ q \in Point
    BY MinMax DEF Point
  <1> HIDE DEF p, q
  <1> DEFINE pts == <<p, q>>
  <1>3. pts \in Seq(Point)
    BY <1>2
  <1> HIDE DEF pts
  <1>4. Subpath("box", pts) \in ABox
    BY <1>3 DEF Subpath, ABox
  <1> QED
    BY <1>1, <1>4 DEF p, q, pts

LEMMA NormalizedRect ==
    ASSUME NEW x0 \in Int, NEW y0 \in Int, NEW x1 \in Int, NEW y1 \in Int
    PROVE  /\ NormalizeRect(x0, y0, x1, y1) \in Corners4
           /\ NormalizeRect(x0, y0, x1, y1)[3] >= 0
           /\ NormalizeRect(x0, y0, x1, y1)[4] >= 0
           /\ BoxOf(NormalizeRect(x0, y0, x1, y1)) = Box(x0, y0, x1, y1)
  <1> DEFINE a == Lo(x0, x1)
             b == Lo(y0, y1)
             w == IF x0 < x1 THEN x1 - x0 ELSE x0 - x1
             h == IF y0 < y1 THEN y1 - y0 ELSE y0 - y1
  <1>1. NormalizeRect(x0, y0, x1, y1) = <<a, b, w, h>>
    BY MinMax DEF NormalizeRect
  <1>2. a \in Int /\ b \in Int /\ w \in Nat /\ h \in Nat
    <2>1. a \in Int /\ b \in Int
      BY MinMax
    <2>2. w \in Nat /\ h \in Nat
      OBVIOUS
    <2> QED
      BY <2>1, <2>2
  <1>3. /\ Lo(a, a + w) = Lo(x0, x1) /\ Hi(a, a + w) = Hi(x0, x1)
        /\ Lo(b, b + h) = Lo(y0, y1) /\ Hi(b, b + h) = Hi(y0, y1)
    BY DEF Lo, Hi
  <1> HIDE DEF a, b, w, h
  <1>4. BoxOf(<<a, b, w, h>>) = Box(a, b, a + w, b + h)
    BY <1>2 DEF BoxOf
  <1>5. Box(a, b, a + w, b + h) = Box(x0, y0, x1, y1)
    <2> DEFINE e == a + w
               f == b + h
    <2>1. e \in Int /\ f \in Int
      BY <1>2
    <2>2. Lo(a, e) = Lo(x0, x1) /\ Hi(a, e) = Hi(x0, x1) /\ Lo(b, f) = Lo(y0, y1) /\ Hi(b, f) = Hi(y0, y1)
      BY <1>3
    <2> HIDE DEF e, f
    <2>3. Box(a, b, e, f) = Subpath("box", <<<<Lo(a, e), Lo(b, f)>>, <<Hi(a, e), Hi(b, f)>>>>)
      BY <1>2, <2>1, BoxValue
    <2>4. Box(x0, y0, x1, y1)
            = Subpath("box", <<<<Lo(x0, x1), Lo(y0, y1)>>, <<Hi(x0, x1), Hi(y0, y1)>>>>)
      BY BoxValue
    <2>5. Box(a, b, e, f) = Box(x0, y0, x1, y1)
      BY <2>2, <2>3, <2>4
    <2> QED
      BY <2>5 DEF e, f
  <1>6. <<a, b, w, h>> \in Corners4
    BY <1>2 DEF Corners4
  <1> QED
    BY <1>1, <1>2, <1>4, <1>5, <1>6

(* The rectangle of a clip is in the page's list as it was asked for.      *)
LEMMA ClipRectBox ==
    ASSUME NEW p, p.size \in Size, NEW c \in Corners4
    PROVE  /\ ClipRect(p, c) \in Rect
           /\ BoxOf(RectOfClip(ClipRect(p, c))) = Box(c[1], c[2], c[3], c[4])
  <1> DEFINE rect == NormalizeRect(c[1], c[2], c[3], c[4])
  <1>1. c[1] \in Int /\ c[2] \in Int /\ c[3] \in Int /\ c[4] \in Int
    BY DEF Corners4
  <1>2. rect \in Corners4 /\ BoxOf(rect) = Box(c[1], c[2], c[3], c[4])
    BY <1>1, NormalizedRect
  <1>3. ClipRect(p, c) = IF rect = <<0, 0, p.size[1], p.size[2]>> THEN Full(p.size)
                         ELSE <<"rect", rect>>
    BY DEF ClipRect
  <1> HIDE DEF rect
  <1>4. CASE rect = <<0, 0, p.size[1], p.size[2]>>
    <2>1. <<0, 0>> \o p.size = <<0, 0, p.size[1], p.size[2]>>
      <3>1. p.size = <<p.size[1], p.size[2]>>
        BY DEF Size
      <3> QED
        BY <3>1, JoinPairs
    <2>2. RectOfClip(Full(p.size)) = rect
      BY <1>4, <2>1 DEF RectOfClip, Full
    <2>3. Full(p.size) \in Rect
      BY DEF Full, Rect
    <2> QED
      BY <1>2, <1>3, <1>4, <2>2, <2>3
  <1>5. CASE rect # <<0, 0, p.size[1], p.size[2]>>
    <2>1. RectOfClip(<<"rect", rect>>) = rect
      BY DEF RectOfClip
    <2>2. <<"rect", rect>> \in Rect
      BY <1>2 DEF Rect
    <2> QED
      BY <1>2, <1>3, <1>5, <2>1, <2>2
  <1> QED
    BY <1>4, <1>5

LEMMA FullBox ==
    ASSUME NEW size \in Size
    PROVE  /\ Full(size) \in Rect
           /\ RectOfClip(Full(size)) = <<0, 0, size[1], size[2]>>
           /\ BoxOf(RectOfClip(Full(size))) = PageBox(size)
           /\ PageBox(size) \in ABox
  <1>1. size = <<size[1], size[2]>> /\ size[1] \in Nat /\ size[2] \in Nat
    BY DEF Size
  <1>2. RectOfClip(Full(size)) = <<0, 0, size[1], size[2]>>
    <2>1. <<0, 0>> \o size = <<0, 0, size[1], size[2]>>
      BY <1>1, JoinPairs
    <2> QED
      BY <2>1 DEF RectOfClip, Full
  <1>3. BoxOf(<<0, 0, size[1], size[2]>>) = PageBox(size)
    <2>1. 0 + size[1] = size[1] /\ 0 + size[2] = size[2]
      BY <1>1
    <2> QED
      BY <1>1, <2>1 DEF BoxOf, PageBox
  <1>4. PageBox(size) \in ABox
    <2>1. 0 \in Int /\ size[1] \in Int /\ size[2] \in Int
      BY <1>1
    <2> QED
      BY <2>1, BoxValue DEF PageBox
  <1>5. Full(size) \in Rect
    BY DEF Full, Rect
  <1> QED
    BY <1>2, <1>3, <1>4, <1>5

(* The corners of a box make the same clip as those that it was made of.   *)
LEMMA ClipOfTheBox ==
    ASSUME NEW p, p.size \in Size, NEW c \in Corners4
    PROVE  ClipOfBox(p.size, Box(c[1], c[2], c[3], c[4])) = ClipRect(p, c)
  <1> DEFINE a == Lo(c[1], c[3])
             b == Lo(c[2], c[4])
             d == Hi(c[1], c[3])
             e == Hi(c[2], c[4])
             q == <<a, b, d, e>>
             box == Box(c[1], c[2], c[3], c[4])
  <1>1. c[1] \in Int /\ c[2] \in Int /\ c[3] \in Int /\ c[4] \in Int
    BY DEF Corners4
  <1>2. a \in Int /\ b \in Int /\ d \in Int /\ e \in Int
    BY <1>1, MinMax
  <1>3. box.pts = <<<<a, b>>, <<d, e>>>>
    <2>1. box = Subpath("box", <<<<a, b>>, <<d, e>>>>)
      BY <1>1, BoxValue
    <2> HIDE DEF a, b, d, e, box
    <2> QED
      BY <2>1 DEF Subpath
  <1>4. NormalizeRect(a, b, d, e) = NormalizeRect(c[1], c[2], c[3], c[4])
    <2> DEFINE w == IF c[1] < c[3] THEN c[3] - c[1] ELSE c[1] - c[3]
               h == IF c[2] < c[4] THEN c[4] - c[2] ELSE c[2] - c[4]
               w2 == IF a < d THEN d - a ELSE a - d
               h2 == IF b < e THEN e - b ELSE b - e
    <2>1. NormalizeRect(c[1], c[2], c[3], c[4]) = <<a, b, w, h>>
      BY <1>1, MinMax DEF NormalizeRect
    <2>2. NormalizeRect(a, b, d, e) = <<Lo(a, d), Lo(b, e), w2, h2>>
      <3> HIDE DEF a, b, d, e
      <3> QED
        BY <1>2, MinMax DEF NormalizeRect
    <2>3. Lo(a, d) = a /\ Lo(b, e) = b /\ w2 = w /\ h2 = h
      BY <1>1 DEF Lo, Hi
    <2> HIDE DEF a, b, d, e, w, h, w2, h2
    <2> QED
      BY <2>1, <2>2, <2>3
  <1> HIDE DEF a, b, d, e, box
  <1>5. box.pts[1] \o box.pts[2] = q
    <2>1. box.pts[1] = <<a, b>> /\ box.pts[2] = <<d, e>>
      BY <1>3
    <2> QED
      BY <2>1, JoinPairs
  <1>6. ClipOfBox(p.size, box) = ClipRect([size |-> p.size], q)
    BY <1>5 DEF ClipOfBox
  <1>7. ClipRect([size |-> p.size], q) = ClipRect(p, c)
    BY <1>4 DEF ClipRect
  <1> QED
    BY <1>6, <1>7 DEF box

LEMMA ClipOfThePage ==
    ASSUME NEW size \in Size
    PROVE  ClipOfBox(size, PageBox(size)) = Full(size)
  <1> DEFINE p == [size |-> size]
             c == <<0, 0, size[1], size[2]>>
  <1>1. p.size = size /\ size[1] \in Nat /\ size[2] \in Nat /\ c \in Corners4
    BY DEF Size, Corners4
  <1>2. c[1] = 0 /\ c[2] = 0 /\ c[3] = size[1] /\ c[4] = size[2]
    OBVIOUS
  <1> HIDE DEF p, c
  <1>3. ClipOfBox(p.size, Box(c[1], c[2], c[3], c[4])) = ClipRect(p, c)
    BY <1>1, ClipOfTheBox
  <1>4. NormalizeRect(0, 0, size[1], size[2]) = <<0, 0, size[1], size[2]>>
    <2>1. /\ Min({0, size[1]}) = 0 /\ Min({0, size[2]}) = 0
          /\ (IF 0 < size[1] THEN size[1] - 0 ELSE 0 - size[1]) = size[1]
          /\ (IF 0 < size[2] THEN size[2] - 0 ELSE 0 - size[2]) = size[2]
      <3>1. /\ Min({0, size[1]}) = Lo(0, size[1]) /\ Min({0, size[2]}) = Lo(0, size[2])
        BY <1>1, MinMax
      <3> QED
        BY <1>1, <3>1 DEF Lo
    <2> QED
      BY <2>1 DEF NormalizeRect
  <1>5. ClipRect(p, c) = Full(size)
    BY <1>1, <1>2, <1>4 DEF ClipRect
  <1> QED
    BY <1>1, <1>2, <1>3, <1>5 DEF PageBox

----------------------------------------------------------------------------
(* Pages.                                                                  *)

Ops == {DrawCall(call) : call \in Calls}
DcSet == [op : Ops, clip : Nat]
CpSet == [id : Nat, rect : Rect]
PageSet == [id : {0}, size : Size, dcs : Seq(DcSet), cps : Seq(CpSet)]

(* Clips are numbered from 0.                                              *)
Numbered(p) == \A k \in DOMAIN p.cps : p.cps[k].id = k - 1

(* A clip comes last, or is there already; the clips before it stay.       *)
LEMMA WithClipKeeps ==
    ASSUME NEW p \in PageSet, Numbered(p), NEW rect \in Rect
    PROVE  LET e == WithClip(p, rect) IN
             /\ e \in PageSet /\ Numbered(e)
             /\ e.size = p.size /\ e.dcs = p.dcs
             /\ Len(e.cps) \in {Len(p.cps), Len(p.cps) + 1}
             /\ Len(e.cps) >= 1
             /\ \A k \in 1..Len(p.cps) : e.cps[k] = p.cps[k]
             /\ e.cps[Len(e.cps)].rect = rect
  <1> DEFINE n == Len(p.cps)
  <1>1. p.cps \in Seq(CpSet) /\ n \in Nat
    BY DEF PageSet
  <1>2. CASE p.cps # <<>> /\ Last(p.cps).rect = rect
    <2>1. WithClip(p, rect) = p
      BY <1>2 DEF WithClip
    <2>2. Last(p.cps) = p.cps[n] /\ n \in 1..n
      BY <1>1, <1>2, LastOf
    <2> QED
      BY <1>1, <1>2, <2>1, <2>2
  <1>3. CASE ~(p.cps # <<>> /\ Last(p.cps).rect = rect)
    <2> DEFINE c == [id |-> n, rect |-> rect]
               cs == Append(p.cps, c)
    <2>1. WithClip(p, rect) = [p EXCEPT !.cps = cs]
      BY <1>3 DEF WithClip
    <2>2. c \in CpSet /\ c.id = n /\ c.rect = rect
      BY <1>1 DEF CpSet
    <2> HIDE DEF c
    <2>3. /\ cs \in Seq(CpSet) /\ Len(cs) = n + 1 /\ cs[n + 1] = c
          /\ \A k \in 1..n : cs[k] = p.cps[k]
      BY <1>1, <2>2
    <2> HIDE DEF cs
    <2>4. LET e == [p EXCEPT !.cps = cs] IN
            e \in PageSet /\ e.size = p.size /\ e.dcs = p.dcs /\ e.cps = cs
      BY <2>3 DEF PageSet
    <2>5. \A k \in DOMAIN cs : cs[k].id = k - 1
      <3> TAKE k \in DOMAIN cs
      <3>1. k \in 1..n \/ k = n + 1
        BY <1>1, <2>3
      <3>2. DOMAIN p.cps = 1..n
        BY <1>1
      <3> QED
        BY <1>1, <2>2, <2>3, <3>1, <3>2 DEF Numbered
    <2> QED
      BY <1>1, <2>1, <2>2, <2>3, <2>4, <2>5 DEF Numbered
  <1> QED
    BY <1>2, <1>3

(* There is one more clip, unless it is the last one again.                *)
LEMMA WithClipGrows ==
    ASSUME NEW p \in PageSet, Len(p.cps) >= 1, NEW rect
    PROVE  LET n == Len(p.cps)
               e == WithClip(p, rect) IN
             IF p.cps[n].rect = rect THEN e = p ELSE Len(e.cps) = n + 1
  <1> DEFINE n == Len(p.cps)
             cs == Append(p.cps, [id |-> n, rect |-> rect])
  <1>1. p.cps \in Seq(CpSet) /\ n \in Nat /\ p.cps # <<>>
    BY DEF PageSet
  <1>2. Last(p.cps) = p.cps[n]
    BY <1>1, LastOf
  <1>3. CASE p.cps[n].rect = rect
    BY <1>1, <1>2, <1>3 DEF WithClip
  <1>4. CASE p.cps[n].rect # rect
    <2>1. WithClip(p, rect) = [p EXCEPT !.cps = cs]
      BY <1>2, <1>4 DEF WithClip
    <2>2. Len(cs) = n + 1
      BY <1>1
    <2> HIDE DEF cs
    <2>3. [p EXCEPT !.cps = cs].cps = cs
      BY DEF PageSet
    <2> QED
      BY <1>4, <2>1, <2>2, <2>3
  <1> QED
    BY <1>3, <1>4

(* An empty page with the clip that covers it.                             *)
LEMMA FreshPage ==
    ASSUME NEW size \in Size
    PROVE  LET e == NewPage(0, size) IN
             /\ e \in PageSet /\ Numbered(e)
             /\ e.size = size /\ e.dcs = <<>> /\ Len(e.cps) = 1
             /\ e.cps[1].rect = Full(size)
  <1> DEFINE p == [id |-> 0, size |-> size, dcs |-> <<>>, cps |-> <<>>]
  <1>1. <<>> \in Seq(DcSet) /\ <<>> \in Seq(CpSet)
    OBVIOUS
  <1>2. p \in PageSet /\ p.size = size /\ p.dcs = <<>> /\ p.cps = <<>>
    BY <1>1 DEF PageSet
  <1>3. NewPage(0, size) = WithClip(p, Full(size))
    BY DEF NewPage
  <1> HIDE DEF p
  <1>4. Numbered(p) /\ Len(p.cps) = 0
    BY <1>2 DEF Numbered
  <1>5. Full(size) \in Rect
    BY FullBox
  <1> DEFINE e == WithClip(p, Full(size))
  <1>6. /\ e \in PageSet /\ Numbered(e) /\ e.size = p.size /\ e.dcs = p.dcs
        /\ Len(e.cps) \in {Len(p.cps), Len(p.cps) + 1} /\ Len(e.cps) >= 1
        /\ e.cps[Len(e.cps)].rect = Full(size)
    BY <1>2, <1>4, <1>5, WithClipKeeps
  <1> HIDE DEF e
  <1>7. Len(e.cps) = 1
    BY <1>4, <1>6
  <1> QED
    BY <1>2, <1>3, <1>6, <1>7 DEF e

LEMMA ClearedPage ==
    ASSUME NEW p \in PageSet, NEW size \in Size
    PROVE  Cleared([p EXCEPT !.size = size]) = NewPage(0, size)
  <1> DEFINE q == [p EXCEPT !.size = size]
             e == [[q EXCEPT !.dcs = <<>>] EXCEPT !.cps = <<>>]
             f == [id |-> 0, size |-> size, dcs |-> <<>>, cps |-> <<>>]
  <1>1. p = [id |-> 0, size |-> p.size, dcs |-> p.dcs, cps |-> p.cps]
    BY DEF PageSet
  <1>2. q = [id |-> 0, size |-> size, dcs |-> p.dcs, cps |-> p.cps]
    BY <1>1
  <1>3. e = f /\ q.size = size
    <2> DEFINE g == [q EXCEPT !.dcs = <<>>]
    <2> HIDE DEF q
    <2>1. g = [id |-> 0, size |-> size, dcs |-> <<>>, cps |-> p.cps]
      BY <1>2
    <2> HIDE DEF g
    <2>2. [g EXCEPT !.cps = <<>>] = f
      BY <2>1
    <2> QED
      BY <1>2, <2>2 DEF g
  <1>4. Cleared(q) = WithClip(e, Full(q.size))
    BY DEF Cleared
  <1> HIDE DEF q, e, f
  <1>5. Cleared(q) = WithClip(f, Full(size))
    BY <1>3, <1>4
  <1>6. NewPage(0, size) = WithClip(f, Full(size))
    BY DEF NewPage, f
  <1> QED
    BY <1>5, <1>6 DEF q

(* A draw call comes last, with the id of the last clip.                   *)
LEMMA WithDcKeeps ==
    ASSUME NEW p \in PageSet, Numbered(p), Len(p.cps) >= 1, NEW op \in Ops
    PROVE  LET e == WithDcs(p, <<op>>)
               n == Len(p.dcs) IN
             /\ e \in PageSet /\ e.cps = p.cps /\ e.size = p.size
             /\ Len(e.dcs) = n + 1
             /\ \A k \in 1..n : e.dcs[k] = p.dcs[k]
             /\ e.dcs[n + 1].op = op /\ e.dcs[n + 1].clip = Len(p.cps) - 1
  <1> DEFINE n == Len(p.dcs)
             m == Len(p.cps)
             dc == [op |-> op, clip |-> m - 1]
             one == <<dc>>
             ds == p.dcs \o one
  <1>1. p.cps \in Seq(CpSet) /\ m \in Nat /\ p.dcs \in Seq(DcSet) /\ n \in Nat
    BY DEF PageSet
  <1>2. Last(p.cps).id = m - 1
    <2>1. p.cps # <<>>
      BY <1>1
    <2>2. Last(p.cps) = p.cps[m] /\ m \in 1..m
      BY <1>1, <2>1, LastOf
    <2>3. DOMAIN p.cps = 1..m
      BY <1>1
    <2> QED
      BY <2>2, <2>3 DEF Numbered
  <1>3. [k \in 1..Len(<<op>>) |-> [op |-> <<op>>[k], clip |-> Last(p.cps).id]] = one
    <2>1. 1..Len(<<op>>) = {1}
      OBVIOUS
    <2>2. one = [k \in {1} |-> dc]
      OBVIOUS
    <2> QED
      BY <1>2, <2>1, <2>2
  <1>4. WithDcs(p, <<op>>) = [p EXCEPT !.dcs = ds]
    BY <1>3 DEF WithDcs
  <1>5. dc \in DcSet /\ dc.op = op /\ dc.clip = m - 1
    BY <1>1 DEF DcSet
  <1> HIDE DEF dc
  <1>6. ds = Append(p.dcs, dc)
    BY <1>1, <1>5, AppendProperties, ConcatProperties
  <1>7. /\ ds \in Seq(DcSet) /\ Len(ds) = n + 1 /\ ds[n + 1] = dc
        /\ \A k \in 1..n : ds[k] = p.dcs[k]
    BY <1>1, <1>5, <1>6
  <1> HIDE DEF ds
  <1>8. LET e == [p EXCEPT !.dcs = ds] IN
          e \in PageSet /\ e.size = p.size /\ e.cps = p.cps /\ e.dcs = ds
    BY <1>7 DEF PageSet
  <1> QED
    BY <1>1, <1>4, <1>5, <1>7, <1>8

----------------------------------------------------------------------------
(* The invariant.                                                          *)

AskedSet == [call : Calls, clip : ABox]

LEMMA TypeParts ==
    TypeOK <=> /\ page \in PageSet /\ fill \in Color /\ asked \in Seq(AskedSet)
               /\ boxes \in Seq(ABox)
               /\ Len(asked) <= MaxCalls /\ Len(page.cps) \in 1..MaxClips
  BY DEF TypeOK, PageSet, DcSet, CpSet, Ops, AskedSet

(* The clips of a page are those of the boxes, in order.                   *)
Clipped(p, bs) ==
    /\ Len(p.cps) = Len(bs)
    /\ \A k \in 1..Len(bs) : /\ p.cps[k].rect = ClipOfBox(p.size, bs[k])
                             /\ BoxOf(RectOfClip(p.cps[k].rect)) = bs[k]

LEMMA RecordedParts ==
    ASSUME page \in PageSet
    PROVE  ClipsRecorded <=> Numbered(page) /\ Clipped(page, boxes)
  <1>1. DOMAIN page.cps = 1..Len(page.cps)
    BY DEF PageSet
  <1>2. \A k \in 1..Len(page.cps) : k - 1 + 1 = k
    BY DEF PageSet
  <1> QED
    BY <1>1, <1>2 DEF ClipsRecorded, Numbered, Clipped, BoxOfId

LEMMA RecordedPartsNext ==
    ASSUME page' \in PageSet
    PROVE  ClipsRecorded' <=> Numbered(page') /\ Clipped(page', boxes')
  <1>1. DOMAIN page'.cps = 1..Len(page'.cps)
    BY DEF PageSet
  <1>2. \A k \in 1..Len(page'.cps) : k - 1 + 1 = k
    BY DEF PageSet
  <1> QED
    BY <1>1, <1>2 DEF ClipsRecorded, Numbered, Clipped, BoxOfId

(* A page that begins is clipped to its own box.                           *)
LEMMA ClippedFresh ==
    ASSUME NEW p, NEW size \in Size, p.size = size, Len(p.cps) = 1,
           p.cps[1].rect = Full(size)
    PROVE  Clipped(p, <<PageBox(size)>>) /\ <<PageBox(size)>> \in Seq(ABox)
  <1> DEFINE b == PageBox(size)
             bs == <<b>>
  <1>1. ClipOfBox(size, b) = Full(size) /\ BoxOf(RectOfClip(Full(size))) = b /\ b \in ABox
    BY ClipOfThePage, FullBox
  <1> HIDE DEF b
  <1>2. Len(bs) = 1 /\ bs[1] = b /\ bs \in Seq(ABox)
    BY <1>1
  <1> HIDE DEF bs
  <1>3. \A k \in 1..Len(bs) : k = 1
    BY <1>2
  <1>4. Clipped(p, bs)
    BY <1>1, <1>2, <1>3 DEF Clipped
  <1> QED
    BY <1>2, <1>4 DEF b, bs

LEMMA FillIsColor == ASSUME NEW col \in Color PROVE PageFill(col) \in Color
  BY RenderingAssumption DEF PageFill

(* A page that begins.                                                     *)
LEMMA Begun ==
    ASSUME NEW b \in Begins, page' = NewPage(0, b.size), fill' = PageFill(b.fill),
           asked' = <<>>, boxes' = <<PageBox(b.size)>>
    PROVE  IInv'
  <1>1. b.size \in Size /\ b.fill \in Color
    BY RenderingAssumption
  <1>2. /\ page' \in PageSet /\ Numbered(page') /\ page'.dcs = <<>>
        /\ Len(page'.cps) = 1 /\ page'.cps[1].rect = Full(b.size)
        /\ page'.size = b.size
    BY <1>1, FreshPage
  <1>3. TypeOK'
    <2>1. /\ MaxClips \in Nat /\ MaxClips >= 1 /\ MaxCalls \in Nat
      BY RenderingAssumption
    <2>2. fill' \in Color
      BY <1>1, FillIsColor
    <2>3. asked' \in Seq(AskedSet) /\ Len(asked') = 0
      OBVIOUS
    <2>4. Len(page'.cps) = 1
      BY <1>2
    <2>5. Len(asked') <= MaxCalls /\ Len(page'.cps) \in 1..MaxClips
      <3> DEFINE m == Len(page'.cps)
                 n == Len(asked')
      <3> HIDE DEF m, n
      <3>1. m = 1 /\ n = 0
        BY <2>3, <2>4 DEF m, n
      <3>2. n <= MaxCalls /\ m \in 1..MaxClips
        BY <2>1, <3>1
      <3> QED
        BY <3>2 DEF m, n
    <2>6. boxes' \in Seq(ABox)
      BY <1>1, <1>2, ClippedFresh
    <2> QED
      BY <1>2, <2>2, <2>3, <2>5, <2>6 DEF TypeOK, PageSet, DcSet, CpSet, Ops, AskedSet
  <1>4. ClipsRecorded'
    <2>1. Clipped(page', boxes')
      BY <1>1, <1>2, ClippedFresh
    <2> QED
      BY <1>2, <2>1, RecordedPartsNext
  <1>5. CallsRecorded'
    <2>1. Len(page'.dcs) = Len(asked') /\ DOMAIN asked' = {}
      BY <1>2
    <2> QED
      BY <2>1 DEF CallsRecorded
  <1> QED
    BY <1>3, <1>4, <1>5 DEF IInv

LEMMA InitIInv == Init => IInv
  <1> SUFFICES ASSUME NEW b \in Begins, page = NewPage(0, b.size),
                      fill = PageFill(b.fill), asked = <<>>, boxes = <<PageBox(b.size)>>
               PROVE  IInv
    BY DEF Init
  <1>1. b.size \in Size /\ b.fill \in Color
    BY RenderingAssumption
  <1>2. /\ page \in PageSet /\ Numbered(page) /\ page.dcs = <<>>
        /\ Len(page.cps) = 1 /\ page.cps[1].rect = Full(b.size)
        /\ page.size = b.size
    BY <1>1, FreshPage
  <1>3. TypeOK
    <2>1. /\ MaxClips \in Nat /\ MaxClips >= 1 /\ MaxCalls \in Nat
      BY RenderingAssumption
    <2>2. fill \in Color
      BY <1>1, FillIsColor
    <2>3. asked \in Seq(AskedSet) /\ Len(asked) = 0
      OBVIOUS
    <2>4. Len(page.cps) = 1
      BY <1>2
    <2>5. Len(asked) <= MaxCalls /\ Len(page.cps) \in 1..MaxClips
      <3> DEFINE m == Len(page.cps)
                 n == Len(asked)
      <3> HIDE DEF m, n
      <3>1. m = 1 /\ n = 0
        BY <2>3, <2>4 DEF m, n
      <3>2. n <= MaxCalls /\ m \in 1..MaxClips
        BY <2>1, <3>1
      <3> QED
        BY <3>2 DEF m, n
    <2>6. boxes \in Seq(ABox)
      BY <1>1, <1>2, ClippedFresh
    <2> QED
      BY <1>2, <2>2, <2>3, <2>5, <2>6, TypeParts
  <1>4. ClipsRecorded
    <2>1. Clipped(page, boxes)
      BY <1>1, <1>2, ClippedFresh
    <2> QED
      BY <1>2, <2>1, RecordedParts
  <1>5. CallsRecorded
    <2>1. Len(page.dcs) = Len(asked) /\ DOMAIN asked = {}
      BY <1>2
    <2> QED
      BY <2>1 DEF CallsRecorded
  <1> QED
    BY <1>3, <1>4, <1>5 DEF IInv

LEMMA ReplayIInv == ASSUME IInv, Replay PROVE IInv'
  <1>1. PICK b \in Begins :
            /\ page' = Cleared([page EXCEPT !.size = b.size])
            /\ fill' = PageFill(b.fill) /\ asked' = <<>> /\ boxes' = <<PageBox(b.size)>>
    BY DEF Replay
  <1>2. b.size \in Size /\ page \in PageSet
    BY RenderingAssumption, TypeParts DEF IInv
  <1>3. page' = NewPage(0, b.size)
    BY <1>1, <1>2, ClearedPage
  <1> QED
    BY <1>1, <1>3, Begun

(* What the invariant says of the ids of clips.                            *)
LEMMA ClipBoxes ==
    ASSUME IInv
    PROVE  /\ page \in PageSet /\ Numbered(page) /\ Len(page.cps) \in Nat \ {0}
           /\ Len(page.cps) <= MaxClips
           /\ asked \in Seq(AskedSet) /\ Len(asked) <= MaxCalls /\ fill \in Color
           /\ Len(page.dcs) = Len(asked) /\ Len(asked) \in Nat
           /\ \A n \in 1..Len(asked) :
                 /\ page.dcs[n].op = DrawCall(asked[n].call)
                 /\ page.dcs[n].clip \in 0..(Len(page.cps) - 1)
                 /\ BoxOf(RectOfClip(page.cps[page.dcs[n].clip + 1].rect)) = asked[n].clip
  <1>1. /\ page \in PageSet /\ asked \in Seq(AskedSet) /\ Len(page.cps) \in Nat \ {0}
        /\ Len(page.cps) <= MaxClips /\ Len(asked) <= MaxCalls /\ fill \in Color
    BY TypeParts, RenderingAssumption DEF IInv
  <1>3. Numbered(page)
    BY <1>1, RecordedParts DEF IInv
  <1>4. DOMAIN asked = 1..Len(asked) /\ Len(asked) \in Nat
    BY <1>1
  <1>5. /\ Len(page.dcs) = Len(asked)
        /\ \A n \in 1..Len(asked) :
              /\ page.dcs[n].op = DrawCall(asked[n].call)
              /\ page.dcs[n].clip \in 0..(Len(page.cps) - 1)
              /\ BoxOf(RectOfClip(page.cps[page.dcs[n].clip + 1].rect)) = asked[n].clip
    BY <1>4 DEF IInv, CallsRecorded, BoxOfId
  <1> QED
    BY <1>1, <1>3, <1>4, <1>5

(* What it says of the boxes.                                              *)
LEMMA BoxList ==
    ASSUME IInv
    PROVE  /\ boxes \in Seq(ABox) /\ Clipped(page, boxes)
           /\ Last(boxes) = boxes[Len(page.cps)] /\ Last(boxes) \in ABox
           /\ BoxOf(RectOfClip(page.cps[Len(page.cps)].rect)) = Last(boxes)
  <1>1. boxes \in Seq(ABox) /\ page \in PageSet /\ Len(page.cps) \in 1..MaxClips
    BY TypeParts DEF IInv
  <1>2. Clipped(page, boxes)
    BY <1>1, RecordedParts DEF IInv
  <1>3. Len(page.cps) = Len(boxes) /\ Len(boxes) \in 1..Len(boxes) /\ boxes # <<>>
    BY <1>1, <1>2 DEF Clipped
  <1>4. Last(boxes) = boxes[Len(boxes)]
    BY <1>1, <1>3, LastOf
  <1> QED
    BY <1>1, <1>2, <1>3, <1>4 DEF Clipped

LEMMA DevClipIInv == ASSUME IInv, DevClip PROVE IInv'
  <1>1. PICK c \in ClipCorners :
            /\ Len(page.cps) < MaxClips /\ page' = WithClip(page, ClipRect(page, c))
            /\ boxes' = IF Box(c[1], c[2], c[3], c[4]) = Last(boxes) THEN boxes
                        ELSE Append(boxes, Box(c[1], c[2], c[3], c[4]))
            /\ fill' = fill /\ asked' = asked
    BY DEF DevClip
  <1> DEFINE m == Len(page.cps)
             m2 == Len(page'.cps)
             N == Len(asked)
             rect == ClipRect(page, c)
             box == Box(c[1], c[2], c[3], c[4])
  <1>2. /\ page \in PageSet /\ Numbered(page) /\ m \in Nat \ {0} /\ m < MaxClips
        /\ asked \in Seq(AskedSet) /\ N <= MaxCalls /\ fill \in Color
        /\ Len(page.dcs) = N /\ N \in Nat
    BY <1>1, ClipBoxes
  <1>3. \A n \in 1..N :
            /\ page.dcs[n].op = DrawCall(asked[n].call)
            /\ page.dcs[n].clip \in 0..(m - 1)
            /\ BoxOf(RectOfClip(page.cps[page.dcs[n].clip + 1].rect)) = asked[n].clip
    BY ClipBoxes
  <1>4. c \in Corners4 /\ page.size \in Size
    BY <1>2, RenderingAssumption DEF PageSet
  <1>5. rect \in Rect /\ BoxOf(RectOfClip(rect)) = box
    BY <1>4, ClipRectBox
  <1>6. /\ page' \in PageSet /\ Numbered(page') /\ page'.dcs = page.dcs
        /\ m2 \in {m, m + 1} /\ m2 >= 1
        /\ \A k \in 1..m : page'.cps[k] = page.cps[k]
        /\ page'.cps[m2].rect = rect /\ page'.size = page.size
    BY <1>1, <1>2, <1>5, WithClipKeeps
  <1>7. DOMAIN asked = 1..N
    BY <1>2
  <1>11. box \in ABox /\ ClipOfBox(page.size, box) = rect
    <2>1. c[1] \in Int /\ c[2] \in Int /\ c[3] \in Int /\ c[4] \in Int
      BY <1>4 DEF Corners4
    <2> QED
      BY <1>4, <2>1, BoxValue, ClipOfTheBox
  <1>12. boxes' = IF box = Last(boxes) THEN boxes ELSE Append(boxes, box)
    BY <1>1
  <1>13. IF page.cps[m].rect = rect THEN page' = page ELSE m2 = m + 1
    BY <1>1, <1>2, WithClipGrows
  <1> HIDE DEF m, m2, N, rect, box
  <1>14. /\ boxes \in Seq(ABox) /\ Len(boxes) = m /\ Last(boxes) = boxes[m]
         /\ \A k \in 1..m : /\ page.cps[k].rect = ClipOfBox(page.size, boxes[k])
                            /\ BoxOf(RectOfClip(page.cps[k].rect)) = boxes[k]
    BY BoxList DEF Clipped, m
  <1>15. boxes' \in Seq(ABox) /\ Clipped(page', boxes')
    <2>1. m \in 1..m
      BY <1>2
    <2>2. box = Last(boxes) <=> page.cps[m].rect = rect
      BY <1>5, <1>11, <1>14, <2>1
    <2>3. CASE box = Last(boxes)
      BY <1>12, <1>13, <1>14, <2>2, <2>3 DEF Clipped, m
    <2>4. CASE box # Last(boxes)
      <3> DEFINE bs == Append(boxes, box)
      <3>1. /\ bs \in Seq(ABox) /\ Len(bs) = m + 1 /\ bs[m + 1] = box
            /\ \A k \in 1..m : bs[k] = boxes[k]
        BY <1>11, <1>14
      <3>2. boxes' = bs /\ m2 = m + 1
        BY <1>12, <1>13, <2>2, <2>4
      <3> HIDE DEF bs
      <3>3. ASSUME NEW k \in 1..(m + 1)
            PROVE  /\ page'.cps[k].rect = ClipOfBox(page'.size, bs[k])
                   /\ BoxOf(RectOfClip(page'.cps[k].rect)) = bs[k]
        <4>1. CASE k \in 1..m
          BY <1>6, <1>14, <3>1, <4>1
        <4>2. CASE k = m + 1
          BY <1>5, <1>6, <1>11, <3>1, <3>2, <4>2
        <4> QED
          BY <1>2, <4>1, <4>2
      <3> QED
        BY <3>1, <3>2, <3>3 DEF Clipped, m2
    <2> QED
      BY <2>3, <2>4
  <1>8. TypeOK'
    <2>1. m2 \in 1..MaxClips
      BY <1>2, <1>6, RenderingAssumption
    <2> QED
      BY <1>1, <1>2, <1>6, <1>15, <2>1
      DEF TypeOK, PageSet, DcSet, CpSet, Ops, AskedSet, m2, N
  <1>9. ClipsRecorded'
    BY <1>6, <1>15, RecordedPartsNext
  <1>10. CallsRecorded'
    <2>1. ASSUME NEW n \in 1..N
          PROVE  /\ page'.dcs[n].op = DrawCall(asked'[n].call)
                 /\ page'.dcs[n].clip \in 0..(m2 - 1)
                 /\ BoxOf(RectOfClip(page'.cps[page'.dcs[n].clip + 1].rect)) = asked'[n].clip
      <3> DEFINE i == page.dcs[n].clip
      <3>1. i \in 0..(m - 1) /\ i + 1 \in 1..m /\ i \in 0..(m2 - 1)
        BY <1>2, <1>3, <1>6
      <3> HIDE DEF i
      <3>2. page'.cps[i + 1] = page.cps[i + 1]
        BY <1>6, <3>1
      <3> QED
        BY <1>1, <1>3, <1>6, <3>1, <3>2 DEF i
    <2> QED
      BY <1>1, <1>2, <1>6, <1>7, <2>1 DEF CallsRecorded, BoxOfId, m2, N
  <1> QED
    BY <1>8, <1>9, <1>10 DEF IInv

LEMMA DevDrawIInv == ASSUME IInv, DevDraw PROVE IInv'
  <1>1. PICK call \in Calls :
            /\ Len(page.dcs) < MaxCalls
            /\ page' = WithDcs(page, <<DrawCall(call)>>)
            /\ asked' = Append(asked, [call |-> call, clip |-> Last(boxes)])
            /\ fill' = fill /\ boxes' = boxes
    BY DEF DevDraw
  <1> DEFINE m == Len(page.cps)
             N == Len(asked)
             box == Last(boxes)
             a == [call |-> call, clip |-> box]
             op == DrawCall(call)
  <1>2. /\ page \in PageSet /\ Numbered(page) /\ m \in Nat \ {0} /\ m <= MaxClips
        /\ asked \in Seq(AskedSet) /\ N < MaxCalls /\ fill \in Color
        /\ Len(page.dcs) = N /\ N \in Nat
        /\ BoxOf(RectOfClip(page.cps[m].rect)) = box /\ box \in ABox
    BY <1>1, ClipBoxes, BoxList
  <1>3. \A n \in 1..N :
            /\ page.dcs[n].op = DrawCall(asked[n].call)
            /\ page.dcs[n].clip \in 0..(m - 1)
            /\ BoxOf(RectOfClip(page.cps[page.dcs[n].clip + 1].rect)) = asked[n].clip
    BY ClipBoxes
  <1> HIDE DEF box
  <1>4. op \in Ops /\ a \in AskedSet /\ a.call = call /\ a.clip = box
    BY <1>2 DEF Ops, AskedSet
  <1>5. /\ page' \in PageSet /\ page'.cps = page.cps /\ page'.size = page.size
        /\ Len(page'.dcs) = N + 1
        /\ \A k \in 1..N : page'.dcs[k] = page.dcs[k]
        /\ page'.dcs[N + 1].op = op /\ page'.dcs[N + 1].clip = m - 1
    <2>1. m >= 1
      BY <1>2
    <2> QED
      BY <1>1, <1>2, <1>4, <2>1, WithDcKeeps
  <1>6. asked' = Append(asked, a)
    BY <1>1 DEF box
  <1> HIDE DEF m, N, a, op
  <1>7. /\ asked' \in Seq(AskedSet) /\ Len(asked') = N + 1 /\ asked'[N + 1] = a
        /\ \A k \in 1..N : asked'[k] = asked[k]
        /\ DOMAIN asked' = 1..(N + 1)
    BY <1>2, <1>4, <1>6 DEF N
  <1>8. TypeOK'
    <2>1. Len(asked') <= MaxCalls
      BY <1>2, <1>7, RenderingAssumption
    <2>2. m \in 1..MaxClips
      BY <1>2, RenderingAssumption
    <2>3. boxes' \in Seq(ABox)
      BY <1>1, BoxList
    <2> QED
      BY <1>1, <1>2, <1>5, <1>7, <2>1, <2>2, <2>3
      DEF TypeOK, PageSet, DcSet, CpSet, Ops, AskedSet, m
  <1>9. ClipsRecorded'
    <2>1. Numbered(page') /\ Clipped(page', boxes')
      BY <1>1, <1>2, <1>5, BoxList DEF Numbered, Clipped
    <2> QED
      BY <1>5, <2>1, RecordedPartsNext
  <1>10. CallsRecorded'
    <2>1. ASSUME NEW n \in 1..(N + 1)
          PROVE  /\ page'.dcs[n].op = DrawCall(asked'[n].call)
                 /\ page'.dcs[n].clip \in 0..(m - 1)
                 /\ BoxOf(RectOfClip(page.cps[page'.dcs[n].clip + 1].rect)) = asked'[n].clip
      <3>1. CASE n \in 1..N
        BY <1>3, <1>5, <1>7, <3>1
      <3>2. CASE n = N + 1
        <4>1. m - 1 + 1 = m /\ m - 1 \in 0..(m - 1)
          BY <1>2
        <4> QED
          BY <1>2, <1>4, <1>5, <1>7, <3>2, <4>1 DEF op
      <3> QED
        BY <1>2, <3>1, <3>2
    <2> QED
      BY <1>5, <1>7, <2>1 DEF CallsRecorded, BoxOfId, m
  <1> QED
    BY <1>8, <1>9, <1>10 DEF IInv

(* A page holds what R drew on it, in order and clipped as R clipped it:   *)
(* dev_newPage, dev_clip and the drawing callbacks keep the history and the*)
(* page together.                                                          *)
THEOREM RenderingIInv == Spec => []IInv
  <1>1. Init => IInv
    BY InitIInv
  <1>2. IInv /\ [Next]_vars => IInv'
    <2> SUFFICES ASSUME IInv, [Next]_vars PROVE IInv'
      OBVIOUS
    <2>1. CASE Replay
      BY <2>1, ReplayIInv
    <2>2. CASE DevClip
      BY <2>2, DevClipIInv
    <2>3. CASE DevDraw
      BY <2>3, DevDrawIInv
    <2>4. CASE UNCHANGED vars
      BY <2>4 DEF vars, IInv, TypeOK, ClipsRecorded, CallsRecorded, BoxOfId
    <2> QED
      BY <2>1, <2>2, <2>3, <2>4 DEF Next
  <1> QED
    BY <1>1, <1>2, PTL DEF Spec

----------------------------------------------------------------------------
(* Paths.  The loop of visit(const Path* ) and what its commands draw are  *)
(* followed together, point by point.                                      *)

Adding == INSTANCE SequenceLemmas WITH Op <- LAMBDA sum, x : sum + x
Tracing == INSTANCE SequenceLemmas WITH Op <- Trace
Pointing == INSTANCE SequenceLemmas WITH Op <- PathPoint

LEMMA SumFold == ASSUME NEW q PROVE SumSeq(q) = Adding!Fold(0, q)
  BY DEF SumSeq, FoldLeft, MapThenFoldSet, Max,
         Adding!Fold, Adding!Largest

LEMMA TraceFold == ASSUME NEW path, NEW q PROVE Traced(path, q) = Tracing!Fold(path, q)
  BY DEF Traced, FoldLeft, MapThenFoldSet, Max,
         Tracing!Fold, Tracing!Largest

PathBase(nper) == [left |-> 0, polys |-> nper, cmds |-> <<>>]

LEMMA PointFold ==
    ASSUME NEW points, NEW nper
    PROVE  PathCommands(points, nper) = Pointing!Fold(PathBase(nper), points).cmds
  BY DEF PathCommands, PathBase, FoldLeft, MapThenFoldSet, Max,
         Pointing!Fold, Pointing!Largest

(* How many points the first k subpaths have.                              *)
UpTo(nper, k) == SumSeq(SubSeq(nper, 1, k))

LEMMA UpToFirst == ASSUME NEW nper PROVE UpTo(nper, 0) = 0
  <1>1. SubSeq(nper, 1, 0) = <<>>
    BY DEF SubSeq
  <1>2. SumSeq(<<>>) = 0
    BY SumFold, Adding!FoldEmpty
  <1> QED
    BY <1>1, <1>2 DEF UpTo

LEMMA UpToNext ==
    ASSUME NEW nper \in Seq(Nat), NEW k \in Nat, k < Len(nper)
    PROVE  UpTo(nper, k + 1) = UpTo(nper, k) + nper[k + 1]
  <1> DEFINE p == SubSeq(nper, 1, k)
             x == nper[k + 1]
  <1>1. /\ p \in Seq(Nat) /\ x \in Nat
        /\ SubSeq(nper, 1, k + 1) = Append(p, x)
    BY FirstAppend
  <1> HIDE DEF p, x
  <1>2. Adding!Fold(0, Append(p, x)) = Adding!Fold(0, p) + x
    BY <1>1, Adding!FoldAppend
  <1> QED
    BY <1>1, <1>2, SumFold DEF UpTo, p, x

(* Every subpath has two points or more, so the counts grow.               *)
LEMMA UpToGrows ==
    ASSUME NEW nper \in Seq(Nat \ {0, 1}), NEW i \in 0..Len(nper)
    PROVE  /\ UpTo(nper, i) \in Nat
           /\ \A k \in 0..Len(nper) : i < k => UpTo(nper, i) < UpTo(nper, k)
  <1> DEFINE n == Len(nper)
             U == [k \in 0..n |-> UpTo(nper, k)]
  <1>1. n \in Nat /\ nper \in Seq(Nat)
    OBVIOUS
  <1>2. \A k \in 0..n : U[k] = UpTo(nper, k)
    OBVIOUS
  <1>3. U[0] = 0
    BY <1>1, UpToFirst
  <1>4. \A k \in Nat : k < n => U[k + 1] = U[k] + nper[k + 1] /\ nper[k + 1] \in Nat \ {0}
    <2> TAKE k \in Nat
    <2> HAVE k < n
    <2>1. k \in 0..n /\ k + 1 \in 0..n /\ k + 1 \in 1..n
      BY <1>1
    <2> QED
      BY <1>1, <2>1, UpToNext
  <1> HIDE DEF U, n
  <1>5. \A k \in Nat : k <= n => U[k] \in Nat
    <2> DEFINE S == {k \in Nat : k <= n => U[k] \in Nat}
    <2>1. 0 \in S
      BY <1>3
    <2>2. \A k \in Nat : k \in S => k + 1 \in S
      BY <1>1, <1>4
    <2> QED
      <3> HIDE DEF S
      <3>1. Nat \subseteq S
        BY <2>1, <2>2, SetInduction
      <3> QED
        BY <3>1 DEF S
  <1>6. \A k \in Nat : k <= n /\ i < k => U[i] < U[k]
    <2> DEFINE S == {k \in Nat : k <= n /\ i < k => U[i] < U[k]}
    <2>1. 0 \in S
      BY <1>1 DEF n
    <2>2. \A k \in Nat : k \in S => k + 1 \in S
      <3> TAKE k \in Nat
      <3> HAVE k \in S
      <3>1. SUFFICES ASSUME k + 1 <= n, i < k + 1 PROVE U[i] < U[k + 1]
        OBVIOUS
      <3>2. /\ i \in Nat /\ k < n /\ U[k + 1] = U[k] + nper[k + 1]
            /\ nper[k + 1] \in Nat \ {0} /\ U[k] \in Nat
        BY <1>1, <1>4, <1>5, <3>1 DEF n
      <3>3. CASE i = k
        BY <3>2, <3>3
      <3>4. CASE i < k
        <4>1. k <= n /\ i <= n /\ i \in Nat
          BY <1>1, <3>2, <3>4
        <4>2. U[i] < U[k]
          BY <3>4, <4>1
        <4> HIDE DEF S
        <4>3. U[i] \in Nat
          BY <1>5, <4>1
        <4> QED
          BY <3>2, <4>2, <4>3
      <3> QED
        BY <3>1, <3>2, <3>3, <3>4
    <2> QED
      <3> HIDE DEF S
      <3>1. Nat \subseteq S
        BY <2>1, <2>2, SetInduction
      <3> QED
        BY <3>1 DEF S
  <1>7. i \in Nat /\ i <= n /\ i \in 0..n
    BY <1>1 DEF n
  <1>8. UpTo(nper, i) \in Nat
    BY <1>2, <1>5, <1>7
  <1>9. \A k \in 0..n : i < k => UpTo(nper, i) < UpTo(nper, k)
    BY <1>1, <1>2, <1>6, <1>7
  <1> QED
    BY <1>8, <1>9 DEF n

Cmd == [cmd : {"M", "L"}, at : Point] \cup {ClosePath}
Subpaths == [shape : {"open", "closed"}, pts : Seq(Point), rot : {0}]

(* The kth subpath of a path, and what there is of it after j points.      *)
Piece(points, nper, k) ==
    Subpath("closed", SubSeq(points, UpTo(nper, k - 1) + 1, UpTo(nper, k)))
Unfinished(points, nper, k, j) == Subpath("open", SubSeq(points, UpTo(nper, k - 1) + 1, j))

(* After j points the commands are those of k subpaths, the last of which  *)
(* gets l more points.                                                     *)
PathSoFar(points, nper, j, k, l, polys, cmds, t) ==
    /\ k \in 0..Len(nper) /\ l \in Nat
    /\ UpTo(nper, k) = j + l
    /\ k # 0 => UpTo(nper, k - 1) <= j
    /\ polys \in Seq(Nat \ {0, 1}) /\ Len(polys) = Len(nper) - k
    /\ \A i \in 1..Len(polys) : polys[i] = nper[k + i]
    /\ cmds \in Seq(Cmd) /\ t = Traced(<<>>, cmds)
    /\ t \in Seq(Subpaths) /\ Len(t) = k
    /\ \A i \in 1..k : t[i] = IF i < k \/ l = 0 THEN Piece(points, nper, i)
                              ELSE Unfinished(points, nper, i, j)

LEMMA TraceOne ==
    ASSUME NEW cmds \in Seq(Cmd), NEW c \in Cmd
    PROVE  Traced(<<>>, Append(cmds, c)) = Trace(Traced(<<>>, cmds), c)
  <1>1. Tracing!Fold(<<>>, Append(cmds, c)) = Trace(Tracing!Fold(<<>>, cmds), c)
    BY Tracing!FoldAppend
  <1> QED
    BY <1>1, TraceFold

LEMMA CommandsTyped ==
    ASSUME NEW p \in Point
    PROVE  MoveTo(p) \in Cmd /\ LineTo(p) \in Cmd /\ ClosePath \in Cmd
  BY DEF MoveTo, LineTo, ClosePath, Cmd

LEMMA TraceMove ==
    ASSUME NEW t, NEW p
    PROVE  Trace(t, MoveTo(p)) = Append(t, Subpath("open", <<p>>))
  BY DEF Trace, MoveTo

LEMMA TraceLine ==
    ASSUME NEW t \in Seq(Subpaths), t # <<>>, NEW p \in Point
    PROVE  LET n == Len(t)
               e == Trace(t, LineTo(p)) IN
             /\ e \in Seq(Subpaths) /\ Len(e) = n
             /\ \A i \in 1..n : i # n => e[i] = t[i]
             /\ e[n] = [t[n] EXCEPT !.pts = Append(t[n].pts, p)]
  <1> DEFINE n == Len(t)
             s == [t[n] EXCEPT !.pts = Append(t[n].pts, p)]
             e == [t EXCEPT ![n] = s]
  <1>1. Trace(t, LineTo(p)) = e
    BY DEF Trace, LineTo
  <1>2. n \in Nat \ {0} /\ t[n] \in Subpaths
    OBVIOUS
  <1>3. s \in Subpaths
    <2>1. Append(t[n].pts, p) \in Seq(Point)
      BY <1>2 DEF Subpaths
    <2> QED
      BY <1>2, <2>1 DEF Subpaths
  <1> HIDE DEF s
  <1>4. e \in Seq(Subpaths) /\ Len(e) = n /\ e[n] = s /\ \A i \in 1..n : i # n => e[i] = t[i]
    BY <1>2, <1>3
  <1> QED
    BY <1>1, <1>4 DEF s

LEMMA TraceClose ==
    ASSUME NEW t \in Seq(Subpaths), t # <<>>
    PROVE  LET n == Len(t)
               e == Trace(t, ClosePath) IN
             /\ e \in Seq(Subpaths) /\ Len(e) = n
             /\ \A i \in 1..n : i # n => e[i] = t[i]
             /\ e[n] = [t[n] EXCEPT !.shape = "closed"]
  <1> DEFINE n == Len(t)
             s == [t[n] EXCEPT !.shape = "closed"]
             e == [t EXCEPT ![n] = s]
  <1>1. Trace(t, ClosePath) = e
    BY DEF Trace, ClosePath
  <1>2. n \in Nat \ {0} /\ t[n] \in Subpaths
    OBVIOUS
  <1>3. s \in Subpaths
    BY <1>2 DEF Subpaths
  <1> HIDE DEF s
  <1>4. e \in Seq(Subpaths) /\ Len(e) = n /\ e[n] = s /\ \A i \in 1..n : i # n => e[i] = t[i]
    BY <1>2, <1>3
  <1> QED
    BY <1>1, <1>4 DEF s

(* A subpath gets its next point.                                          *)
LEMMA NextPoint ==
    ASSUME NEW points \in Seq(Point), NEW a \in Nat, NEW j \in Nat, a <= j, j < Len(points)
    PROVE  /\ SubSeq(points, a + 1, j + 1) = Append(SubSeq(points, a + 1, j), points[j + 1])
           /\ SubSeq(points, a + 1, j) \in Seq(Point) /\ points[j + 1] \in Point
  <1> DEFINE q == SubSeq(points, a + 1, j)
             r == SubSeq(points, a + 1, j + 1)
             x == points[j + 1]
             c == Append(q, x)
  <1>1. x \in Point /\ j + 1 \in Nat
    OBVIOUS
  <1>2. /\ q \in Seq(Point) /\ Len(q) = j - a
        /\ \A i \in 1..(j - a) : q[i] = points[a + i]
    BY SubSeqProperties
  <1>3. /\ r \in Seq(Point) /\ Len(r) = j + 1 - a
        /\ \A i \in 1..(j + 1 - a) : r[i] = points[a + i]
    BY SubSeqProperties
  <1> HIDE DEF q, r, x
  <1>4. /\ c \in Seq(Point) /\ Len(c) = j - a + 1 /\ c[j - a + 1] = x
        /\ \A i \in 1..(j - a) : c[i] = q[i]
    BY <1>1, <1>2
  <1> HIDE DEF c
  <1>5. \A i \in 1..(j + 1 - a) : c[i] = r[i]
    <2> TAKE i \in 1..(j + 1 - a)
    <2>1. CASE i \in 1..(j - a)
      BY <1>2, <1>3, <1>4, <2>1
    <2>2. CASE i = j - a + 1
      <3>1. a + i = j + 1
        BY <2>2
      <3> QED
        BY <1>3, <1>4, <2>2, <3>1 DEF x
    <2> QED
      BY <2>1, <2>2
  <1>6. Len(c) = Len(r)
    BY <1>3, <1>4
  <1>7. c = r
    BY <1>3, <1>4, <1>5, <1>6, SameSequence
  <1> QED
    BY <1>1, <1>2, <1>7 DEF c, q, r, x

LEMMA FirstOfSubpath ==
    ASSUME NEW nper \in Seq(Nat \ {0, 1}), NEW points \in Seq(Point), NEW j \in Nat,
           j < Len(points), Len(points) = SumSeq(nper),
           NEW k, NEW polys, NEW cmds, NEW t,
           PathSoFar(points, nper, j, k, 0, polys, cmds, t)
    PROVE  LET p == points[j + 1]
               n == Append(cmds, MoveTo(p)) IN
             PathSoFar(points, nper, j + 1, k + 1, Head(polys) - 1, Tail(polys), n,
                       Traced(<<>>, n))
  <1> DEFINE p == points[j + 1]
             n == Append(cmds, MoveTo(p))
             u == Traced(<<>>, n)
             m == Len(nper)
             s == Subpath("open", <<p>>)
  <1>1. /\ k \in 0..m /\ UpTo(nper, k) = j
        /\ polys \in Seq(Nat \ {0, 1}) /\ Len(polys) = m - k
        /\ \A i \in 1..Len(polys) : polys[i] = nper[k + i]
        /\ cmds \in Seq(Cmd) /\ t = Traced(<<>>, cmds)
        /\ t \in Seq(Subpaths) /\ Len(t) = k
        /\ \A i \in 1..k : t[i] = Piece(points, nper, i)
    <2>1. UpTo(nper, k) = j + 0
      BY DEF PathSoFar
    <2>2. j + 0 = j
      OBVIOUS
    <2>3. \A i \in 1..k : t[i] = Piece(points, nper, i)
      BY DEF PathSoFar
    <2> QED
      BY <2>1, <2>2, <2>3 DEF PathSoFar
  <1>2. m \in Nat /\ k \in Nat /\ nper \in Seq(Nat) /\ p \in Point
    BY <1>1
  <1>3. k < m
    <2>1. SubSeq(nper, 1, m) = nper
      BY <1>2
    <2>2. UpTo(nper, m) = Len(points)
      BY <2>1 DEF UpTo
    <2>3. k # m
      BY <1>1, <2>2
    <2> QED
      BY <1>1, <1>2, <2>3
  <1>4. /\ Head(polys) = nper[k + 1] /\ Head(polys) - 1 \in Nat /\ Head(polys) - 1 # 0
        /\ nper[k + 1] \in Nat
    <2>1. 1 \in 1..Len(polys)
      BY <1>1, <1>2, <1>3
    <2>2. Head(polys) = polys[1] /\ polys[1] \in Nat \ {0, 1}
      BY <1>1, <2>1
    <2>3. polys[1] = nper[k + 1]
      BY <1>1, <2>1
    <2> QED
      BY <2>2, <2>3
  <1>5. UpTo(nper, k + 1) = (j + 1) + (Head(polys) - 1)
    <2>1. UpTo(nper, k + 1) = UpTo(nper, k) + nper[k + 1]
      BY <1>2, <1>3, UpToNext
    <2> DEFINE x == nper[k + 1]
    <2> HIDE DEF x
    <2>2. UpTo(nper, k + 1) = j + x /\ Head(polys) = x /\ x \in Nat
      BY <1>1, <1>4, <2>1 DEF x
    <2>3. j + x = (j + 1) + (x - 1)
      BY <2>2
    <2> QED
      BY <2>2, <2>3
  <1>6. /\ Tail(polys) \in Seq(Nat \ {0, 1}) /\ Len(Tail(polys)) = m - (k + 1)
        /\ \A i \in 1..Len(Tail(polys)) : Tail(polys)[i] = nper[(k + 1) + i]
    <2> DEFINE q == Tail(polys)
    <2>1. polys # <<>>
      BY <1>1, <1>2, <1>3
    <2>2. /\ q \in Seq(Nat \ {0, 1}) /\ Len(q) = Len(polys) - 1
          /\ \A i \in 1..Len(q) : q[i] = polys[i + 1]
      BY <1>1, <2>1, HeadTailProperties
    <2> HIDE DEF q
    <2>3. ASSUME NEW i \in 1..Len(q) PROVE q[i] = nper[(k + 1) + i]
      <3>1. i + 1 \in 1..Len(polys) /\ k + (i + 1) = (k + 1) + i
        BY <1>1, <1>2, <2>2
      <3> QED
        BY <1>1, <2>2, <3>1
    <2> QED
      BY <1>1, <1>2, <2>2, <2>3 DEF q
  <1>7. n \in Seq(Cmd) /\ u = Append(t, s)
    <2>1. MoveTo(p) \in Cmd
      BY <1>2, CommandsTyped
    <2> QED
      BY <1>1, <2>1, TraceOne, TraceMove
  <1>8. s \in Subpaths
    <2>1. <<p>> \in Seq(Point)
      BY <1>2
    <2> QED
      BY <2>1 DEF Subpath, Subpaths
  <1>9. s = Unfinished(points, nper, k + 1, j + 1)
    <2>1. (k + 1) - 1 = k
      BY <1>2
    <2>2. SubSeq(points, j + 1, j + 1) = Append(SubSeq(points, j + 1, j), p)
      BY NextPoint
    <2>3. SubSeq(points, j + 1, j) = <<>>
      BY SubSeqProperties
    <2>4. Append(<<>>, p) = <<p>>
      OBVIOUS
    <2>5. SubSeq(points, UpTo(nper, (k + 1) - 1) + 1, j + 1) = <<p>>
      BY <1>1, <2>1, <2>2, <2>3, <2>4
    <2>6. Unfinished(points, nper, k + 1, j + 1)
            = Subpath("open", SubSeq(points, UpTo(nper, (k + 1) - 1) + 1, j + 1))
      BY DEF Unfinished
    <2> HIDE DEF p
    <2> QED
      BY <2>5, <2>6, Zenon
  <1> HIDE DEF n, u, s, p, m
  <1>10. /\ u \in Seq(Subpaths) /\ Len(u) = k + 1 /\ u[k + 1] = s
         /\ \A i \in 1..k : u[i] = t[i]
    <2>1. t \in Seq(Subpaths) /\ Len(t) = k
      BY <1>1
    <2> QED
      BY <1>7, <1>8, <2>1, AppendProperties
  <1> DEFINE l == Head(polys) - 1
             h == k + 1
  <1>11. \A i \in 1..h : u[i] = IF i < h \/ l = 0 THEN Piece(points, nper, i)
                                ELSE Unfinished(points, nper, i, j + 1)
    <2> TAKE i \in 1..h
    <2>1. CASE i \in 1..k
      <3>1. i < h
        BY <1>2, <2>1
      <3> QED
        BY <1>1, <1>10, <2>1, <3>1
    <2>2. CASE i = h
      BY <1>2, <1>4, <1>9, <1>10, <2>2
    <2> QED
      BY <1>2, <2>1, <2>2
  <1>12. h \in 0..m /\ h # 0 /\ h - 1 = k
    BY <1>2, <1>3
  <1>13. UpTo(nper, h - 1) <= j + 1
    BY <1>1, <1>12
  <1> QED
    BY <1>1, <1>4, <1>5, <1>6, <1>7, <1>10, <1>11, <1>12, <1>13 DEF PathSoFar, n, p, u, m

LEMMA LineOfSubpath ==
    ASSUME NEW nper \in Seq(Nat \ {0, 1}), NEW points \in Seq(Point), NEW j \in Nat,
           j < Len(points),
           NEW k, NEW l, NEW polys, NEW cmds, NEW t, l # 0,
           PathSoFar(points, nper, j, k, l, polys, cmds, t)
    PROVE  LET c == LineTo(points[j + 1])
               u == Trace(t, c)
               a == Append(cmds, c) IN
             /\ u \in Seq(Subpaths) /\ Len(u) = k /\ k # 0 /\ k \in Nat
             /\ \A i \in 1..(k - 1) : u[i] = Piece(points, nper, i)
             /\ u[k] = Unfinished(points, nper, k, j + 1)
             /\ a \in Seq(Cmd) /\ Traced(<<>>, a) = u
  <1> DEFINE p == points[j + 1]
             u == Trace(t, LineTo(p))
  <1>1. /\ k \in 0..Len(nper) /\ l \in Nat /\ UpTo(nper, k) = j + l
        /\ k # 0 => UpTo(nper, k - 1) <= j
        /\ cmds \in Seq(Cmd) /\ t = Traced(<<>>, cmds)
        /\ t \in Seq(Subpaths) /\ Len(t) = k
        /\ \A i \in 1..k : t[i] = IF i < k THEN Piece(points, nper, i)
                                  ELSE Unfinished(points, nper, i, j)
    BY DEF PathSoFar
  <1>2. k # 0 /\ k \in Nat /\ k \in 1..k /\ ~(k < k) /\ k - 1 \in 0..Len(nper)
    BY <1>1, UpToFirst
  <1>3. p \in Point
    OBVIOUS
  <1>4. t # <<>>
    BY <1>1, <1>2
  <1>5. /\ u \in Seq(Subpaths) /\ Len(u) = k
        /\ \A i \in 1..k : i # k => u[i] = t[i]
        /\ u[k] = [t[k] EXCEPT !.pts = Append(t[k].pts, p)]
    <2>1. t \in Seq(Subpaths) /\ Len(t) = k
      BY <1>1
    <2> HIDE DEF p
    <2> QED
      BY <1>3, <1>4, <2>1, TraceLine
  <1>6. u[k] = Unfinished(points, nper, k, j + 1)
    <2> DEFINE a == UpTo(nper, k - 1)
               q == SubSeq(points, a + 1, j)
    <2>1. a \in Nat /\ a <= j
      BY <1>1, <1>2, UpToGrows
    <2>2. SubSeq(points, a + 1, j + 1) = Append(q, p)
      BY <2>1, NextPoint
    <2>3. t[k] = Subpath("open", q)
      BY <1>1, <1>2 DEF Unfinished
    <2> DEFINE z == t[k]
               y == Append(q, p)
    <2> HIDE DEF q, p, z
    <2>4. z = [shape |-> "open", pts |-> q, rot |-> 0] /\ Append(z.pts, p) = y
      BY <2>3 DEF Subpath, z
    <2> HIDE DEF y
    <2>5. [z EXCEPT !.pts = y] = Subpath("open", y)
      BY <2>4 DEF Subpath
    <2>6. [t[k] EXCEPT !.pts = Append(t[k].pts, p)] = Subpath("open", Append(q, p))
      BY <2>4, <2>5 DEF y, z
    <2> QED
      BY <1>5, <2>2, <2>6 DEF Unfinished
  <1>7. \A i \in 1..(k - 1) : u[i] = Piece(points, nper, i)
    <2> TAKE i \in 1..(k - 1)
    <2>1. i \in 1..k /\ i # k /\ i < k
      BY <1>2
    <2> QED
      BY <1>1, <1>5, <2>1
  <1>8. LineTo(p) \in Cmd
    BY <1>3, CommandsTyped
  <1> QED
    BY <1>1, <1>2, <1>5, <1>6, <1>7, <1>8, TraceOne

LEMMA MiddleOfSubpath ==
    ASSUME NEW nper \in Seq(Nat \ {0, 1}), NEW points \in Seq(Point), NEW j \in Nat,
           j < Len(points),
           NEW k, NEW l, NEW polys, NEW cmds, NEW t, l # 0, l # 1,
           PathSoFar(points, nper, j, k, l, polys, cmds, t)
    PROVE  LET n == cmds \o <<LineTo(points[j + 1])>> IN
             PathSoFar(points, nper, j + 1, k, l - 1, polys, n, Traced(<<>>, n))
  <1> DEFINE c == LineTo(points[j + 1])
             u == Trace(t, c)
             a == Append(cmds, c)
             m == Len(nper)
  <1>1. /\ u \in Seq(Subpaths) /\ Len(u) = k /\ k # 0 /\ k \in Nat
        /\ \A i \in 1..(k - 1) : u[i] = Piece(points, nper, i)
        /\ u[k] = Unfinished(points, nper, k, j + 1)
        /\ a \in Seq(Cmd) /\ Traced(<<>>, a) = u
    BY LineOfSubpath
  <1>2. /\ k \in 0..m /\ l \in Nat /\ UpTo(nper, k) = j + l
        /\ k # 0 => UpTo(nper, k - 1) <= j
        /\ polys \in Seq(Nat \ {0, 1}) /\ Len(polys) = m - k
        /\ \A i \in 1..Len(polys) : polys[i] = nper[k + i]
        /\ cmds \in Seq(Cmd)
    BY DEF PathSoFar
  <1>3. cmds \o <<c>> = a
    <2>1. c \in Cmd
      BY CommandsTyped
    <2> QED
      BY <1>2, <2>1, AppendProperties, ConcatProperties
  <1> m \in Nat
    OBVIOUS
  <1> HIDE DEF a, u, c, m
  <1>4. l - 1 \in Nat /\ l - 1 # 0 /\ UpTo(nper, k) = (j + 1) + (l - 1)
    BY <1>2
  <1>5. UpTo(nper, k - 1) <= j + 1
    <2>1. k - 1 \in 0..m
      BY <1>1, <1>2
    <2>2. UpTo(nper, k - 1) \in Nat
      BY <2>1, UpToGrows DEF m
    <2> QED
      BY <1>1, <1>2, <2>2
  <1>6. \A i \in 1..k : u[i] = IF i < k \/ l - 1 = 0 THEN Piece(points, nper, i)
                               ELSE Unfinished(points, nper, i, j + 1)
    <2> TAKE i \in 1..k
    <2>1. i \in 1..(k - 1) \/ (i = k /\ ~(i < k))
      BY <1>1
    <2> QED
      BY <1>1, <1>4, <2>1
  <1>7. PathSoFar(points, nper, j + 1, k, l - 1, polys, a, u)
    BY <1>1, <1>2, <1>4, <1>5, <1>6 DEF PathSoFar, m
  <1> QED
    BY <1>1, <1>3, <1>7 DEF c

LEMMA LastOfSubpath ==
    ASSUME NEW nper \in Seq(Nat \ {0, 1}), NEW points \in Seq(Point), NEW j \in Nat,
           j < Len(points),
           NEW k, NEW polys, NEW cmds, NEW t,
           PathSoFar(points, nper, j, k, 1, polys, cmds, t)
    PROVE  LET n == cmds \o <<LineTo(points[j + 1]), ClosePath>> IN
             PathSoFar(points, nper, j + 1, k, 0, polys, n, Traced(<<>>, n))
  <1> DEFINE c == LineTo(points[j + 1])
             u == Trace(t, c)
             a == Append(cmds, c)
             m == Len(nper)
             b == Append(a, ClosePath)
             v == Trace(u, ClosePath)
  <1>1. /\ u \in Seq(Subpaths) /\ Len(u) = k /\ k # 0 /\ k \in Nat
        /\ \A i \in 1..(k - 1) : u[i] = Piece(points, nper, i)
        /\ u[k] = Unfinished(points, nper, k, j + 1)
        /\ a \in Seq(Cmd) /\ Traced(<<>>, a) = u
    BY LineOfSubpath
  <1>2. /\ k \in 0..m /\ UpTo(nper, k) = j + 1
        /\ k # 0 => UpTo(nper, k - 1) <= j
        /\ polys \in Seq(Nat \ {0, 1}) /\ Len(polys) = m - k
        /\ \A i \in 1..Len(polys) : polys[i] = nper[k + i]
        /\ cmds \in Seq(Cmd)
    BY DEF PathSoFar
  <1>3. c \in Cmd /\ ClosePath \in Cmd
    BY CommandsTyped
  <1>4. cmds \o <<c, ClosePath>> = b
    <2>1. <<c>> \in Seq(Cmd) /\ Append(<<c>>, ClosePath) = <<c, ClosePath>>
      <3> HIDE DEF c
      <3> QED
        BY <1>3, JoinOne
    <2>2. cmds \o Append(<<c>>, ClosePath) = Append(cmds \o <<c>>, ClosePath)
      BY <1>2, <1>3, <2>1, ConcatAppend
    <2>3. cmds \o <<c>> = a
      BY <1>2, <1>3, AppendProperties, ConcatProperties
    <2> QED
      BY <2>1, <2>2, <2>3
  <1> m \in Nat
    OBVIOUS
  <1> HIDE DEF a, c, m
  <1>5. u # <<>>
    BY <1>1
  <1> HIDE DEF u
  <1>6. /\ v \in Seq(Subpaths) /\ Len(v) = k
        /\ \A i \in 1..k : i # k => v[i] = u[i]
        /\ v[k] = [u[k] EXCEPT !.shape = "closed"]
    BY <1>1, <1>5, TraceClose
  <1>7. b \in Seq(Cmd) /\ Traced(<<>>, b) = v
    BY <1>1, <1>3, TraceOne
  <1>8. v[k] = Piece(points, nper, k)
    <2> DEFINE q == SubSeq(points, UpTo(nper, k - 1) + 1, j + 1)
               z == u[k]
    <2>1. z = Subpath("open", q) /\ Piece(points, nper, k) = Subpath("closed", q)
      BY <1>1, <1>2 DEF Unfinished, Piece
    <2> HIDE DEF q, z
    <2>2. [z EXCEPT !.shape = "closed"] = Subpath("closed", q)
      BY <2>1 DEF Subpath
    <2> QED
      BY <1>6, <2>1, <2>2 DEF z
  <1> HIDE DEF v, b
  <1>9. UpTo(nper, k - 1) <= j + 1
    <2>1. k - 1 \in 0..m
      BY <1>1, <1>2
    <2>2. UpTo(nper, k - 1) \in Nat
      BY <2>1, UpToGrows DEF m
    <2> QED
      BY <1>1, <1>2, <2>2
  <1>10. \A i \in 1..k : v[i] = Piece(points, nper, i)
    <2> TAKE i \in 1..k
    <2>1. (i \in 1..(k - 1) /\ i # k) \/ i = k
      BY <1>1
    <2> QED
      BY <1>1, <1>6, <1>8, <2>1
  <1>11. PathSoFar(points, nper, j + 1, k, 0, polys, b, v)
    <2>1. UpTo(nper, k) = (j + 1) + 0 /\ 0 \in Nat
      BY <1>2
    <2> QED
      BY <1>1, <1>2, <1>6, <1>7, <1>9, <1>10, <2>1 DEF PathSoFar, m
  <1> QED
    BY <1>4, <1>7, <1>11 DEF c

(* The loop has come to a after j points.                                  *)
PathHolds(points, nper, j, a) ==
    \E k, l, polys, cmds, t :
        /\ a = [left |-> l, polys |-> polys, cmds |-> cmds]
        /\ PathSoFar(points, nper, j, k, l, polys, cmds, t)

(* One more turn of the loop.                                              *)
LEMMA PathPointStep ==
    ASSUME NEW nper \in Seq(Nat \ {0, 1}), NEW points \in Seq(Point), NEW j \in Nat,
           j < Len(points), Len(points) = SumSeq(nper),
           NEW a, PathHolds(points, nper, j, a)
    PROVE  PathHolds(points, nper, j + 1, PathPoint(a, points[j + 1]))
  <1> DEFINE p == points[j + 1]
  <1>0. PICK k, l, polys, cmds, t :
            /\ a = [left |-> l, polys |-> polys, cmds |-> cmds]
            /\ PathSoFar(points, nper, j, k, l, polys, cmds, t)
    BY DEF PathHolds
  <1>1. a.left = l /\ a.polys = polys /\ a.cmds = cmds
    BY <1>0
  <1>2. CASE l = 0
    <2> DEFINE n == Append(cmds, MoveTo(p))
    <2>1. PathPoint(a, p) = [left |-> Head(polys) - 1, polys |-> Tail(polys), cmds |-> n]
      BY <1>1, <1>2 DEF PathPoint
    <2>2. PathSoFar(points, nper, j + 1, k + 1, Head(polys) - 1, Tail(polys), n,
                    Traced(<<>>, n))
      BY <1>0, <1>2, FirstOfSubpath
    <2> HIDE DEF n, p
    <2> QED
      BY <2>1, <2>2 DEF PathHolds, p
  <1>3. CASE l = 1
    <2> DEFINE n == cmds \o <<LineTo(p), ClosePath>>
    <2>1. l # 0 /\ l - 1 = 0
      BY <1>3
    <2>2. PathPoint(a, p) = [left |-> l - 1, polys |-> polys, cmds |-> n]
      BY <1>1, <1>3, <2>1 DEF PathPoint
    <2>3. PathSoFar(points, nper, j + 1, k, 0, polys, n, Traced(<<>>, n))
      BY <1>0, <1>3, LastOfSubpath
    <2> HIDE DEF n, p
    <2>4. PathPoint(a, p) = [left |-> 0, polys |-> polys, cmds |-> n]
      BY <2>1, <2>2
    <2> QED
      BY <2>3, <2>4 DEF PathHolds, p
  <1>4. CASE l # 0 /\ l # 1
    <2> DEFINE n == cmds \o <<LineTo(p)>>
    <2>2. PathPoint(a, p) = [left |-> l - 1, polys |-> polys, cmds |-> n]
      BY <1>1, <1>4 DEF PathPoint
    <2>3. PathSoFar(points, nper, j + 1, k, l - 1, polys, n, Traced(<<>>, n))
      BY <1>0, <1>4, MiddleOfSubpath
    <2> HIDE DEF n, p
    <2> QED
      BY <2>2, <2>3 DEF PathHolds, p
  <1> QED
    BY <1>2, <1>3, <1>4

(* What path commands draw is what R asked for.                            *)
LEMMA PathTraced ==
    ASSUME NEW nper \in Seq(Nat \ {0, 1}), NEW points \in Seq(Point),
           Len(points) = SumSeq(nper)
    PROVE  /\ PathCommands(points, nper) \in Seq(Cmd)
           /\ Traced(<<>>, PathCommands(points, nper)) = Split(points, nper)
           /\ Split(points, nper) \in Seq(Subpaths)
  <1> DEFINE L == Len(points)
             m == Len(nper)
             base == PathBase(nper)
             Acc(j) == Pointing!Fold(base, SubSeq(points, 1, j))
             P(j) == PathHolds(points, nper, j, Acc(j))
             S == {j \in Nat : j <= L => P(j)}
  <1>1. L \in Nat /\ m \in Nat
    OBVIOUS
  <1>2. P(0)
    <2>1. SubSeq(points, 1, 0) = <<>>
      BY DEF SubSeq
    <2>2. Acc(0) = [left |-> 0, polys |-> nper, cmds |-> <<>>]
      BY <2>1, Pointing!FoldEmpty DEF PathBase
    <2>3. Traced(<<>>, <<>>) = <<>>
      BY TraceFold, Tracing!FoldEmpty
    <2>4. <<>> \in Seq(Cmd) /\ <<>> \in Seq(Subpaths) /\ Len(<<>>) = 0
      OBVIOUS
    <2>5. UpTo(nper, 0) = 0 + 0 /\ 0 \in 0..m
      BY <1>1, UpToFirst
    <2>6. Len(nper) = m - 0 /\ \A i \in 1..Len(nper) : nper[i] = nper[0 + i]
      BY <1>1
    <2>7. PathSoFar(points, nper, 0, 0, 0, nper, <<>>, <<>>)
      BY <2>3, <2>4, <2>5, <2>6 DEF PathSoFar
    <2> QED
      BY <2>2, <2>7 DEF PathHolds
  <1>3. ASSUME NEW j \in Nat, j < L, P(j) PROVE P(j + 1)
    <2>2. Acc(j + 1) = PathPoint(Acc(j), points[j + 1])
      <3> DEFINE q == SubSeq(points, 1, j)
                 x == points[j + 1]
      <3>1. q \in Seq(Point) /\ x \in Point /\ SubSeq(points, 1, j + 1) = Append(q, x)
        BY <1>3, FirstAppend
      <3> HIDE DEF q, x, base
      <3>2. Pointing!Fold(base, Append(q, x)) = PathPoint(Pointing!Fold(base, q), x)
        BY <3>1, Pointing!FoldAppend
      <3> QED
        BY <3>1, <3>2, Zenon DEF q, x
    <2>3. j < Len(points)
      BY <1>3
    <2> HIDE DEF Acc
    <2> QED
      BY <1>3, <2>2, <2>3, PathPointStep
  <1>4. P(L)
    <2> HIDE DEF P
    <2>1. 0 \in S
      BY <1>2
    <2>2. \A j \in Nat : j \in S => j + 1 \in S
      BY <1>1, <1>3
    <2> HIDE DEF S
    <2>3. Nat \subseteq S
      BY <2>1, <2>2, SetInduction
    <2> QED
      BY <1>1, <2>3 DEF S
  <1>5. PICK k, l, polys, cmds, t :
            /\ Acc(L) = [left |-> l, polys |-> polys, cmds |-> cmds]
            /\ PathSoFar(points, nper, L, k, l, polys, cmds, t)
    BY <1>4 DEF PathHolds
  <1>6. PathCommands(points, nper) = cmds
    <2>1. SubSeq(points, 1, L) = points
      OBVIOUS
    <2>2. PathCommands(points, nper) = Acc(L).cmds
      BY <2>1, PointFold
    <2> QED
      BY <1>5, <2>2
  <1>7. UpTo(nper, m) = L
    <2>1. SubSeq(nper, 1, m) = nper
      OBVIOUS
    <2> QED
      BY <2>1 DEF UpTo
  <1>8. /\ k \in 0..m /\ l \in Nat /\ UpTo(nper, k) = L + l /\ cmds \in Seq(Cmd)
        /\ t = Traced(<<>>, cmds) /\ t \in Seq(Subpaths) /\ Len(t) = k
    BY <1>5 DEF PathSoFar
  <1> HIDE DEF L, m
  <1>9. k = m /\ l = 0
    <2>1. k < m => UpTo(nper, k) < UpTo(nper, m)
      BY <1>1, <1>8, UpToGrows DEF m
    <2>2. ~(k < m)
      BY <1>1, <1>7, <1>8, <2>1
    <2>3. k = m
      BY <1>1, <1>8, <2>2
    <2> QED
      BY <1>1, <1>7, <1>8, <2>3
  <1>10. \A i \in 1..m : t[i] = Piece(points, nper, i)
    BY <1>5, <1>9 DEF PathSoFar
  <1>11. t = Split(points, nper)
    <2> DEFINE s == Split(points, nper)
    <2>1. DOMAIN nper = 1..m
      BY DEF m
    <2>2. s = [i \in 1..m |-> Piece(points, nper, i)]
      BY <2>1 DEF Split, Piece, UpTo
    <2>3. t = [i \in 1..m |-> t[i]]
      BY <1>8, <1>9
    <2> HIDE DEF s
    <2>4. [i \in 1..m |-> t[i]] = [i \in 1..m |-> Piece(points, nper, i)]
      BY <1>10, Zenon
    <2> QED
      BY <2>2, <2>3, <2>4 DEF s
  <1> QED
    BY <1>6, <1>8, <1>11

----------------------------------------------------------------------------
(* Draw calls.                                                             *)

(* What a call of R may be.                                                *)
LEMMA CallKinds ==
    ASSUME NEW call \in RCall
    PROVE  \/ call.kind \in {"line", "polyline"} /\ call.line \in Line /\ call.points \in Points
           \/ /\ call.kind = "polygon" /\ call.line \in Line /\ call.fill \in Color
              /\ call.points \in Points
           \/ /\ call.kind = "rect" /\ call.line \in Line /\ call.fill \in Color
              /\ call.corners \in Corners4
           \/ /\ call.kind = "circle" /\ call.line \in Line /\ call.fill \in Color
              /\ call.pos \in Point /\ call.radius \in Nat
           \/ /\ call.kind = "path" /\ call.line \in Line /\ call.fill \in Color
              /\ call.winding \in BOOLEAN /\ call.nper \in Seq(Nat \ {0, 1})
              /\ call.points \in Seq(Point) /\ Len(call.points) = SumSeq(call.nper)
           \/ /\ call.kind = "text" /\ call.col \in Color /\ call.str \in Text
              /\ call.at \in Point /\ call.hadj \in {0, 50, 100} /\ call.rot \in Int
           \/ call.kind = "raster" /\ call \in RasterCall
  <1>1. CASE call \in ShapeCall
    BY <1>1 DEF ShapeCall
  <1>2. CASE call \in PathCall
    BY <1>2 DEF PathCall
  <1>3. CASE call \in TextCall
    BY <1>3 DEF TextCall
  <1>4. CASE call \in RasterCall
    BY <1>4 DEF RasterCall
  <1> QED
    BY <1>1, <1>2, <1>3, <1>4 DEF RCall

LEMMA SameDrawCall ==
    ASSUME NEW call, call.kind # "rect", call.kind # "raster"
    PROVE  DrawCall(call) = call
  BY DEF DrawCall

LEMMA RectDrawCall ==
    ASSUME NEW call \in RCall, call.kind = "rect"
    PROVE  LET dc == DrawCall(call)
               c == call.corners IN
             /\ dc.kind = "rect" /\ dc.line = call.line /\ dc.fill = call.fill
             /\ dc.rect = NormalizeRect(c[1], c[2], c[3], c[4])
             /\ dc.rect \in Corners4 /\ dc.rect[3] >= 0 /\ dc.rect[4] >= 0
             /\ BoxOf(dc.rect) = Box(c[1], c[2], c[3], c[4])
  <1> DEFINE c == call.corners
             n == NormalizeRect(c[1], c[2], c[3], c[4])
             r == [rect |-> n]
  <1>1. call \in [kind : {"rect"}, line : Line, fill : Color, corners : Corners4]
    BY DEF RCall, ShapeCall, PathCall, TextCall, RasterCall
  <1>2. c[1] \in Int /\ c[2] \in Int /\ c[3] \in Int /\ c[4] \in Int
    BY <1>1 DEF Corners4
  <1>3. n \in Corners4 /\ n[3] >= 0 /\ n[4] >= 0 /\ BoxOf(n) = Box(c[1], c[2], c[3], c[4])
    <2> DEFINE x0 == c[1]
               y0 == c[2]
               x1 == c[3]
               y1 == c[4]
    <2>1. x0 \in Int /\ y0 \in Int /\ x1 \in Int /\ y1 \in Int
      BY <1>2
    <2> HIDE DEF x0, y0, x1, y1
    <2>2. /\ NormalizeRect(x0, y0, x1, y1) \in Corners4
          /\ NormalizeRect(x0, y0, x1, y1)[3] >= 0
          /\ NormalizeRect(x0, y0, x1, y1)[4] >= 0
          /\ BoxOf(NormalizeRect(x0, y0, x1, y1)) = Box(x0, y0, x1, y1)
      BY <2>1, NormalizedRect
    <2> QED
      BY <2>2 DEF x0, y0, x1, y1
  <1>4. DrawCall(call) = r ++ call
    BY DEF DrawCall
  <1> HIDE DEF n
  <1>5. DOMAIN call = {"kind", "line", "fill", "corners"} /\ DOMAIN r = {"rect"} /\ r.rect = n
    BY <1>1
  <1> HIDE DEF r
  <1>6. /\ (r ++ call).kind = call.kind /\ (r ++ call).line = call.line
        /\ (r ++ call).fill = call.fill /\ (r ++ call).rect = n
    BY <1>5 DEF ++
  <1> QED
    BY <1>3, <1>4, <1>6 DEF n

(* An image is where R put it.                                             *)
LEMMA RasterBox ==
    ASSUME NEW at \in Point, NEW w \in Nat, NEW h \in Int, h <= 0
    PROVE  LET r == RasterRect(at, w, h) IN
             /\ r \in Corners4 /\ r[3] = w /\ r[4] = -h
             /\ BoxOf(r) = Box(at[1], at[2], at[1] + w, at[2] + h)
  <1> DEFINE x == at[1]
             y == at[2]
             b == y + h
  <1>1. x \in Int /\ y \in Int
    BY DEF Point
  <1> HIDE DEF x, y
  <1>2. RasterRect(at, w, h) = <<x, b, w, -h>>
    <2>1. RasterRect(at, w, h)
            = <<x, y - (IF h < 0 THEN -h ELSE h), IF w < 0 THEN -w ELSE w,
                IF h < 0 THEN -h ELSE h>>
      BY DEF RasterRect, x, y
    <2>2. /\ (IF h < 0 THEN -h ELSE h) = -h /\ (IF w < 0 THEN -w ELSE w) = w
          /\ y - (-h) = b
      BY <1>1
    <2> QED
      BY <2>1, <2>2
  <1>3. b \in Int /\ x + w \in Int /\ -h \in Nat
    BY <1>1
  <1>4. BoxOf(<<x, b, w, -h>>) = Box(x, b, x + w, b + (-h))
    BY <1>3 DEF BoxOf
  <1>5. Box(x, b, x + w, b + (-h)) = Box(x, y, x + w, y + h)
    <2> DEFINE e == x + w
               f == b + (-h)
    <2>1. f = y /\ e \in Int /\ f \in Int
      BY <1>1
    <2>2. Lo(b, f) = Lo(y, b) /\ Hi(b, f) = Hi(y, b)
      BY <1>1, <2>1 DEF Lo, Hi
    <2> HIDE DEF e, f, b
    <2>3. Box(x, b, e, f) = Subpath("box", <<<<Lo(x, e), Lo(b, f)>>, <<Hi(x, e), Hi(b, f)>>>>)
      BY <1>1, <1>3, <2>1, BoxValue
    <2>4. Box(x, y, e, b) = Subpath("box", <<<<Lo(x, e), Lo(y, b)>>, <<Hi(x, e), Hi(y, b)>>>>)
      BY <1>1, <1>3, <2>1, BoxValue
    <2>5. Box(x, b, e, f) = Box(x, y, e, b)
      BY <2>2, <2>3, <2>4
    <2> QED
      BY <2>5 DEF e, f, b
  <1>6. <<x, b, w, -h>> \in Corners4
    BY <1>1, <1>3 DEF Corners4
  <1> QED
    BY <1>2, <1>4, <1>5, <1>6 DEF x, y

LEMMA RasterDrawCall ==
    ASSUME NEW call \in RCall, call.kind = "raster"
    PROVE  LET dc == DrawCall(call) IN
             /\ dc.kind = "raster" /\ dc.w = call.w /\ dc.h = call.h
             /\ dc.pixels = call.pixels /\ dc.interpolate = call.interpolate
             /\ dc.rect \in Corners4 /\ dc.rect[3] \in Nat /\ dc.rect[4] \in Nat
             /\ call.w \in Nat \ {0} /\ call.h \in Nat \ {0}
             /\ call.pixels \in Seq(0..255) /\ Len(call.pixels) = call.w * call.h
             /\ call.interpolate \in BOOLEAN
             /\ AskedArea(call) = <<BoxOf(dc.rect)>>
  <1> DEFINE n == RasterRect(call.at, call.width, call.height)
             r == [rect |-> n]
             dc == r ++ call
  <1>1. /\ call \in [kind : {"raster"}, w : Nat \ {0}, h : Nat \ {0}, pixels : Seq(0..255),
                     at : Point, width : Nat \ {0}, height : Int, interpolate : BOOLEAN]
        /\ Len(call.pixels) = call.w * call.h /\ call.height < 0
    BY DEF RCall, ShapeCall, PathCall, TextCall, RasterCall
  <1>2. /\ n \in Corners4 /\ n[3] \in Nat /\ n[4] \in Nat
        /\ BoxOf(n) = Box(call.at[1], call.at[2], call.at[1] + call.width,
                          call.at[2] + call.height)
    <2>1. call.at \in Point /\ call.width \in Nat /\ call.height \in Int /\ call.height <= 0
      BY <1>1
    <2>2. -call.height \in Nat
      BY <2>1
    <2> QED
      BY <2>1, <2>2, RasterBox
  <1>3. DrawCall(call) = dc
    BY DEF DrawCall
  <1>4. AskedArea(call) = <<BoxOf(n)>>
    BY <1>2 DEF AskedArea
  <1> HIDE DEF n
  <1>5. /\ DOMAIN call = {"kind", "w", "h", "pixels", "at", "width", "height", "interpolate"}
        /\ DOMAIN r = {"rect"} /\ r.rect = n
    BY <1>1
  <1> HIDE DEF r
  <1>6. /\ dc.kind = call.kind /\ dc.w = call.w /\ dc.h = call.h
        /\ dc.pixels = call.pixels /\ dc.interpolate = call.interpolate /\ dc.rect = n
    BY <1>5 DEF ++
  <1> HIDE DEF dc
  <1> QED
    BY <1>1, <1>2, <1>3, <1>4, <1>6

----------------------------------------------------------------------------
(* Clips.                                                                  *)

(* The clip with an id is the one of that number.                          *)
LEMMA ClipWithId ==
    ASSUME NEW cps, NEW m \in Nat, Len(cps) = m, \A k \in 1..m : cps[k].id = k - 1,
           NEW id \in 0..(m - 1)
    PROVE  SelectInSeq(cps, LAMBDA c : c.id = id) = id + 1 /\ id + 1 \in 1..m
  <1> DEFINE I == {i \in 1..Len(cps) : cps[i].id = id}
  <1>1. id + 1 \in 1..m /\ (id + 1) - 1 = id
    OBVIOUS
  <1>2. I = {id + 1}
    BY <1>1
  <1>3. SelectInSeq(cps, LAMBDA c : c.id = id) = IF I # {} THEN Min(I) ELSE 0
    BY DEF SelectInSeq
  <1> HIDE DEF I
  <1>4. Min({id + 1}) = id + 1
    BY <1>1 DEF Min
  <1> QED
    BY <1>1, <1>2, <1>3, <1>4

----------------------------------------------------------------------------
(* The strings and the numbers.                                            *)

Listing == INSTANCE SequenceLemmas
    WITH Op <- StringsVisit, Image <- LAMBDA a : IF a.call.kind = "text" THEN <<a>> ELSE <<>>
Reading == INSTANCE SequenceLemmas WITH Op <- AddChar

Char == STRING \ {"newline"}
Chars == Char \cup {"newline"}
TextsOf(q) == Selected(q, LAMBDA a : a.call.kind = "text")
LinesOfTexts(t) == [n \in DOMAIN t |-> t[n].call.str]

LEMMA ListingFold ==
    ASSUME NEW q PROVE Strings([dcs |-> q]) = Listing!Fold([count |-> 0, os |-> <<>>], q).os
  BY DEF Strings, FoldLeft, MapThenFoldSet, Max,
         Listing!Fold, Listing!Largest

LEMMA ReadingFold == ASSUME NEW q PROVE LinesOf(q) = Reading!Fold(<<<<>>>>, q)
  BY DEF LinesOf, FoldLeft, MapThenFoldSet, Max,
         Reading!Fold, Reading!Largest

LEMMA PickingMap == ASSUME NEW q PROVE TextsOf(q) = Listing!Flatmap(q)
  BY DEF TextsOf, Selected, FlattenSeq, Listing!Flatmap, Listing!Flatten

LEMMA DrawCallKind == ASSUME NEW call \in RCall PROVE DrawCall(call).kind = call.kind
  BY CallKinds, SameDrawCall, RectDrawCall, RasterDrawCall

(* A character goes to the end of the last line.                           *)
LEMMA AddCharLast ==
    ASSUME NEW lines \in Seq(Seq(Char)), NEW s \in Seq(Char), NEW c \in Char
    PROVE  AddChar(Append(lines, s), c) = Append(lines, Append(s, c))
  <1> DEFINE k == Len(lines)
             a == Append(lines, s)
             b == Append(lines, Append(s, c))
             d == [a EXCEPT ![Len(a)] = Append(@, c)]
  <1>1. /\ k \in Nat /\ a \in Seq(Seq(Char)) /\ Len(a) = k + 1 /\ a[k + 1] = s
        /\ \A n \in 1..k : a[n] = lines[n]
    BY AppendProperties
  <1>2. Append(s, c) \in Seq(Char)
    OBVIOUS
  <1>3. /\ b \in Seq(Seq(Char)) /\ Len(b) = k + 1 /\ b[k + 1] = Append(s, c)
        /\ \A n \in 1..k : b[n] = lines[n]
    BY <1>2, AppendProperties
  <1>4. AddChar(a, c) = d
    BY DEF AddChar, Char
  <1> HIDE DEF a, b, k
  <1>5. d \in Seq(Seq(Char)) /\ Len(d) = k + 1
    BY <1>1, <1>2
  <1>6. \A n \in 1..(k + 1) : d[n] = b[n]
    BY <1>1, <1>3
  <1> HIDE DEF d
  <1>7. d = b
    BY <1>3, <1>5, <1>6, SameSequence
  <1> QED
    BY <1>4, <1>7 DEF a, b

(* A text without line ends is read as a line.                             *)
LEMMA LineRead ==
    ASSUME NEW lines \in Seq(Seq(Char)), NEW str \in Text
    PROVE  Reading!Fold(Append(lines, <<>>), str) = Append(lines, str)
  <1> DEFINE base == Append(lines, <<>>)
             T == {q \in Seq(Char) : Reading!Fold(base, q) = Append(lines, q)}
  <1> HIDE DEF base
  <1>1. <<>> \in T
    <2>1. <<>> \in Seq(Char)
      OBVIOUS
    <2>2. Reading!Fold(base, <<>>) = base
      BY Reading!FoldEmpty
    <2> QED
      BY <2>1, <2>2 DEF base
  <1>2. ASSUME NEW q \in Seq(Char), NEW c \in Char, q \in T PROVE Append(q, c) \in T
    <2>1. Reading!Fold(base, Append(q, c)) = AddChar(Reading!Fold(base, q), c)
      BY Reading!FoldAppend
    <2>3. AddChar(Append(lines, q), c) = Append(lines, Append(q, c))
      BY AddCharLast
    <2>4. Append(q, c) \in Seq(Char)
      OBVIOUS
    <2> QED
      BY <1>2, <2>1, <2>3, <2>4
  <1> HIDE DEF T
  <1>3. Seq(Char) \subseteq T
    BY <1>1, <1>2, SequenceInduction
  <1> QED
    BY <1>3 DEF T, Text, Char, base

(* What has been written when the texts of t have been: os, which has the  *)
(* texts as its lines.                                                     *)
Written(t, os) ==
    /\ os \in Seq(Chars)
    /\ IF t = <<>> THEN os = <<>> ELSE LinesOf(os) = LinesOfTexts(t)

LEMMA LineOfText ==
    ASSUME NEW a \in AskedSet, a.call.kind = "text"
    PROVE  a.call.str \in Text /\ DrawCall(a.call) = a.call /\ a.call.str \in Seq(Char)
  <1>1. a.call \in Calls
    BY DEF AskedSet
  <1>2. a.call \in RCall
    BY <1>1, RenderingAssumption
  <1>3. a.call.str \in Text
    BY <1>2, CallKinds
  <1>4. a.call.str \in Seq(Char)
    BY <1>3 DEF Text, Char
  <1> QED
    BY <1>3, <1>4, SameDrawCall

TextAsked == {a \in AskedSet : a.call.kind = "text"}

LEMMA LinesOfTextsAppend ==
    ASSUME NEW t \in Seq(TextAsked), NEW a \in TextAsked
    PROVE  /\ LinesOfTexts(t) \in Seq(Seq(Char))
           /\ LinesOfTexts(Append(t, a)) = Append(LinesOfTexts(t), a.call.str)
  <1> DEFINE k == Len(t)
             u == Append(t, a)
             c == Append(LinesOfTexts(t), a.call.str)
  <1>1. /\ k \in Nat /\ DOMAIN t = 1..k /\ DOMAIN u = 1..(k + 1) /\ u[k + 1] = a
        /\ \A n \in 1..k : u[n] = t[n]
    BY AppendProperties
  <1>2. \A b \in TextAsked : b.call.str \in Seq(Char)
    BY LineOfText DEF TextAsked
  <1>3. LinesOfTexts(t) = [n \in 1..k |-> t[n].call.str]
    BY <1>1 DEF LinesOfTexts
  <1>4. \A n \in 1..k : t[n] \in TextAsked
    BY <1>1
  <1>5. /\ LinesOfTexts(t) \in Seq(Seq(Char)) /\ Len(LinesOfTexts(t)) = k
        /\ \A n \in 1..k : LinesOfTexts(t)[n] = t[n].call.str
    BY <1>1, <1>2, <1>3, <1>4
  <1>6. LinesOfTexts(u) = [n \in 1..(k + 1) |-> u[n].call.str]
    BY <1>1 DEF LinesOfTexts
  <1>7. a.call.str \in Seq(Char)
    BY <1>2
  <1> DEFINE d == LinesOfTexts(t)
             s == a.call.str
  <1> HIDE DEF d, s
  <1>8. /\ c \in Seq(Seq(Char)) /\ Len(c) = k + 1 /\ c[k + 1] = s
        /\ \A n \in 1..k : c[n] = d[n]
    BY <1>5, <1>7, AppendProperties DEF d, s
  <1> HIDE DEF c, u
  <1>9. \A n \in 1..(k + 1) : u[n].call.str = c[n]
    <2>1. \A n \in 1..k : u[n].call.str = c[n]
      BY <1>1, <1>5, <1>8 DEF d
    <2>2. u[k + 1].call.str = c[k + 1]
      BY <1>1, <1>8 DEF s
    <2> QED
      BY <1>1, <2>1, <2>2
  <1>10. c = [n \in 1..(k + 1) |-> c[n]]
    BY <1>8
  <1>11. [n \in 1..(k + 1) |-> u[n].call.str] = [n \in 1..(k + 1) |-> c[n]]
    BY <1>9, Zenon
  <1>12. LinesOfTexts(u) = c
    BY <1>6, <1>10, <1>11
  <1> QED
    BY <1>5, <1>12 DEF u, c, d, s

(* A text is written behind the others.                                    *)
LEMMA WrittenNext ==
    ASSUME NEW t \in Seq(TextAsked), NEW os, Written(t, os), NEW a \in TextAsked, NEW dc,
           dc.op = DrawCall(a.call)
    PROVE  \E new : /\ StringsVisit([count |-> Len(t), os |-> os], dc)
                           = [count |-> Len(t) + 1, os |-> new]
                    /\ Written(Append(t, a), new)
  <1> DEFINE s == a.call.str
             sep == IF Len(t) > 0 THEN <<"newline">> ELSE <<>>
             new == os \o sep \o s
  <1>1. dc.op = a.call /\ a.call.kind = "text" /\ s \in Text /\ s \in Seq(Char)
    BY LineOfText DEF TextAsked
  <1>8. s \in Seq(Chars)
    BY <1>1 DEF Chars
  <1>2. StringsVisit([count |-> Len(t), os |-> os], dc) = [count |-> Len(t) + 1, os |-> new]
    BY <1>1 DEF StringsVisit
  <1>3. sep \in Seq(Chars) /\ os \in Seq(Chars)
    <2> DEFINE nl == "newline"
    <2>1. nl \in Chars
      BY DEF Chars
    <2> HIDE DEF nl
    <2>2. <<nl>> \in Seq(Chars)
      BY <2>1
    <2>3. <<>> \in Seq(Chars)
      OBVIOUS
    <2> QED
      BY <2>2, <2>3 DEF Written, nl
  <1>4. Append(t, a) # <<>>
    OBVIOUS
  <1>5. /\ LinesOfTexts(t) \in Seq(Seq(Char))
        /\ LinesOfTexts(Append(t, a)) = Append(LinesOfTexts(t), s)
    BY LinesOfTextsAppend
  <1> HIDE DEF s
  <1>6. CASE t = <<>>
    <2>1. os = <<>> /\ sep = <<>>
      BY <1>6 DEF Written
    <2>2. new = s
      BY <1>1, <2>1
    <2>3. LinesOfTexts(t) = <<>>
      BY <1>6 DEF LinesOfTexts
    <2>4. Append(<<>>, <<>>) = <<<<>>>> /\ <<>> \in Seq(Seq(Char))
      OBVIOUS
    <2>5. Reading!Fold(Append(<<>>, <<>>), s) = Append(<<>>, s)
      BY <1>1, <2>4, LineRead
    <2>6. LinesOf(new) = LinesOfTexts(Append(t, a))
      BY <1>5, <2>2, <2>3, <2>4, <2>5, ReadingFold
    <2> QED
      BY <1>2, <1>4, <1>8, <2>2, <2>6 DEF Written
  <1>7. CASE t # <<>>
    <2> DEFINE nl == <<"newline">>
               lines == LinesOfTexts(t)
               first == <<<<>>>>
    <2>0. Len(t) > 0
      BY <1>7
    <2>1. sep = nl /\ nl \in Seq(Chars)
      BY <1>3, <2>0
    <2>2. LinesOf(os) = lines
      BY <1>7 DEF Written
    <2>10. \A q : LinesOf(q) = Reading!Fold(first, q)
      BY ReadingFold
    <2>11. nl \in Seq(Chars)
      BY <2>1
    <2> HIDE DEF lines, sep, first, nl
    <2>3. Reading!Fold(first, os \o nl) = Append(lines, <<>>)
      <3>1. Reading!Fold(first, os \o nl) = Reading!Fold(Reading!Fold(first, os), nl)
        BY <1>3, <2>11, Reading!FoldConcat
      <3>2. Reading!Fold(lines, nl) = AddChar(lines, "newline")
        BY Reading!FoldOne DEF nl
      <3>3. AddChar(lines, "newline") = Append(lines, <<>>)
        BY DEF AddChar
      <3> QED
        BY <2>2, <2>10, <3>1, <3>2, <3>3
    <2> DEFINE head == os \o nl
    <2>4. head \in Seq(Chars)
      BY <1>3, <2>11
    <2>7. new = head \o s
      BY <2>1 DEF nl
    <2>12. Reading!Fold(first, head) = Append(lines, <<>>)
      BY <2>3
    <2> HIDE DEF head
    <2>5. Reading!Fold(first, head \o s) = Reading!Fold(Reading!Fold(first, head), s)
      BY <1>8, <2>4, Reading!FoldConcat
    <2>6. Reading!Fold(Append(lines, <<>>), s) = Append(lines, s)
      BY <1>1, <1>5, LineRead DEF lines
    <2>8. new \in Seq(Chars)
      BY <1>8, <2>4, <2>7
    <2>9. LinesOf(new) = Append(lines, s)
      BY <2>5, <2>6, <2>7, <2>10, <2>12
    <2> HIDE DEF new
    <2> QED
      BY <1>2, <1>4, <1>5, <2>8, <2>9 DEF Written, lines
  <1> QED
    BY <1>6, <1>7

LEMMA TextsAppend ==
    ASSUME NEW q \in Seq(AskedSet), NEW a \in AskedSet
    PROVE  /\ TextsOf(q) \in Seq(TextAsked)
           /\ TextsOf(Append(q, a)) = IF a.call.kind = "text" THEN Append(TextsOf(q), a)
                                      ELSE TextsOf(q)
  <1> DEFINE Pick(b) == IF b.call.kind = "text" THEN <<b>> ELSE <<>>
  <1>1. \A b \in AskedSet : Pick(b) \in Seq(TextAsked)
    <2>1. \A b \in TextAsked : <<b>> \in Seq(TextAsked)
      OBVIOUS
    <2>2. <<>> \in Seq(TextAsked)
      OBVIOUS
    <2>3. \A b \in AskedSet : b.call.kind = "text" => b \in TextAsked
      BY DEF TextAsked
    <2> QED
      BY <2>1, <2>2, <2>3
  <1>2. TextsOf(q) \in Seq(TextAsked)
    BY <1>1, Listing!FlatmapSequence, PickingMap
  <1>3. Append(q, a) = q \o <<a>> /\ <<a>> \in Seq(AskedSet)
    OBVIOUS
  <1>4. Listing!Flatmap(q \o <<a>>) = Listing!Flatmap(q) \o Listing!Flatmap(<<a>>)
    BY <1>1, <1>3, Listing!FlatmapConcat
  <1>5. Listing!Flatmap(<<a>>) = Pick(a)
    BY <1>1, Listing!FlatmapOne
  <1>6. TextsOf(Append(q, a)) = TextsOf(q) \o Pick(a)
    BY <1>3, <1>4, <1>5, PickingMap
  <1> DEFINE t == TextsOf(q)
  <1> HIDE DEF t
  <1>7. t \in Seq(TextAsked) => t \o <<>> = t /\ t \o <<a>> = Append(t, a)
    OBVIOUS
  <1> QED
    BY <1>2, <1>6, <1>7 DEF t

(* Each text of the page is a line of the strings.                         *)
LEMMA StringsAreRight ==
    ASSUME IInv
    PROVE  LET texts == TextsOf(asked) IN
             IF texts = <<>> THEN Strings(page) = <<>>
             ELSE LinesOf(Strings(page)) = LinesOfTexts(texts)
  <1> DEFINE N == Len(asked)
             base == [count |-> 0, os |-> <<>>]
             W(n) == Listing!Fold(base, SubSeq(page.dcs, 1, n))
             T(n) == TextsOf(SubSeq(asked, 1, n))
             P(n) == /\ T(n) \in Seq(TextAsked)
                     /\ \E os : W(n) = [count |-> Len(T(n)), os |-> os] /\ Written(T(n), os)
             S == {n \in Nat : n <= N => P(n)}
  <1>1. /\ asked \in Seq(AskedSet) /\ N \in Nat /\ Len(page.dcs) = N
        /\ page.dcs \in Seq(DcSet)
        /\ \A n \in 1..N : page.dcs[n].op = DrawCall(asked[n].call)
    BY ClipBoxes DEF PageSet
  <1>2. P(0)
    <2>1. SubSeq(page.dcs, 1, 0) = <<>> /\ SubSeq(asked, 1, 0) = <<>>
      BY DEF SubSeq
    <2>2. T(0) = <<>>
      BY <2>1, PickingMap, Listing!FlatmapEmpty
    <2>3. W(0) = base
      BY <2>1, Listing!FoldEmpty
    <2>4. <<>> \in Seq(TextAsked) /\ <<>> \in Seq(Chars) /\ Len(<<>>) = 0
      OBVIOUS
    <2>5. Written(<<>>, <<>>)
      BY <2>4 DEF Written
    <2> HIDE DEF T, W
    <2> QED
      BY <2>2, <2>3, <2>4, <2>5
  <1>3. ASSUME NEW n \in Nat, n < N, P(n) PROVE P(n + 1)
    <2> DEFINE q == SubSeq(asked, 1, n)
               a == asked[n + 1]
               dcs == SubSeq(page.dcs, 1, n)
               dc == page.dcs[n + 1]
    <2>1. q \in Seq(AskedSet) /\ a \in AskedSet /\ SubSeq(asked, 1, n + 1) = Append(q, a)
      BY <1>1, <1>3, FirstAppend
    <2>2. dcs \in Seq(DcSet) /\ dc \in DcSet /\ SubSeq(page.dcs, 1, n + 1) = Append(dcs, dc)
      BY <1>1, <1>3, FirstAppend
    <2>3. dc.op = DrawCall(a.call)
      <3>1. n + 1 \in 1..N
        BY <1>1, <1>3
      <3> QED
        BY <1>1, <3>1
    <2>4. T(n + 1) = IF a.call.kind = "text" THEN Append(T(n), a) ELSE T(n)
      BY <2>1, TextsAppend
    <2>5. W(n + 1) = StringsVisit(W(n), dc)
      <3> HIDE DEF base, dc, dcs
      <3>1. Listing!Fold(base, Append(dcs, dc)) = StringsVisit(Listing!Fold(base, dcs), dc)
        BY <2>2, Listing!FoldAppend
      <3> QED
        BY <2>2, <3>1 DEF dcs
    <2> DEFINE t == T(n)
    <2>6. PICK os : W(n) = [count |-> Len(t), os |-> os] /\ Written(t, os)
      BY <1>3
    <2>7. t \in Seq(TextAsked)
      BY <1>3
    <2>8. CASE a.call.kind = "text"
      <3>1. a \in TextAsked
        BY <2>1, <2>8 DEF TextAsked
      <3> HIDE DEF T, W, a, dc, t
      <3>2. PICK new : /\ StringsVisit([count |-> Len(t), os |-> os], dc)
                              = [count |-> Len(t) + 1, os |-> new]
                       /\ Written(Append(t, a), new)
        BY <2>3, <2>6, <2>7, <3>1, WrittenNext
      <3>3. Append(t, a) \in Seq(TextAsked) /\ Len(Append(t, a)) = Len(t) + 1
        BY <2>7, <3>1
      <3>4. T(n + 1) = Append(t, a)
        BY <2>4, <2>8 DEF t
      <3>5. W(n + 1) = [count |-> Len(Append(t, a)), os |-> new]
        BY <2>5, <2>6, <3>2, <3>3
      <3> QED
        BY <3>2, <3>3, <3>4, <3>5
    <2>9. CASE a.call.kind # "text"
      <3>1. a.call \in RCall
        <4>1. a.call \in Calls
          BY <2>1 DEF AskedSet
        <4> QED
          BY <4>1, RenderingAssumption
      <3>2. dc.op.kind # "text"
        BY <2>3, <2>9, <3>1, DrawCallKind
      <3> HIDE DEF T, W, a, dc, t
      <3>3. W(n + 1) = W(n)
        BY <2>5, <3>2 DEF StringsVisit
      <3>4. T(n + 1) = t
        BY <2>4, <2>9 DEF t
      <3> QED
        BY <2>6, <2>7, <3>3, <3>4
    <2> QED
      BY <2>8, <2>9
  <1>4. P(N)
    <2> HIDE DEF P
    <2>1. 0 \in S
      BY <1>2
    <2>2. \A n \in Nat : n \in S => n + 1 \in S
      BY <1>1, <1>3
    <2> HIDE DEF S
    <2>3. Nat \subseteq S
      BY <2>1, <2>2, SetInduction
    <2> QED
      BY <1>1, <2>3 DEF S
  <1>5. SubSeq(page.dcs, 1, N) = page.dcs /\ SubSeq(asked, 1, N) = asked
    BY <1>1
  <1>6. PICK os : W(N) = [count |-> Len(T(N)), os |-> os] /\ Written(T(N), os)
    BY <1>4
  <1>7. Strings(page) = W(N).os
    <2>1. Strings([dcs |-> page.dcs]) = Strings(page)
      BY DEF Strings
    <2> QED
      BY <1>5, <2>1, ListingFold
  <1>8. T(N) = TextsOf(asked)
    BY <1>5
  <1> HIDE DEF W, T
  <1>9. Strings(page) = os
    BY <1>6, <1>7
  <1> QED
    BY <1>6, <1>8, <1>9 DEF Written

----------------------------------------------------------------------------
(* Properties of elements: a record wins over those that come after it.    *)

Get(a, x, d) == IF x \in DOMAIN a THEN a[x] ELSE d

LEMMA GetOver ==
    ASSUME NEW a, NEW b, NEW x, NEW d
    PROVE  /\ Get(a ++ b, x, d) = Get(a, x, Get(b, x, d))
           /\ x \in DOMAIN b => (a ++ b)[x] = Get(a, x, b[x]) /\ x \in DOMAIN (a ++ b)
  BY DEF Get, ++

LEMMA GetUnset == ASSUME NEW x \in STRING, NEW d PROVE Get(Unset, x, d) = d
  BY DEF Get, Unset

----------------------------------------------------------------------------
(* Line types.                                                             *)

LEMMA LtyDigits ==
    ASSUME NEW lty \in LineType
    PROVE  /\ lty \in [1..8 -> 0..15] /\ lty \in Seq(0..15) /\ Len(lty) = 8
           /\ \E n \in 0..8 : \A k \in 1..8 : lty[k] # 0 <=> k <= n
           /\ lty # SOLID <=> lty[1] # 0
  <1>1. lty \in [1..8 -> 0..15]
    BY DEF LineType
  <1>2. lty \in Seq(0..15) /\ Len(lty) = 8
    <2>1. lty = [k \in 1..8 |-> lty[k]] /\ \A k \in 1..8 : lty[k] \in 0..15
      BY <1>1
    <2>2. lty \in Seq(0..15)
      BY <2>1
    <2>3. DOMAIN lty = 1..8
      BY <1>1
    <2> QED
      BY <2>2, <2>3
  <1>3. PICK n \in 0..8 : \A k \in 1..8 : lty[k] # 0 <=> k <= n
    BY DEF LineType
  <1>4. lty # SOLID <=> lty[1] # 0
    <2>1. SOLID[1] = 0
      BY DEF SOLID
    <2>2. ASSUME lty[1] = 0 PROVE lty = SOLID
      <3>1. \A k \in 1..8 : lty[k] = 0
        BY <1>1, <1>3, <2>2
      <3>2. lty = [k \in 1..8 |-> lty[k]]
        BY <1>1
      <3>3. [k \in 1..8 |-> lty[k]] = [k \in 1..8 |-> 0]
        BY <3>1, Zenon
      <3> QED
        BY <3>2, <3>3 DEF SOLID
    <2> QED
      BY <2>1, <2>2
  <1> QED
    BY <1>1, <1>2, <1>3, <1>4

(* The digits that are written are the pattern of the line type.           *)
LEMMA DashDigits ==
    ASSUME NEW lty \in LineType
    PROVE  /\ lty = SOLID => DashPattern(lty) = <<>>
           /\ lty # SOLID =>
                 LET n == Max({m \in 1..8 : \A k \in 2..m : Digit(lty, k) # 0})
                 IN  /\ n \in 1..8 /\ DashPattern(lty) = [k \in 1..n |-> Digit(lty, k)]
                     /\ DashPattern(lty) = SubSeq(lty, 1, n)
                     /\ \A k \in 1..8 : lty[k] # 0 <=> k <= n
  <1>1. PICK n \in 0..8 : \A k \in 1..8 : lty[k] # 0 <=> k <= n
    BY LtyDigits
  <1>2. lty \in Seq(0..15) /\ Len(lty) = 8 /\ \A k \in 1..8 : lty[k] = Digit(lty, k)
    BY LtyDigits DEF Digit
  <1> DEFINE I == {k \in 1..Len(lty) : lty[k] = 0}
             zero == SelectInSeq(lty, LAMBDA d : d = 0)
  <1>3. zero = IF I # {} THEN Min(I) ELSE 0
    BY DEF SelectInSeq
  <1>4. zero = IF n = 8 THEN 0 ELSE n + 1
    <2>1. CASE n = 8
      <3>1. I = {}
        BY <1>1, <1>2, <2>1
      <3> QED
        BY <1>3, <2>1, <3>1
    <2>2. CASE n # 8
      <3>1. n + 1 \in 1..8 /\ I = (n + 1)..8
        BY <1>1, <1>2, <2>2
      <3> HIDE DEF I
      <3>2. Min((n + 1)..8) = n + 1
        <4> DEFINE j == Min((n + 1)..8)
        <4>1. n + 1 \in (n + 1)..8 /\ \A i \in (n + 1)..8 : n + 1 <= i
          BY <3>1
        <4>2. j \in (n + 1)..8 /\ \A i \in (n + 1)..8 : j <= i
          BY <4>1 DEF Min
        <4> HIDE DEF j
        <4>3. j = n + 1
          BY <4>1, <4>2
        <4> QED
          BY <4>3 DEF j
      <3>3. I # {}
        BY <3>1
      <3>4. zero = Min(I)
        BY <1>3, <3>3
      <3> QED
        BY <2>2, <3>1, <3>2, <3>4
    <2> QED
      BY <2>1, <2>2
  <1>5. DashPattern(lty) = IF zero = 0 THEN lty ELSE SubSeq(lty, 1, zero - 1)
    BY DEF DashPattern
  <1> HIDE DEF zero, I
  <1>6. SubSeq(lty, 1, 8) = lty /\ (n + 1) - 1 = n
    BY <1>2
  <1>7. DashPattern(lty) = SubSeq(lty, 1, n)
    <2>1. CASE n = 8
      BY <1>4, <1>5, <1>6, <2>1
    <2>2. CASE n # 8
      <3>1. zero = n + 1 /\ zero # 0 /\ zero - 1 = n
        BY <1>4, <2>2
      <3> QED
        BY <1>5, <3>1
    <2> QED
      BY <2>1, <2>2
  <1>8. SubSeq(lty, 1, n) = [k \in 1..n |-> Digit(lty, k)]
    <2>1. /\ SubSeq(lty, 1, n) \in Seq(0..15) /\ Len(SubSeq(lty, 1, n)) = n
          /\ \A k \in 1..n : SubSeq(lty, 1, n)[k] = lty[k]
      <3>1. n \in Nat /\ n <= Len(lty) /\ lty \in Seq(0..15)
        BY <1>1, <1>2
      <3> QED
        BY <3>1
    <2> DEFINE s == SubSeq(lty, 1, n)
    <2> HIDE DEF s
    <2>2. s = [k \in 1..n |-> s[k]]
      BY <2>1 DEF s
    <2>3. \A k \in 1..n : s[k] = Digit(lty, k)
      BY <1>2, <2>1 DEF s
    <2>4. [k \in 1..n |-> s[k]] = [k \in 1..n |-> Digit(lty, k)]
      BY <2>3, Zenon
    <2> QED
      BY <2>2, <2>4 DEF s
  <1>9. ASSUME lty = SOLID PROVE DashPattern(lty) = <<>>
    <2>1. n = 0
      BY <1>1, <1>9, LtyDigits
    <2>2. SubSeq(lty, 1, 0) = <<>>
      BY <1>2
    <2> QED
      BY <1>7, <2>1, <2>2
  <1>10. ASSUME lty # SOLID
         PROVE  Max({m \in 1..8 : \A k \in 2..m : Digit(lty, k) # 0}) = n /\ n \in 1..8
    <2> DEFINE J == {m \in 1..8 : \A k \in 2..m : Digit(lty, k) # 0}
    <2>1. n \in 1..8
      BY <1>1, <1>10, LtyDigits
    <2>2. \A k \in 1..8 : Digit(lty, k) # 0 <=> k <= n
      BY <1>1, <1>2
    <2>3. n \in J
      BY <2>1, <2>2
    <2>4. \A m \in J : m <= n
      <3> SUFFICES ASSUME NEW m \in 1..8, \A k \in 2..m : Digit(lty, k) # 0, n < m
                   PROVE  FALSE
        BY <2>1
      <3>1. m \in 2..m
        BY <2>1
      <3> QED
        BY <2>2, <3>1
    <2>5. J \subseteq Int
      OBVIOUS
    <2> HIDE DEF J
    <2> DEFINE x == Max(J)
    <2>6. x \in J /\ \A m \in J : x >= m
      <3>1. \E m \in J : \A k \in J : m >= k
        BY <2>3, <2>4, <2>5
      <3> QED
        BY <3>1 DEF Max
    <2> HIDE DEF x
    <2>7. x = n
      BY <2>3, <2>4, <2>5, <2>6
    <2> QED
      BY <2>1, <2>7 DEF x, J
  <1> QED
    BY <1>1, <1>7, <1>8, <1>9, <1>10

----------------------------------------------------------------------------
(* The properties of lines and areas in SVG.                               *)

LEMMA GetFive ==
    ASSUME NEW a, NEW b, NEW c, NEW e, NEW f, NEW x, NEW d
    PROVE  Get(a ++ b ++ c ++ e ++ f, x, d)
               = Get(a, x, Get(b, x, Get(c, x, Get(e, x, Get(f, x, d)))))
  <1>1. Get(a ++ b, x, Get(c, x, Get(e, x, Get(f, x, d))))
            = Get(a, x, Get(b, x, Get(c, x, Get(e, x, Get(f, x, d)))))
    BY GetOver
  <1>2. Get(a ++ b ++ c, x, Get(e, x, Get(f, x, d)))
            = Get(a ++ b, x, Get(c, x, Get(e, x, Get(f, x, d))))
    BY GetOver
  <1>3. Get(a ++ b ++ c ++ e, x, Get(f, x, d)) = Get(a ++ b ++ c, x, Get(e, x, Get(f, x, d)))
    BY GetOver
  <1>4. Get(a ++ b ++ c ++ e ++ f, x, d) = Get(a ++ b ++ c ++ e, x, Get(f, x, d))
    BY GetOver
  <1> QED
    BY <1>1, <1>2, <1>3, <1>4

Props == {"fill", "fillOpacity", "fillRule", "stroke", "strokeOpacity", "dash", "cap",
          "join", "limit"}

LEMMA LineParts ==
    ASSUME NEW line \in Line
    PROVE  /\ line.col \in Color /\ line.lty \in LineType
           /\ line.lend \in {"round", "butt", "square"}
           /\ line.ljoin \in {"round", "mitre", "bevel"} /\ line.lmitre \in Nat
           /\ line.lty = BLANK => Transparent(line.col)
           /\ line.col.alpha \in 0..255 /\ line.col.rgb # "none"
           /\ line.col = [rgb |-> line.col.rgb, alpha |-> line.col.alpha]
  <1>1. line.col \in Color
    BY DEF Line
  <1>2. \A c \in Color : c.alpha \in 0..255 /\ c.rgb # "none" /\ c = [rgb |-> c.rgb, alpha |-> c.alpha]
    BY DEF Color
  <1> QED
    BY <1>1, <1>2 DEF Line

LEMMA StrokeOf ==
    ASSUME NEW col \in Color, NEW d
    PROVE  /\ Get(StrokeColor(col), "stroke", d) = col.rgb
           /\ Get(StrokeColor(col), "strokeOpacity", 255) = col.alpha
           /\ \A x \in Props : x \notin {"stroke", "strokeOpacity"} =>
                 Get(StrokeColor(col), x, d) = d
  <1> DEFINE a == [stroke |-> col.rgb]
             b == IF Opaque(col) THEN Unset ELSE [strokeOpacity |-> col.alpha]
  <1>1. StrokeColor(col) = a ++ b
    BY DEF StrokeColor
  <1>2. \A x, y : Get(a ++ b, x, y) = Get(a, x, Get(b, x, y))
    BY GetOver
  <1>3. \A x \in Props : \A y : Get(a, x, y) = IF x = "stroke" THEN col.rgb ELSE y
    BY DEF Get, Unset, Props
  <1>4. \A x \in Props : \A y :
            Get(b, x, y) = IF x = "strokeOpacity" /\ ~Opaque(col) THEN col.alpha ELSE y
    BY DEF Get, Unset, Props
  <1>5. Opaque(col) => col.alpha = 255
    BY DEF Opaque
  <1> HIDE DEF a, b
  <1> QED
    BY <1>1, <1>2, <1>3, <1>4, <1>5 DEF Props

LEMMA DashOf ==
    ASSUME NEW line \in Line, NEW x \in Props, NEW d
    PROVE  /\ x # "dash" => Get(DashArray(line.lty), x, d) = d
           /\ ~Transparent(line.col) =>
                 Get(DashArray(line.lty), "dash", <<>>) = DashPattern(line.lty)
  <1>1. CASE line.lty \in {BLANK, SOLID}
    <2>1. DashArray(line.lty) = Unset
      BY <1>1 DEF DashArray
    <2>2. ~Transparent(line.col) => DashPattern(line.lty) = <<>>
      BY <1>1, LineParts, DashDigits
    <2>3. "dash" \in Props
      BY DEF Props
    <2> QED
      BY <2>1, <2>2, <2>3 DEF Get, Unset, Props
  <1>2. CASE line.lty \notin {BLANK, SOLID}
    <2>1. DashArray(line.lty) = [dash |-> DashPattern(line.lty)]
      BY <1>2, LineParts, DashDigits DEF DashArray
    <2>3. "dash" \in Props
      BY DEF Props
    <2> QED
      BY <2>1, <2>3 DEF Get, Unset, Props
  <1> QED
    BY <1>1, <1>2

(* css_lineinfo, over the style sheet and SVG's initial values.            *)
LEMMA CssLine ==
    ASSUME NEW line \in Line
    PROVE  LET p == CssLineInfo(line) IN
             /\ \A x \in {"fill", "fillOpacity", "fillRule"} : \A d : Get(p, x, d) = d
             /\ ~Transparent(line.col) =>
                   /\ Get(p, "stroke", "black") = line.col.rgb
                   /\ Get(p, "strokeOpacity", 255) = line.col.alpha
                   /\ Get(p, "dash", <<>>) = DashPattern(line.lty)
             /\ Transparent(line.col) => Get(p, "stroke", "black") = "none"
             /\ Get(p, "cap", "round") = line.lend /\ Get(p, "join", "round") = line.ljoin
             /\ line.ljoin = "mitre" => Get(p, "limit", 10) = line.lmitre
  <1> DEFINE a == IF line.col = Black THEN Unset
                  ELSE IF Transparent(line.col) THEN [stroke |-> "none"]
                  ELSE StrokeColor(line.col)
             b == DashArray(line.lty)
             c == IF line.lend = "round" THEN Unset ELSE [cap |-> line.lend]
             e == IF line.ljoin = "round" THEN Unset ELSE [join |-> line.ljoin]
             f == IF line.ljoin = "mitre" /\ line.lmitre # 10 THEN [limit |-> line.lmitre]
                  ELSE Unset
             P(x, d) == Get(a, x, Get(b, x, Get(c, x, Get(e, x, Get(f, x, d)))))
  <1>1. CssLineInfo(line) = a ++ b ++ c ++ e ++ f
    BY DEF CssLineInfo
  <1>2. \A x, d : Get(CssLineInfo(line), x, d) = P(x, d)
    <2> HIDE DEF a, b, c, e, f
    <2> QED
      BY <1>1, GetFive
  <1>3. \A x \in Props : \A d : x \notin {"stroke", "strokeOpacity"} => Get(a, x, d) = d
    <2>1. CASE line.col = Black
      BY <2>1 DEF Get, Unset, Props
    <2>2. CASE line.col # Black /\ Transparent(line.col)
      BY <2>2 DEF Get, Props
    <2>3. CASE line.col # Black /\ ~Transparent(line.col)
      <3> DEFINE k == line.col
      <3>1. a = StrokeColor(k) /\ k \in Color
        BY <2>3, LineParts
      <3> HIDE DEF a, k
      <3> QED
        BY <3>1, StrokeOf
    <2> QED
      BY <2>1, <2>2, <2>3
  <1>4. /\ "stroke" \in Props /\ "strokeOpacity" \in Props /\ "dash" \in Props
        /\ "cap" \in Props /\ "join" \in Props /\ "limit" \in Props
        /\ {"fill", "fillOpacity", "fillRule"} \subseteq Props
    BY DEF Props
  <1>5. ~Transparent(line.col) =>
            Get(a, "stroke", "black") = line.col.rgb /\ Get(a, "strokeOpacity", 255) = line.col.alpha
    <2>1. Black.rgb = "black" /\ Black.alpha = 255
      BY DEF Black
    <2>2. CASE line.col = Black
      BY <2>1, <2>2 DEF Get, Unset
    <2>3. CASE line.col # Black /\ ~Transparent(line.col)
      <3> DEFINE k == line.col
      <3>1. a = StrokeColor(k) /\ k \in Color
        BY <2>3, LineParts
      <3> HIDE DEF a, k
      <3>2. Get(StrokeColor(k), "stroke", "black") = k.rgb
        BY <3>1, StrokeOf
      <3>3. Get(StrokeColor(k), "strokeOpacity", 255) = k.alpha
        BY <3>1, StrokeOf
      <3> QED
        BY <3>1, <3>2, <3>3 DEF k
    <2> QED
      BY <2>2, <2>3
  <1>6. Transparent(line.col) => Get(a, "stroke", "black") = "none"
    <2>1. ~Transparent(Black)
      BY DEF Black, Transparent
    <2> QED
      BY <2>1 DEF Get
  <1>7. /\ \A x \in Props : \A d : x # "dash" => Get(b, x, d) = d
        /\ ~Transparent(line.col) => Get(b, "dash", <<>>) = DashPattern(line.lty)
    BY <1>4, DashOf
  <1>8. \A x \in Props : \A d :
            Get(c, x, d) = IF x = "cap" /\ line.lend # "round" THEN line.lend ELSE d
    BY DEF Get, Unset, Props
  <1>9. \A x \in Props : \A d :
            Get(e, x, d) = IF x = "join" /\ line.ljoin # "round" THEN line.ljoin ELSE d
    BY DEF Get, Unset, Props
  <1>10. \A x \in Props : \A d :
            Get(f, x, d) = IF x = "limit" /\ line.ljoin = "mitre" /\ line.lmitre # 10
                           THEN line.lmitre ELSE d
    BY DEF Get, Unset, Props
  <1> HIDE DEF a, b, c, e, f
  <1>11. \A x \in {"fill", "fillOpacity", "fillRule"} : \A d : P(x, d) = d
    BY <1>3, <1>4, <1>7, <1>8, <1>9, <1>10
  <1>12. ~Transparent(line.col) =>
             /\ P("stroke", "black") = line.col.rgb
             /\ P("strokeOpacity", 255) = line.col.alpha
             /\ P("dash", <<>>) = DashPattern(line.lty)
    BY <1>3, <1>4, <1>5, <1>7, <1>8, <1>9, <1>10
  <1>13. Transparent(line.col) => P("stroke", "black") = "none"
    BY <1>3, <1>4, <1>6, <1>7, <1>8, <1>9, <1>10
  <1>14. P("cap", "round") = line.lend /\ P("join", "round") = line.ljoin
    BY <1>3, <1>4, <1>7, <1>8, <1>9, <1>10
  <1>15. line.ljoin = "mitre" => P("limit", 10) = line.lmitre
    BY <1>3, <1>4, <1>7, <1>8, <1>9, <1>10
  <1> HIDE DEF P
  <1> QED
    BY <1>2, <1>11, <1>12, <1>13, <1>14, <1>15

(* att_lineinfo, over SVG's initial values.                                *)
LEMMA AttLine ==
    ASSUME NEW line \in Line
    PROVE  LET p == AttLineInfo(line) IN
             /\ \A x \in {"fill", "fillOpacity", "fillRule"} : \A d : Get(p, x, d) = d
             /\ ~Transparent(line.col) =>
                   /\ Get(p, "stroke", "none") = line.col.rgb
                   /\ Get(p, "strokeOpacity", 255) = line.col.alpha
                   /\ Get(p, "dash", <<>>) = DashPattern(line.lty)
             /\ Transparent(line.col) => Get(p, "stroke", "none") = "none"
             /\ Get(p, "cap", "butt") = line.lend /\ Get(p, "join", "mitre") = line.ljoin
             /\ line.ljoin = "mitre" => Get(p, "limit", 4) = line.lmitre
  <1> DEFINE a == IF Transparent(line.col) THEN Unset ELSE StrokeColor(line.col)
             b == DashArray(line.lty)
             c == IF line.lend = "butt" THEN Unset ELSE [cap |-> line.lend]
             e == IF line.ljoin = "mitre" THEN Unset ELSE [join |-> line.ljoin]
             f == IF line.ljoin = "mitre" /\ line.lmitre # 4 THEN [limit |-> line.lmitre]
                  ELSE Unset
             P(x, d) == Get(a, x, Get(b, x, Get(c, x, Get(e, x, Get(f, x, d)))))
  <1>1. AttLineInfo(line) = a ++ b ++ c ++ e ++ f
    BY DEF AttLineInfo
  <1>2. \A x, d : Get(AttLineInfo(line), x, d) = P(x, d)
    <2> HIDE DEF a, b, c, e, f
    <2> QED
      BY <1>1, GetFive
  <1>3. /\ \A x \in Props : \A d : x \notin {"stroke", "strokeOpacity"} => Get(a, x, d) = d
        /\ ~Transparent(line.col) =>
              /\ Get(a, "stroke", "none") = line.col.rgb
              /\ Get(a, "strokeOpacity", 255) = line.col.alpha
        /\ Transparent(line.col) => Get(a, "stroke", "none") = "none"
    <2>1. CASE Transparent(line.col)
      BY <2>1 DEF Get, Unset, Props
    <2>2. CASE ~Transparent(line.col)
      <3> DEFINE k == line.col
      <3>1. a = StrokeColor(k) /\ k \in Color
        BY <2>2, LineParts
      <3> HIDE DEF a, k
      <3>2. \A x \in Props : \A d : x \notin {"stroke", "strokeOpacity"} => Get(a, x, d) = d
        BY <3>1, StrokeOf
      <3>3. Get(a, "stroke", "none") = k.rgb
        BY <3>1, StrokeOf
      <3>4. Get(a, "strokeOpacity", 255) = k.alpha
        BY <3>1, StrokeOf
      <3> QED
        BY <2>2, <3>2, <3>3, <3>4 DEF k
    <2> QED
      BY <2>1, <2>2
  <1>4. /\ "stroke" \in Props /\ "strokeOpacity" \in Props /\ "dash" \in Props
        /\ "cap" \in Props /\ "join" \in Props /\ "limit" \in Props
        /\ {"fill", "fillOpacity", "fillRule"} \subseteq Props
    BY DEF Props
  <1>7. /\ \A x \in Props : \A d : x # "dash" => Get(b, x, d) = d
        /\ ~Transparent(line.col) => Get(b, "dash", <<>>) = DashPattern(line.lty)
    BY <1>4, DashOf
  <1>8. \A x \in Props : \A d :
            Get(c, x, d) = IF x = "cap" /\ line.lend # "butt" THEN line.lend ELSE d
    BY DEF Get, Unset, Props
  <1>9. \A x \in Props : \A d :
            Get(e, x, d) = IF x = "join" /\ line.ljoin # "mitre" THEN line.ljoin ELSE d
    BY DEF Get, Unset, Props
  <1>10. \A x \in Props : \A d :
            Get(f, x, d) = IF x = "limit" /\ line.ljoin = "mitre" /\ line.lmitre # 4
                           THEN line.lmitre ELSE d
    BY DEF Get, Unset, Props
  <1> HIDE DEF a, b, c, e, f
  <1>11. \A x \in {"fill", "fillOpacity", "fillRule"} : \A d : P(x, d) = d
    BY <1>3, <1>4, <1>7, <1>8, <1>9, <1>10
  <1>12. ~Transparent(line.col) =>
             /\ P("stroke", "none") = line.col.rgb
             /\ P("strokeOpacity", 255) = line.col.alpha
             /\ P("dash", <<>>) = DashPattern(line.lty)
    BY <1>3, <1>4, <1>7, <1>8, <1>9, <1>10
  <1>13. Transparent(line.col) => P("stroke", "none") = "none"
    BY <1>3, <1>4, <1>7, <1>8, <1>9, <1>10
  <1>14. P("cap", "butt") = line.lend /\ P("join", "mitre") = line.ljoin
    BY <1>3, <1>4, <1>7, <1>8, <1>9, <1>10
  <1>15. line.ljoin = "mitre" => P("limit", 4) = line.lmitre
    BY <1>3, <1>4, <1>7, <1>8, <1>9, <1>10
  <1> HIDE DEF P
  <1> QED
    BY <1>2, <1>11, <1>12, <1>13, <1>14, <1>15

FillProps == {"fill", "fillOpacity", "fillRule"}

LEMMA FillOf ==
    ASSUME NEW col \in Color, ~Transparent(col)
    PROVE  LET p == FillColor(col) IN
             /\ \A d : Get(p, "fill", d) = col.rgb
             /\ Get(p, "fillOpacity", 255) = col.alpha
             /\ \A x \in Props : \A d : x \notin {"fill", "fillOpacity"} => Get(p, x, d) = d
  <1> DEFINE a == [fill |-> col.rgb]
             b == IF Opaque(col) THEN Unset ELSE [fillOpacity |-> col.alpha]
  <1>1. FillColor(col) = a ++ b
    BY DEF FillColor
  <1>2. \A x, y : Get(a ++ b, x, y) = Get(a, x, Get(b, x, y))
    BY GetOver
  <1>3. \A x \in Props : \A y : Get(a, x, y) = IF x = "fill" THEN col.rgb ELSE y
    BY DEF Get, Unset, Props
  <1>4. \A x \in Props : \A y :
            Get(b, x, y) = IF x = "fillOpacity" /\ ~Opaque(col) THEN col.alpha ELSE y
    BY DEF Get, Unset, Props
  <1>5. Opaque(col) => col.alpha = 255
    BY DEF Opaque
  <1> HIDE DEF a, b
  <1> QED
    BY <1>1, <1>2, <1>3, <1>4, <1>5 DEF Props

(* What a record of properties p makes of an area, its fill being d where  *)
(* it sets none.                                                           *)
Fills(p, col, d) ==
    IF Transparent(col) THEN Get(p, "fill", d) = "none"
    ELSE Get(p, "fill", d) = col.rgb /\ Get(p, "fillOpacity", 255) = col.alpha

OnlyFills(p) == \A x \in Props : \A d : x \notin FillProps => Get(p, x, d) = d

LEMMA FillsOmit ==
    ASSUME NEW col \in Color
    PROVE  LET p == FillOrOmit(col) IN
             /\ Fills(p, col, "none") /\ OnlyFills(p)
             /\ \A d : Get(p, "fillRule", d) = d
  <1>0. "fillRule" \in Props
    BY DEF Props
  <1>1. CASE Transparent(col)
    <2>1. FillOrOmit(col) = Unset
      BY <1>1 DEF FillOrOmit
    <2>2. \A x \in Props : \A d : Get(Unset, x, d) = d
      BY DEF Get, Unset, Props
    <2>3. "fill" \in Props
      BY DEF Props
    <2> QED
      BY <1>0, <1>1, <2>1, <2>2, <2>3 DEF Fills, OnlyFills
  <1>2. CASE ~Transparent(col)
    <2>1. FillOrOmit(col) = FillColor(col)
      BY <1>2 DEF FillOrOmit
    <2> QED
      BY <1>0, <1>2, <2>1, FillOf DEF Fills, OnlyFills, FillProps
  <1> QED
    BY <1>1, <1>2

LEMMA FillsNone ==
    ASSUME NEW col \in Color
    PROVE  LET p == FillOrNone(col) IN
             /\ \A d : Fills(p, col, d)
             /\ OnlyFills(p) /\ \A d : Get(p, "fillRule", d) = d
  <1>0. "fillRule" \in Props
    BY DEF Props
  <1>1. CASE Transparent(col)
    <2>1. FillOrNone(col) = [fill |-> "none"]
      BY <1>1 DEF FillOrNone
    <2> DEFINE p == [fill |-> "none"]
    <2>2. \A x \in Props : \A d : Get(p, x, d) = IF x = "fill" THEN "none" ELSE d
      BY DEF Get, Props
    <2>3. "fill" \in Props
      BY DEF Props
    <2> HIDE DEF p
    <2>4. FillOrNone(col) = p
      BY <2>1 DEF p
    <2> QED
      BY <1>0, <1>1, <2>4, <2>2, <2>3 DEF Fills, OnlyFills, FillProps
  <1>2. CASE ~Transparent(col)
    <2>1. FillOrNone(col) = FillColor(col)
      BY <1>2 DEF FillOrNone
    <2> QED
      BY <1>0, <1>2, <2>1, FillOf DEF Fills, OnlyFills, FillProps
  <1> QED
    BY <1>1, <1>2

(* A line drawn over another element's properties, and the other way round:*)
(* L has the properties of lines, F those of areas.                        *)
Strokes(p, line, col, cap, join, limit) ==
    /\ ~Transparent(line.col) =>
          /\ Get(p, "stroke", col) = line.col.rgb
          /\ Get(p, "strokeOpacity", 255) = line.col.alpha
          /\ Get(p, "dash", <<>>) = DashPattern(line.lty)
    /\ Transparent(line.col) => Get(p, "stroke", col) = "none"
    /\ Get(p, "cap", cap) = line.lend /\ Get(p, "join", join) = line.ljoin
    /\ line.ljoin = "mitre" => Get(p, "limit", limit) = line.lmitre

OnlyStrokes(p) == \A x \in FillProps : \A d : Get(p, x, d) = d

LEMMA BothProperties ==
    ASSUME NEW p, NEW q, OnlyStrokes(p), OnlyFills(q), NEW line, NEW fcol, NEW d, NEW col,
           NEW cap, NEW join, NEW limit
    PROVE  /\ Strokes(p, line, col, cap, join, limit) =>
                 Strokes(p ++ q, line, col, cap, join, limit)
           /\ Fills(q, fcol, d) => Fills(p ++ q, fcol, d)
           /\ \A r : Get(p ++ q, "fillRule", r) = Get(q, "fillRule", r)
  <1>1. \A x, y : Get(p ++ q, x, y) = Get(p, x, Get(q, x, y))
    BY GetOver
  <1>2. \A x \in Props : \A y : x \notin FillProps => Get(p ++ q, x, y) = Get(p, x, y)
    BY <1>1 DEF OnlyFills
  <1>3. \A x \in FillProps : \A y : Get(p ++ q, x, y) = Get(q, x, y)
    BY <1>1 DEF OnlyStrokes
  <1>4. /\ "stroke" \in Props \ FillProps /\ "strokeOpacity" \in Props \ FillProps
        /\ "dash" \in Props \ FillProps /\ "cap" \in Props \ FillProps
        /\ "join" \in Props \ FillProps /\ "limit" \in Props \ FillProps
        /\ "fill" \in FillProps /\ "fillOpacity" \in FillProps /\ "fillRule" \in FillProps
    BY DEF Props, FillProps
  <1>5. Strokes(p, line, col, cap, join, limit) =>
            Strokes(p ++ q, line, col, cap, join, limit)
    BY <1>2, <1>4 DEF Strokes
  <1>6. Fills(q, fcol, d) => Fills(p ++ q, fcol, d)
    BY <1>3, <1>4 DEF Fills
  <1> QED
    BY <1>3, <1>4, <1>5, <1>6

(* The fill rule is a property of its own.                                 *)
LEMMA RuleProperty ==
    ASSUME NEW p, NEW rule, NEW line, NEW fcol, NEW d, NEW col, NEW cap, NEW join, NEW limit,
           \A r : Get(p, "fillRule", r) = r
    PROVE  LET q == p ++ [fillRule |-> rule] IN
             /\ Strokes(p, line, col, cap, join, limit) =>
                   Strokes(q, line, col, cap, join, limit)
             /\ Fills(p, fcol, d) => Fills(q, fcol, d)
             /\ \A r : Get(q, "fillRule", r) = rule
  <1> DEFINE f == [fillRule |-> rule]
             q == p ++ f
  <1>1. \A x, y : Get(q, x, y) = Get(p, x, Get(f, x, y))
    BY GetOver
  <1>2. \A x \in Props : \A y : Get(f, x, y) = IF x = "fillRule" THEN rule ELSE y
    BY DEF Get
  <1>3. /\ "stroke" \in Props /\ "strokeOpacity" \in Props
        /\ "dash" \in Props /\ "cap" \in Props
        /\ "join" \in Props /\ "limit" \in Props
        /\ "fill" \in Props /\ "fillOpacity" \in Props /\ "fillRule" \in Props
    BY DEF Props
  <1> HIDE DEF q, f
  <1>4. \A x \in Props : \A y : x # "fillRule" => Get(q, x, y) = Get(p, x, y)
    BY <1>1, <1>2
  <1>5. \A r : Get(q, "fillRule", r) = rule
    BY <1>1, <1>2, <1>3
  <1>6. Strokes(p, line, col, cap, join, limit) => Strokes(q, line, col, cap, join, limit)
    BY <1>3, <1>4 DEF Strokes
  <1>7. Fills(p, fcol, d) => Fills(q, fcol, d)
    BY <1>3, <1>4 DEF Fills
  <1> QED
    BY <1>5, <1>6, <1>7 DEF q, f

----------------------------------------------------------------------------
(* What can be seen.                                                       *)

Painting == INSTANCE SequenceLemmas
    WITH Op <- GroupsStep, Image <- LAMBDA m : IF m.do = "image" \/ ~Transparent(m.col) THEN <<m>> ELSE <<>>

Seen(m) == IF m.do = "image" \/ ~Transparent(m.col) THEN <<m>> ELSE <<>>

LEMMA SeeingMap == ASSUME NEW q PROVE Visible(q) = Painting!Flatmap(q)
  BY DEF Visible, Selected, FlattenSeq, Painting!Flatmap, Painting!Flatten

LEMMA SeenTyped == ASSUME NEW S, NEW m \in S PROVE Seen(m) \in Seq(S)
  <1>1. <<m>> \in Seq(S)
    OBVIOUS
  <1>2. <<>> \in Seq(S)
    OBVIOUS
  <1> QED
    BY <1>1, <1>2 DEF Seen

LEMMA VisibleConcat ==
    ASSUME NEW S, NEW p \in Seq(S), NEW q \in Seq(S)
    PROVE  Visible(p \o q) = Visible(p) \o Visible(q) /\ Visible(p) \in Seq(S)
  <1>1. \A m \in S : Seen(m) \in Seq(S)
    BY SeenTyped
  <1>2. Painting!Flatmap(p \o q) = Painting!Flatmap(p) \o Painting!Flatmap(q)
    BY <1>1, Painting!FlatmapConcat DEF Seen
  <1>3. Painting!Flatmap(p) \in Seq(S)
    BY <1>1, Painting!FlatmapSequence DEF Seen
  <1> QED
    BY <1>2, <1>3, SeeingMap

LEMMA VisibleEmpty == Visible(<<>>) = <<>>
  BY SeeingMap, Painting!FlatmapEmpty

LEMMA VisibleOne == ASSUME NEW m PROVE Visible(<<m>>) = Seen(m)
  <1>1. Seen(m) \in Seq({m})
    BY SeenTyped
  <1>2. Painting!Flatmap(<<m>>) = Seen(m)
    BY <1>1, Painting!FlatmapOne DEF Seen
  <1> QED
    BY <1>2, SeeingMap

LEMMA VisibleTwo ==
    ASSUME NEW a, NEW b
    PROVE  Visible(<<a, b>>) = Seen(a) \o Seen(b)
  <1> DEFINE S == {a, b}
  <1>3. a \in S /\ b \in S
    OBVIOUS
  <1> HIDE DEF S
  <1>4. <<a>> \in Seq(S) /\ <<b>> \in Seq(S)
    BY <1>3
  <1>5. <<a, b>> = <<a>> \o <<b>>
    <2>1. \A q \in Seq(S) : q \o <<b>> = Append(q, b)
      BY <1>3
    <2>2. <<a>> \o <<b>> = Append(<<a>>, b)
      BY <1>4, <2>1
    <2> QED
      BY <2>2, JoinOne
  <1>1. <<a, b>> = <<a>> \o <<b>> /\ <<a>> \in Seq(S) /\ <<b>> \in Seq(S)
    BY <1>4, <1>5
  <1>2. Visible(<<a>> \o <<b>>) = Visible(<<a>>) \o Visible(<<b>>)
    BY <1>1, VisibleConcat
  <1> QED
    BY <1>1, <1>2, VisibleOne

(* The marks of many sequences.                                            *)
LEMMA VisibleFlatten ==
    ASSUME NEW S, NEW m, NEW N \in Nat, \A k \in 1..N : m[k] \in Seq(S)
    PROVE  /\ Visible(FlattenSeq([k \in 1..N |-> m[k]]))
                  = FlattenSeq([k \in 1..N |-> Visible(m[k])])
           /\ FlattenSeq([k \in 1..N |-> m[k]]) \in Seq(S)
  <1> DEFINE F(n) == FlattenSeq([k \in 1..n |-> m[k]])
             v == [k \in 1..N |-> Visible(m[k])]
             V(n) == FlattenSeq([k \in 1..n |-> v[k]])
             T == {n \in Nat : n <= N => Visible(F(n)) = V(n) /\ F(n) \in Seq(S)}
  <1>1. 0 \in T
    <2>1. [k \in 1..0 |-> m[k]] = <<>> /\ [k \in 1..0 |-> v[k]] = <<>> /\ <<>> \in Seq(S)
      OBVIOUS
    <2>2. F(0) = <<>> /\ V(0) = <<>>
      BY <2>1, FlattenSeqEmpty, Zenon
    <2> HIDE DEF F, V
    <2> QED
      BY <2>1, <2>2, VisibleEmpty
  <1>2. ASSUME NEW n \in Nat, n \in T PROVE n + 1 \in T
    <2> SUFFICES ASSUME n + 1 <= N PROVE Visible(F(n + 1)) = V(n + 1) /\ F(n + 1) \in Seq(S)
      OBVIOUS
    <2>1. /\ \A k \in 1..(n + 1) : m[k] \in Seq(S) /\ v[k] = Visible(m[k]) /\ v[k] \in Seq(S)
          /\ n + 1 \in 1..(n + 1)
      BY VisibleConcat
    <2>2. F(n + 1) = F(n) \o m[n + 1] /\ F(n) \in Seq(S)
      BY <2>1, FlattenSeqPrefix
    <2> HIDE DEF v
    <2>3. V(n + 1) = V(n) \o v[n + 1]
      BY <2>1, FlattenSeqPrefix
    <2> HIDE DEF F, V
    <2>4. Visible(F(n)) = V(n)
      BY <1>2
    <2>5. Visible(F(n) \o m[n + 1]) = Visible(F(n)) \o Visible(m[n + 1])
      BY <2>1, <2>2, VisibleConcat
    <2>6. F(n) \o m[n + 1] \in Seq(S)
      BY <2>1, <2>2
    <2> QED
      BY <2>1, <2>2, <2>3, <2>4, <2>5, <2>6
  <1> HIDE DEF T
  <1>3. Nat \subseteq T
    BY <1>1, <1>2, SetInduction
  <1>4. Visible(F(N)) = V(N) /\ F(N) \in Seq(S)
    BY <1>3 DEF T
  <1>5. [k \in 1..N |-> v[k]] = v
    OBVIOUS
  <1> QED
    BY <1>4, <1>5

----------------------------------------------------------------------------
(* Marks.                                                                  *)

LEMMA MarkFields ==
    ASSUME NEW area, NEW col, NEW rule, NEW pen, NEW clip, NEW text, NEW look, NEW smooth
    PROVE  /\ FillMark(area, col, rule, clip).do = "fill"
           /\ FillMark(area, col, rule, clip).col = col
           /\ StrokeMark(area, col, pen, clip).do = "stroke"
           /\ StrokeMark(area, col, pen, clip).col = col
           /\ TextMark(text, col, clip).do = "text"
           /\ TextMark(text, col, clip).col = col
           /\ ImageMark(area, look, smooth, clip).do = "image"
  <1>1. FillMark(area, col, rule, clip).do = "fill" /\ FillMark(area, col, rule, clip).col = col
    BY DEF FillMark, Mark
  <1>2. StrokeMark(area, col, pen, clip).do = "stroke" /\ StrokeMark(area, col, pen, clip).col = col
    BY DEF StrokeMark, Mark
  <1>3. TextMark(text, col, clip).do = "text" /\ TextMark(text, col, clip).col = col
    BY DEF TextMark, Mark
  <1>4. ImageMark(area, look, smooth, clip).do = "image"
    BY DEF ImageMark, Mark
  <1> QED
    BY <1>1, <1>2, <1>3, <1>4

(* Painting with other colours, rules or pens where nothing can be seen of *)
(* them.                                                                   *)
LEMMA PaintedAlike ==
    ASSUME NEW area, NEW clips, NEW f1, NEW f2, NEW r1, NEW r2, NEW s1, NEW s2, NEW p1, NEW p2,
           \/ Transparent(f1) /\ Transparent(f2)
           \/ f1 = f2 /\ r1 = r2,
           \/ Transparent(s1) /\ Transparent(s2)
           \/ s1 = s2 /\ p1 = p2
    PROVE  Visible(Paint(area, f1, r1, s1, p1, clips)) = Visible(Paint(area, f2, r2, s2, p2, clips))
  <1> DEFINE a1 == FillMark(area, f1, r1, clips)
             a2 == FillMark(area, f2, r2, clips)
             b1 == StrokeMark(area, s1, p1, clips)
             b2 == StrokeMark(area, s2, p2, clips)
  <1>1. /\ Paint(area, f1, r1, s1, p1, clips) = <<a1, b1>>
        /\ Paint(area, f2, r2, s2, p2, clips) = <<a2, b2>>
    BY DEF Paint
  <1>2. /\ a1.do = "fill" /\ a1.col = f1 /\ a2.do = "fill" /\ a2.col = f2
        /\ b1.do = "stroke" /\ b1.col = s1 /\ b2.do = "stroke" /\ b2.col = s2
    BY MarkFields
  <1>3. f1 = f2 /\ r1 = r2 => a1 = a2
    OBVIOUS
  <1>4. s1 = s2 /\ p1 = p2 => b1 = b2
    OBVIOUS
  <1> HIDE DEF a1, a2, b1, b2
  <1>5. Seen(a1) = Seen(a2)
    BY <1>2, <1>3 DEF Seen
  <1>6. Seen(b1) = Seen(b2)
    BY <1>2, <1>4 DEF Seen
  <1> QED
    BY <1>1, <1>5, <1>6, VisibleTwo

(* A shape with properties p over the values d is stroked and filled.      *)
ShownAs(doc, el, p, d, line, fcol, rule) ==
    /\ el.tag \in Shapes /\ line \in Line /\ fcol \in Color \cup {NoColor}
    /\ \A x \in Props : Computed(doc, el)[x] = Get(p, x, d[x])
    /\ d.strokeOpacity = 255 /\ d.fillOpacity = 255 /\ d.dash = <<>>
    /\ Strokes(p, line, d.stroke, d.cap, d.join, d.limit)
    /\ IF el.tag = "line" THEN fcol = NoColor ELSE Fills(p, fcol, d.fill)
    /\ ~Transparent(fcol) => Get(p, "fillRule", d.fillRule) = rule

LEMMA ShapeMarks ==
    ASSUME NEW doc, NEW el, NEW p, NEW d, NEW line, NEW fcol, NEW rule, NEW clips,
           ShownAs(doc, el, p, d, line, fcol, rule)
    PROVE  Visible(ElementMarks(doc, el, clips))
               = Visible(Paint(el.area, fcol, rule, line.col, AskedPen(line), clips))
  <1> DEFINE c == Computed(doc, el)
             f1 == IF el.tag = "line" THEN NoColor ELSE ColorOf(c.fill, c.fillOpacity)
             s1 == ColorOf(c.stroke, c.strokeOpacity)
             p1 == Pen(c.dash, c.cap, c.join, c.limit)
  <1>1. ElementMarks(doc, el, clips) = Paint(el.area, f1, c.fillRule, s1, p1, clips)
    BY DEF ElementMarks, Shapes, ShownAs
  <1>2. /\ c.fill = Get(p, "fill", d.fill) /\ c.fillOpacity = Get(p, "fillOpacity", 255)
        /\ c.fillRule = Get(p, "fillRule", d.fillRule) /\ c.stroke = Get(p, "stroke", d.stroke)
        /\ c.strokeOpacity = Get(p, "strokeOpacity", 255) /\ c.dash = Get(p, "dash", <<>>)
        /\ c.cap = Get(p, "cap", d.cap) /\ c.join = Get(p, "join", d.join)
        /\ c.limit = Get(p, "limit", d.limit)
    <2>1. /\ "stroke" \in Props /\ "strokeOpacity" \in Props
          /\ "dash" \in Props /\ "cap" \in Props
          /\ "join" \in Props /\ "limit" \in Props
          /\ "fill" \in Props /\ "fillOpacity" \in Props /\ "fillRule" \in Props
      BY DEF Props
    <2> QED
      BY <2>1 DEF ShownAs
  <1> HIDE DEF c
  <1>3. Transparent(NoColor)
    BY DEF Transparent, NoColor
  <1>4. fcol # NoColor => fcol.rgb # "none" /\ fcol = [rgb |-> fcol.rgb, alpha |-> fcol.alpha]
    <2>1. \A k \in Color : k.rgb # "none" /\ k = [rgb |-> k.rgb, alpha |-> k.alpha]
      BY DEF Color
    <2> QED
      BY <2>1 DEF ShownAs
  <1>5. \/ Transparent(f1) /\ Transparent(fcol)
        \/ f1 = fcol /\ c.fillRule = rule
    <2>1. CASE Transparent(fcol)
      <3>1. f1 = NoColor
        BY <1>2, <2>1 DEF Fills, ColorOf, ShownAs
      <3> QED
        BY <1>3, <2>1, <3>1
    <2>2. CASE ~Transparent(fcol)
      <3>1. fcol # NoColor /\ el.tag # "line"
        BY <1>3, <2>2 DEF ShownAs
      <3>2. c.fill = fcol.rgb /\ c.fillOpacity = fcol.alpha
        BY <1>2, <2>2, <3>1 DEF Fills, ShownAs
      <3>3. f1 = [rgb |-> fcol.rgb, alpha |-> fcol.alpha]
        BY <1>4, <3>1, <3>2 DEF ColorOf
      <3> QED
        BY <1>2, <1>4, <2>2, <3>1, <3>3 DEF ShownAs
    <2> QED
      BY <2>1, <2>2
  <1>6. \/ Transparent(s1) /\ Transparent(line.col)
        \/ s1 = line.col /\ p1 = AskedPen(line)
    <2>1. CASE Transparent(line.col)
      <3>1. s1 = NoColor
        BY <1>2, <2>1 DEF Strokes, ColorOf, ShownAs
      <3> QED
        BY <1>3, <2>1, <3>1
    <2>2. CASE ~Transparent(line.col)
      <3>1. c.stroke = line.col.rgb /\ c.strokeOpacity = line.col.alpha
        BY <1>2, <2>2 DEF Strokes, ShownAs
      <3>2. s1 = line.col
        BY <3>1, LineParts DEF ColorOf, ShownAs
      <3>3. /\ c.dash = DashPattern(line.lty) /\ c.cap = line.lend /\ c.join = line.ljoin
            /\ line.ljoin = "mitre" => c.limit = line.lmitre
        BY <1>2, <2>2 DEF Strokes, ShownAs
      <3>4. p1 = AskedPen(line)
        BY <3>3 DEF AskedPen, Pen
      <3> QED
        BY <3>2, <3>4
    <2> QED
      BY <2>1, <2>2
  <1> HIDE DEF f1, s1, p1
  <1> QED
    BY <1>1, <1>5, <1>6, PaintedAlike

(* What a style attribute comes to, and what attributes do.                *)
StyleDefaults == [x \in Props |-> IF x \in DOMAIN Sheet THEN Sheet[x] ELSE Initial[x]]

LEMMA ComputedShape ==
    ASSUME NEW doc, NEW el, el.tag \in Shapes, el.atts = Unset, doc.sheet = TRUE,
           NEW x \in Props
    PROVE  Computed(doc, el)[x] = Get(el.style, x, StyleDefaults[x])
  <1>1. Computed(doc, el) = el.style ++ Sheet ++ Unset ++ Initial
    BY DEF Computed
  <1>2. DOMAIN Initial = Props
    BY DEF Initial, Props
  <1>3. Computed(doc, el)[x] = Get(el.style ++ Sheet ++ Unset, x, Initial[x])
    <2> DEFINE q == el.style ++ Sheet ++ Unset
               i == Initial
    <2>1. Computed(doc, el) = q ++ i /\ x \in DOMAIN i
      BY <1>1, <1>2
    <2> HIDE DEF q, i
    <2>2. (q ++ i)[x] = Get(q, x, i[x])
      BY <2>1 DEF Get, ++
    <2> QED
      BY <2>1, <2>2 DEF q, i
  <1>4. /\ Get(el.style ++ Sheet ++ Unset, x, Initial[x])
               = Get(el.style ++ Sheet, x, Get(Unset, x, Initial[x]))
        /\ \A v : Get(el.style ++ Sheet, x, v) = Get(el.style, x, Get(Sheet, x, v))
    BY GetOver
  <1>5. Get(Unset, x, Initial[x]) = Initial[x]
    BY DEF Get, Unset, Props
  <1>6. Get(Sheet, x, Initial[x]) = StyleDefaults[x]
    BY DEF Get, StyleDefaults
  <1> QED
    BY <1>3, <1>4, <1>5, <1>6

LEMMA ComputedAtts ==
    ASSUME NEW doc, NEW el, el.style = Unset, doc.sheet = FALSE, NEW x \in Props
    PROVE  Computed(doc, el)[x] = Get(el.atts, x, Initial[x])
  <1>1. Computed(doc, el) = Unset ++ Unset ++ el.atts ++ Initial
    BY DEF Computed
  <1>2. DOMAIN Initial = Props
    BY DEF Initial, Props
  <1>3. Computed(doc, el)[x] = Get(Unset ++ Unset ++ el.atts, x, Initial[x])
    <2> DEFINE q == Unset ++ Unset ++ el.atts
               i == Initial
    <2>1. Computed(doc, el) = q ++ i /\ x \in DOMAIN i
      BY <1>1, <1>2
    <2> HIDE DEF q, i
    <2>2. (q ++ i)[x] = Get(q, x, i[x])
      BY <2>1 DEF Get, ++
    <2> QED
      BY <2>1, <2>2 DEF q, i
  <1>4. /\ Get(Unset ++ Unset ++ el.atts, x, Initial[x])
               = Get(Unset ++ Unset, x, Get(el.atts, x, Initial[x]))
        /\ \A v : Get(Unset ++ Unset, x, v) = Get(Unset, x, Get(Unset, x, v))
    BY GetOver
  <1>5. \A v : Get(Unset, x, v) = v
    BY DEF Get, Unset, Props
  <1> QED
    BY <1>3, <1>4, <1>5

LEMMA ComputedText ==
    ASSUME NEW doc, NEW el, el.tag \notin Shapes, NEW x \in Props,
           \/ el.atts = Unset
           \/ el.style = Unset
    PROVE  Computed(doc, el)[x] = Get(IF el.atts = Unset THEN el.style ELSE el.atts, x, Initial[x])
  <1>1. Computed(doc, el) = el.style ++ Unset ++ el.atts ++ Initial
    BY DEF Computed
  <1>2. DOMAIN Initial = Props
    BY DEF Initial, Props
  <1>3. Computed(doc, el)[x] = Get(el.style ++ Unset ++ el.atts, x, Initial[x])
    <2> DEFINE q == el.style ++ Unset ++ el.atts
               i == Initial
    <2>1. Computed(doc, el) = q ++ i /\ x \in DOMAIN i
      BY <1>1, <1>2
    <2> HIDE DEF q, i
    <2>2. (q ++ i)[x] = Get(q, x, i[x])
      BY <2>1 DEF Get, ++
    <2> QED
      BY <2>1, <2>2 DEF q, i
  <1>4. /\ Get(el.style ++ Unset ++ el.atts, x, Initial[x])
               = Get(el.style ++ Unset, x, Get(el.atts, x, Initial[x]))
        /\ \A v : Get(el.style ++ Unset, x, v) = Get(el.style, x, Get(Unset, x, v))
    BY GetOver
  <1>5. \A v : Get(Unset, x, v) = v
    BY DEF Get, Unset, Props
  <1> QED
    BY <1>3, <1>4, <1>5

----------------------------------------------------------------------------
(* Shapes in SVG.                                                          *)

Fields == {"tag", "area", "text", "href", "smooth", "style", "atts"}

LEMMA SetArea ==
    ASSUME NEW tag, NEW area
    PROVE  LET el == [[Element EXCEPT !.tag = tag] EXCEPT !.area = area] IN
             /\ el.tag = tag /\ el.area = area /\ el.style = Unset /\ el.atts = Unset
             /\ DOMAIN el = Fields
  BY DEF Element, Unset, Fields

LEMMA SetStyle ==
    ASSUME NEW g, DOMAIN g = Fields, NEW v
    PROVE  /\ LET el == [g EXCEPT !.style = v]
              IN  /\ el.style = v /\ el.atts = g.atts /\ el.tag = g.tag /\ el.area = g.area
                  /\ el.text = g.text /\ el.href = g.href /\ el.smooth = g.smooth
           /\ LET el == [g EXCEPT !.atts = v]
              IN  /\ el.atts = v /\ el.style = g.style /\ el.tag = g.tag /\ el.area = g.area
                  /\ el.text = g.text /\ el.href = g.href /\ el.smooth = g.smooth
  BY DEF Fields

LEMMA ShapeDrawCall ==
    ASSUME NEW call \in RCall, call.kind \in Shapes
    PROVE  LET dc == DrawCall(call) IN
             /\ dc.kind = call.kind /\ dc.line = call.line /\ call.line \in Line
             /\ call.kind \notin {"line", "polyline"} =>
                   dc.fill = call.fill /\ call.fill \in Color
             /\ call.kind = "path" => dc.winding = call.winding
  BY CallKinds, SameDrawCall, RectDrawCall DEF Shapes

LEMMA ShapeGeometry ==
    ASSUME NEW call \in RCall, call.kind \in Shapes
    PROVE  LET g == Geometry(DrawCall(call)) IN
             /\ g.tag = call.kind /\ g.area = AskedArea(call)
             /\ g.style = Unset /\ g.atts = Unset /\ DOMAIN g = Fields
  <1> DEFINE dc == DrawCall(call)
             g == Geometry(dc)
             a == AskedArea(call)
             el == [[Element EXCEPT !.tag = dc.kind] EXCEPT !.area = a]
  <1>1. dc.kind = call.kind
    BY DrawCallKind
  <1>2. g = el
    <2>1. CASE call.kind \in {"line", "polyline", "polygon", "circle"}
      <3>1. dc = call
        BY <2>1, SameDrawCall
      <3> HIDE DEF dc
      <3> QED
        BY <2>1, <3>1 DEF Geometry, AskedArea
    <2>2. CASE call.kind = "path"
      <3>1. dc = call
        BY <2>2, SameDrawCall
      <3>2. Traced(<<>>, PathCommands(call.points, call.nper)) = Split(call.points, call.nper)
        <4>1. /\ call.nper \in Seq(Nat \ {0, 1}) /\ call.points \in Seq(Point)
              /\ Len(call.points) = SumSeq(call.nper)
          BY <2>2, CallKinds
        <4> QED
          BY <4>1, PathTraced
      <3> HIDE DEF dc
      <3> QED
        BY <2>2, <3>1, <3>2 DEF Geometry, AskedArea
    <2>3. CASE call.kind = "rect"
      <3> DEFINE c == call.corners
      <3>1. BoxOf(dc.rect) = Box(c[1], c[2], c[3], c[4])
        BY <2>3, RectDrawCall
      <3>2. a = <<Box(c[1], c[2], c[3], c[4])>>
        BY <2>3 DEF AskedArea
      <3> HIDE DEF dc, c, a
      <3> QED
        BY <1>1, <2>3, <3>1, <3>2 DEF Geometry
    <2> QED
      BY <2>1, <2>2, <2>3 DEF Shapes
  <1>3. /\ el.tag = dc.kind /\ el.area = a /\ el.style = Unset /\ el.atts = Unset
        /\ DOMAIN el = Fields
    <2> HIDE DEF dc, a
    <2> QED
      BY SetArea, Zenon
  <1> HIDE DEF el, g, a, dc
  <1> QED
    BY <1>1, <1>2, <1>3 DEF g, a, dc

(* What R asked for.                                                       *)
AskedFill(call) == IF call.kind \in {"line", "polyline"} THEN NoColor ELSE call.fill
AskedRule(call) == IF call.kind = "path" /\ ~call.winding THEN "evenodd" ELSE "nonzero"

LEMMA ShapeAsked ==
    ASSUME NEW call, call.kind \in Shapes, NEW clip
    PROVE  AskedMarks(call, clip)
               = Paint(AskedArea(call), AskedFill(call), AskedRule(call), call.line.col,
                       AskedPen(call.line), {clip})
  BY DEF AskedMarks, AskedFill, AskedRule, Shapes

LEMMA SvgShape ==
    ASSUME NEW call \in RCall, call.kind \in Shapes, NEW doc, doc.sheet = TRUE, NEW clip
    PROVE  Visible(ElementMarks(doc, SvgVisit(DrawCall(call)), {clip}))
               = Visible(AskedMarks(call, clip))
  <1> DEFINE dc == DrawCall(call)
             el == SvgVisit(dc)
             line == call.line
             L == CssLineInfo(line)
             p == el.style
             d == StyleDefaults
             fcol == AskedFill(call)
             rule == AskedRule(call)
  <1>1. /\ dc.kind = call.kind /\ dc.line = line /\ line \in Line
        /\ call.kind \notin {"line", "polyline"} => dc.fill = call.fill /\ call.fill \in Color
        /\ call.kind = "path" => dc.winding = call.winding
    BY ShapeDrawCall
  <1>2. el.tag = call.kind /\ el.area = AskedArea(call) /\ el.atts = Unset
    BY ShapeGeometry, SetStyle DEF SvgVisit
  <1>3. p = CASE call.kind \in {"line", "polyline"} -> L
              [] call.kind = "path" -> L ++ FillOrOmit(call.fill) ++ FillRule(dc)
              [] OTHER -> L ++ FillOrOmit(call.fill)
    <2> DEFINE v == CASE dc.kind = "text" -> IF dc.col = Black THEN Unset ELSE FillOrNone(dc.col)
                      [] dc.kind = "raster" -> Unset
                      [] dc.kind \in {"line", "polyline"} -> CssLineInfo(dc.line)
                      [] dc.kind = "path" ->
                             CssLineInfo(dc.line) ++ FillOrOmit(dc.fill) ++ FillRule(dc)
                      [] OTHER -> CssLineInfo(dc.line) ++ FillOrOmit(dc.fill)
    <2>1. p = v
      <3>1. el = [Geometry(dc) EXCEPT !.style = v]
        BY DEF SvgVisit
      <3>2. DOMAIN Geometry(dc) = Fields
        BY ShapeGeometry
      <3> HIDE DEF v, dc, el
      <3> QED
        BY <3>1, <3>2, SetStyle
    <2>2. CASE call.kind \in {"line", "polyline"}
      BY <1>1, <2>1, <2>2
    <2>3. CASE call.kind = "path"
      BY <1>1, <2>1, <2>3
    <2>4. CASE call.kind \in {"polygon", "circle", "rect"}
      BY <1>1, <2>1, <2>4
    <2> QED
      BY <2>2, <2>3, <2>4 DEF Shapes
  <1>4. /\ d.strokeOpacity = 255 /\ d.fillOpacity = 255 /\ d.dash = <<>>
        /\ d.fill = "none" /\ d.stroke = "black" /\ d.cap = "round" /\ d.join = "round"
        /\ d.limit = 10 /\ d.fillRule = "nonzero"
    BY DEF StyleDefaults, Sheet, Initial, Props
  <1>5. \A x \in Props : Computed(doc, el)[x] = Get(p, x, d[x])
    BY <1>2, ComputedShape
  <1>6. Strokes(L, line, "black", "round", "round", 10) /\ OnlyStrokes(L)
    BY <1>1, CssLine DEF Strokes, OnlyStrokes, FillProps
  <1> HIDE DEF L, el, d, dc, line
  <1>7. /\ Strokes(p, line, "black", "round", "round", 10) /\ Fills(p, fcol, "none")
        /\ ~Transparent(fcol) => Get(p, "fillRule", "nonzero") = rule
        /\ fcol \in Color \cup {NoColor}
    <2>1. CASE call.kind \in {"line", "polyline"}
      <3>1. fcol = NoColor /\ Transparent(NoColor)
        BY <2>1 DEF AskedFill, Transparent, NoColor
      <3>2. p = L
        BY <1>3, <2>1
      <3>3. Get(L, "fill", "none") = "none"
        BY <1>6 DEF OnlyStrokes, FillProps
      <3> HIDE DEF p, fcol
      <3> QED
        BY <1>6, <3>1, <3>2, <3>3 DEF Fills
    <2>2. CASE call.kind \in {"polygon", "circle", "rect"}
      <3> DEFINE F == FillOrOmit(call.fill)
      <3>1. fcol = call.fill /\ rule = "nonzero" /\ call.fill \in Color
        BY <1>1, <2>2 DEF AskedFill, AskedRule
      <3>2. p = L ++ F
        BY <1>3, <2>2
      <3>3. Fills(F, fcol, "none") /\ OnlyFills(F) /\ \A r : Get(F, "fillRule", r) = r
        BY <3>1, FillsOmit
      <3> HIDE DEF p, fcol, rule, F
      <3>4. /\ Strokes(L ++ F, line, "black", "round", "round", 10)
            /\ Fills(L ++ F, fcol, "none") /\ \A r : Get(L ++ F, "fillRule", r) = r
        BY <1>6, <3>3, BothProperties
      <3> QED
        BY <3>1, <3>2, <3>4
    <2>3. CASE call.kind = "path"
      <3> DEFINE F == FillOrOmit(call.fill)
                 R == [fillRule |-> rule]
      <3>1. fcol = call.fill /\ call.fill \in Color
        BY <1>1, <2>3 DEF AskedFill
      <3>2. FillRule(dc) = R
        BY <1>1, <2>3, CallKinds DEF FillRule, AskedRule
      <3>3. p = L ++ F ++ R
        BY <1>3, <2>3, <3>2
      <3>4. Fills(F, fcol, "none") /\ OnlyFills(F) /\ \A r : Get(F, "fillRule", r) = r
        BY <3>1, FillsOmit
      <3> DEFINE M == L ++ F
      <3> HIDE DEF p, fcol, rule, F
      <3>5. /\ Strokes(M, line, "black", "round", "round", 10)
            /\ Fills(M, fcol, "none") /\ \A r : Get(M, "fillRule", r) = r
        BY <1>6, <3>4, BothProperties
      <3> HIDE DEF M
      <3>6. /\ Strokes(M ++ R, line, "black", "round", "round", 10)
            /\ Fills(M ++ R, fcol, "none") /\ \A r : Get(M ++ R, "fillRule", r) = rule
        BY <3>5, RuleProperty
      <3> QED
        BY <3>1, <3>3, <3>6 DEF M
    <2> QED
      BY <2>1, <2>2, <2>3 DEF Shapes
  <1>8. el.tag = "line" => fcol = NoColor
    BY <1>2 DEF AskedFill
  <1>9. AskedMarks(call, clip)
            = Paint(el.area, fcol, rule, line.col, AskedPen(line), {clip})
    BY <1>2, ShapeAsked DEF line
  <1> HIDE DEF p, fcol, rule
  <1>10. Visible(ElementMarks(doc, el, {clip}))
             = Visible(Paint(el.area, fcol, rule, line.col, AskedPen(line), {clip}))
    <2>1. el.tag \in Shapes
      BY <1>2
    <2>2. Strokes(p, line, d.stroke, d.cap, d.join, d.limit)
      BY <1>4, <1>7
    <2>3. IF el.tag = "line" THEN fcol = NoColor ELSE Fills(p, fcol, d.fill)
      BY <1>4, <1>7, <1>8
    <2>4. ~Transparent(fcol) => Get(p, "fillRule", d.fillRule) = rule
      BY <1>4, <1>7
    <2>5. ShownAs(doc, el, p, d, line, fcol, rule)
      BY <1>1, <1>4, <1>5, <1>7, <2>1, <2>2, <2>3, <2>4 DEF ShownAs
    <2> DEFINE clips == {clip}
    <2> HIDE DEF clips
    <2>6. Visible(ElementMarks(doc, el, clips))
              = Visible(Paint(el.area, fcol, rule, line.col, AskedPen(line), clips))
      BY <2>5, ShapeMarks
    <2> QED
      BY <2>6 DEF clips
  <1> QED
    BY <1>9, <1>10 DEF el, dc

LEMMA PortableShape ==
    ASSUME NEW call \in RCall, call.kind \in Shapes, NEW doc, doc.sheet = FALSE, NEW clip
    PROVE  Visible(ElementMarks(doc, PortableVisit(DrawCall(call)), {clip}))
               = Visible(AskedMarks(call, clip))
  <1> DEFINE dc == DrawCall(call)
             el == PortableVisit(dc)
             line == call.line
             L == AttLineInfo(line)
             none == [fill |-> "none"]
             p == el.atts
             d == Initial
             fcol == AskedFill(call)
             rule == AskedRule(call)
  <1>1. /\ dc.kind = call.kind /\ dc.line = line /\ line \in Line
        /\ call.kind \notin {"line", "polyline"} => dc.fill = call.fill /\ call.fill \in Color
        /\ call.kind = "path" => dc.winding = call.winding
    BY ShapeDrawCall
  <1>2. el.tag = call.kind /\ el.area = AskedArea(call) /\ el.style = Unset
    BY ShapeGeometry, SetStyle DEF PortableVisit
  <1>3. p = CASE call.kind = "line" -> L
              [] call.kind = "polyline" -> none ++ L
              [] call.kind = "path" -> L ++ FillOrNone(call.fill) ++ FillRule(dc)
              [] OTHER -> L ++ FillOrNone(call.fill)
    <2> DEFINE v == CASE dc.kind = "text" -> IF dc.col = Black THEN Unset ELSE FillOrNone(dc.col)
                      [] dc.kind = "raster" -> Unset
                      [] dc.kind = "line" -> AttLineInfo(dc.line)
                      [] dc.kind = "polyline" -> [fill |-> "none"] ++ AttLineInfo(dc.line)
                      [] dc.kind = "path" ->
                             AttLineInfo(dc.line) ++ FillOrNone(dc.fill) ++ FillRule(dc)
                      [] OTHER -> AttLineInfo(dc.line) ++ FillOrNone(dc.fill)
    <2>1. p = v
      <3>1. el = [Geometry(dc) EXCEPT !.atts = v]
        BY DEF PortableVisit
      <3>2. DOMAIN Geometry(dc) = Fields
        BY ShapeGeometry
      <3> HIDE DEF v, dc, el
      <3> QED
        BY <3>1, <3>2, SetStyle
    <2>2. CASE call.kind = "line"
      BY <1>1, <2>1, <2>2
    <2>3. CASE call.kind = "polyline"
      BY <1>1, <2>1, <2>3
    <2>4. CASE call.kind = "path"
      BY <1>1, <2>1, <2>4
    <2>5. CASE call.kind \in {"polygon", "circle", "rect"}
      BY <1>1, <2>1, <2>5
    <2> QED
      BY <2>2, <2>3, <2>4, <2>5 DEF Shapes
  <1>4. /\ d.strokeOpacity = 255 /\ d.fillOpacity = 255 /\ d.dash = <<>>
        /\ d.fill = "black" /\ d.stroke = "none" /\ d.cap = "butt" /\ d.join = "mitre"
        /\ d.limit = 4 /\ d.fillRule = "nonzero"
    BY DEF Initial
  <1>5. \A x \in Props : Computed(doc, el)[x] = Get(p, x, d[x])
    BY <1>2, ComputedAtts
  <1>6. Strokes(L, line, "none", "butt", "mitre", 4) /\ OnlyStrokes(L)
    BY <1>1, AttLine DEF Strokes, OnlyStrokes, FillProps
  <1> HIDE DEF L, el, d, dc, line
  <1>7. /\ Strokes(p, line, "none", "butt", "mitre", 4)
        /\ call.kind # "line" => Fills(p, fcol, "black")
        /\ ~Transparent(fcol) => Get(p, "fillRule", "nonzero") = rule
        /\ fcol \in Color \cup {NoColor}
    <2>0. Transparent(NoColor)
      BY DEF Transparent, NoColor
    <2>1. CASE call.kind = "line"
      <3>1. fcol = NoColor
        BY <2>1 DEF AskedFill
      <3>2. p = L
        BY <1>3, <2>1
      <3> QED
        BY <1>6, <2>0, <2>1, <3>1, <3>2
    <2>2. CASE call.kind = "polyline"
      <3>1. fcol = NoColor
        BY <2>2 DEF AskedFill
      <3>2. p = none ++ L
        BY <1>3, <2>2
      <3>3. \A x, y : Get(none ++ L, x, y) = Get(none, x, Get(L, x, y))
        BY GetOver
      <3>4. \A x \in Props : \A y : Get(none, x, y) = IF x = "fill" THEN "none" ELSE y
        BY DEF Get
      <3>5. /\ "stroke" \in Props /\ "strokeOpacity" \in Props
            /\ "dash" \in Props /\ "cap" \in Props
            /\ "join" \in Props /\ "limit" \in Props /\ "fill" \in Props
        BY DEF Props
      <3> HIDE DEF p, none
      <3>6. \A x \in Props : \A y : x # "fill" => Get(p, x, y) = Get(L, x, y)
        BY <3>2, <3>3, <3>4
      <3>7. Get(p, "fill", "black") = "none"
        BY <3>2, <3>3, <3>4, <3>5
      <3>8. Strokes(p, line, "none", "butt", "mitre", 4)
        BY <1>6, <3>5, <3>6 DEF Strokes
      <3>9. Fills(p, NoColor, "black")
        BY <2>0, <3>7 DEF Fills
      <3> QED
        BY <2>0, <3>1, <3>8, <3>9
    <2>3. CASE call.kind \in {"polygon", "circle", "rect"}
      <3> DEFINE F == FillOrNone(call.fill)
      <3>1. fcol = call.fill /\ rule = "nonzero" /\ call.fill \in Color
        BY <1>1, <2>3 DEF AskedFill, AskedRule
      <3>2. p = L ++ F
        BY <1>3, <2>3
      <3>3. Fills(F, fcol, "black") /\ OnlyFills(F) /\ \A r : Get(F, "fillRule", r) = r
        BY <3>1, FillsNone
      <3> HIDE DEF p, fcol, rule, F
      <3>4. /\ Strokes(L ++ F, line, "none", "butt", "mitre", 4)
            /\ Fills(L ++ F, fcol, "black") /\ \A r : Get(L ++ F, "fillRule", r) = r
        BY <1>6, <3>3, BothProperties
      <3> QED
        BY <3>1, <3>2, <3>4
    <2>4. CASE call.kind = "path"
      <3> DEFINE F == FillOrNone(call.fill)
                 R == [fillRule |-> rule]
      <3>1. fcol = call.fill /\ call.fill \in Color
        BY <1>1, <2>4 DEF AskedFill
      <3>2. FillRule(dc) = R
        BY <1>1, <2>4, CallKinds DEF FillRule, AskedRule
      <3>3. p = L ++ F ++ R
        BY <1>3, <2>4, <3>2
      <3>4. Fills(F, fcol, "black") /\ OnlyFills(F) /\ \A r : Get(F, "fillRule", r) = r
        BY <3>1, FillsNone
      <3> DEFINE M == L ++ F
      <3> HIDE DEF p, fcol, rule, F
      <3>5. /\ Strokes(M, line, "none", "butt", "mitre", 4)
            /\ Fills(M, fcol, "black") /\ \A r : Get(M, "fillRule", r) = r
        BY <1>6, <3>4, BothProperties
      <3> HIDE DEF M
      <3>6. /\ Strokes(M ++ R, line, "none", "butt", "mitre", 4)
            /\ Fills(M ++ R, fcol, "black") /\ \A r : Get(M ++ R, "fillRule", r) = rule
        BY <3>5, RuleProperty
      <3> QED
        BY <3>1, <3>3, <3>6 DEF M
    <2> QED
      BY <2>1, <2>2, <2>3, <2>4 DEF Shapes
  <1>8. el.tag = "line" => fcol = NoColor
    BY <1>2 DEF AskedFill
  <1>9. AskedMarks(call, clip)
            = Paint(el.area, fcol, rule, line.col, AskedPen(line), {clip})
    BY <1>2, ShapeAsked DEF line
  <1> HIDE DEF p, fcol, rule
  <1>10. Visible(ElementMarks(doc, el, {clip}))
             = Visible(Paint(el.area, fcol, rule, line.col, AskedPen(line), {clip}))
    <2>1. el.tag \in Shapes
      BY <1>2
    <2>2. Strokes(p, line, d.stroke, d.cap, d.join, d.limit)
      BY <1>4, <1>7
    <2>3. IF el.tag = "line" THEN fcol = NoColor ELSE Fills(p, fcol, d.fill)
      BY <1>2, <1>4, <1>7, <1>8
    <2>4. ~Transparent(fcol) => Get(p, "fillRule", d.fillRule) = rule
      BY <1>4, <1>7
    <2>5. ShownAs(doc, el, p, d, line, fcol, rule)
      BY <1>1, <1>4, <1>5, <1>7, <2>1, <2>2, <2>3, <2>4 DEF ShownAs
    <2> DEFINE clips == {clip}
    <2> HIDE DEF clips
    <2>6. Visible(ElementMarks(doc, el, clips))
              = Visible(Paint(el.area, fcol, rule, line.col, AskedPen(line), clips))
      BY <2>5, ShapeMarks
    <2> QED
      BY <2>6 DEF clips
  <1> QED
    BY <1>9, <1>10 DEF el, dc

----------------------------------------------------------------------------
(* Text in SVG.                                                            *)

(* Escaped text is read as it was.                                         *)
LEMMA XmlReads == ASSUME NEW str \in Text PROVE XmlText(XmlEscaped(str)) = str
  <1> DEFINE N == Len(str)
             e == XmlEscaped(str)
  <1>1. N \in Nat /\ DOMAIN str = 1..N /\ str = [n \in 1..N |-> str[n]]
    BY DEF Text
  <1>2. /\ DOMAIN e = 1..N
        /\ \A n \in 1..N :
              e[n] = <<IF str[n] \in {"&", "<", ">", "quot", "apos"} THEN "entity" ELSE "char",
                       str[n]>>
    BY <1>1 DEF XmlEscaped
  <1> HIDE DEF e
  <1>3. \A n \in 1..N : e[n][2] = str[n]
    BY <1>2
  <1>4. \A n \in 1..N : e[n] \notin {<<"char", "&">>, <<"char", "<">>}
    BY <1>2
  <1>5. XmlText(e) = [n \in 1..N |-> e[n][2]]
    BY <1>2, <1>4 DEF XmlText
  <1>6. [n \in 1..N |-> e[n][2]] = [n \in 1..N |-> str[n]]
    BY <1>3, Zenon
  <1> QED
    BY <1>1, <1>5, <1>6 DEF e

TextRecord(call) == [str |-> call.str, at |-> call.at, hadj |-> call.hadj, rot |-> call.rot]

LEMMA TextGeometry ==
    ASSUME NEW call \in RCall, call.kind = "text"
    PROVE  LET g == Geometry(call) IN
             /\ g.tag = "text" /\ g.style = Unset /\ g.atts = Unset /\ DOMAIN g = Fields
             /\ g.text = [str |-> XmlEscaped(call.str), at |-> call.at,
                          anchor |-> Anchor(call.hadj), turn |-> -call.rot]
  <1> DEFINE t == [str |-> XmlEscaped(call.str), at |-> call.at,
                   anchor |-> Anchor(call.hadj), turn |-> -call.rot]
             el == [[Element EXCEPT !.tag = "text"] EXCEPT !.text = t]
  <1>1. Geometry(call) = el
    BY DEF Geometry
  <1> HIDE DEF t
  <1>2. /\ el.tag = "text" /\ el.style = Unset /\ el.atts = Unset /\ DOMAIN el = Fields
        /\ el.text = t
    BY DEF Element, Unset, Fields
  <1> QED
    BY <1>1, <1>2 DEF t

(* A text with properties p, over SVG's initial values.                    *)
LEMMA TextMarks ==
    ASSUME NEW call \in RCall, call.kind = "text", NEW el, NEW doc, NEW clips, NEW p,
           el.tag = "text", el.text = Geometry(call).text,
           p = IF call.col = Black THEN Unset ELSE FillOrNone(call.col),
           \A x \in Props : Computed(doc, el)[x] = Get(p, x, Initial[x])
    PROVE  Visible(ElementMarks(doc, el, clips))
               = Visible(<<TextMark(TextRecord(call), call.col, clips)>>)
  <1> DEFINE c == Computed(doc, el)
             f == ColorOf(c.fill, c.fillOpacity)
             hadj == [start |-> 0, middle |-> 50, end |-> 100]
             t == [str |-> XmlText(el.text.str), at |-> el.text.at,
                   hadj |-> hadj[el.text.anchor], rot |-> -el.text.turn]
             col == call.col
  <1>0. /\ call.col \in Color /\ call.str \in Text /\ call.hadj \in {0, 50, 100}
        /\ call.rot \in Int
    BY CallKinds
  <1>1. ElementMarks(doc, el, clips) = <<TextMark(t, f, clips)>>
    BY DEF ElementMarks
  <1>2. t = TextRecord(call)
    <2>1. /\ el.text.str = XmlEscaped(call.str) /\ el.text.at = call.at
          /\ el.text.anchor = Anchor(call.hadj) /\ el.text.turn = -call.rot
      <3> DEFINE r == el.text
      <3>1. r = [str |-> XmlEscaped(call.str), at |-> call.at,
                 anchor |-> Anchor(call.hadj), turn |-> -call.rot]
        BY TextGeometry
      <3> HIDE DEF r
      <3>2. /\ r.str = XmlEscaped(call.str) /\ r.at = call.at
            /\ r.anchor = Anchor(call.hadj) /\ r.turn = -call.rot
        BY <3>1
      <3> QED
        BY <3>2 DEF r
    <2>2. XmlText(el.text.str) = call.str
      BY <1>0, <2>1, XmlReads
    <2>3. hadj[el.text.anchor] = call.hadj
      BY <1>0, <2>1 DEF Anchor
    <2>4. -el.text.turn = call.rot
      BY <1>0, <2>1
    <2> QED
      BY <2>1, <2>2, <2>3, <2>4 DEF TextRecord
  <1>3. \/ f = col
        \/ Transparent(f) /\ Transparent(col)
    <2>1. c.fill = Get(p, "fill", "black") /\ c.fillOpacity = Get(p, "fillOpacity", 255)
      BY DEF Initial, Props
    <2> HIDE DEF c
    <2>2. CASE call.col = Black
      <3>1. Get(p, "fill", "black") = "black" /\ Get(p, "fillOpacity", 255) = 255
        BY <2>2 DEF Get, Unset
      <3> QED
        BY <2>1, <2>2, <3>1 DEF ColorOf, Black
    <2>3. CASE call.col # Black
      <3>1. Fills(p, col, "black")
        BY <1>0, <2>3, FillsNone
      <3>2. col.rgb # "none" /\ col = [rgb |-> col.rgb, alpha |-> col.alpha]
        BY <1>0 DEF Color
      <3>3. CASE Transparent(col)
        BY <2>1, <3>1, <3>3 DEF Fills, ColorOf, Transparent, NoColor
      <3>4. CASE ~Transparent(col)
        BY <2>1, <3>1, <3>2, <3>4 DEF Fills, ColorOf
      <3> QED
        BY <3>3, <3>4
    <2> QED
      BY <2>2, <2>3
  <1> DEFINE m1 == TextMark(t, f, clips)
             m2 == TextMark(TextRecord(call), col, clips)
  <1>4. m1.do = "text" /\ m1.col = f /\ m2.do = "text" /\ m2.col = col
    BY MarkFields
  <1>5. f = col => m1 = m2
    BY <1>2
  <1> HIDE DEF m1, m2, f, col
  <1>6. Seen(m1) = Seen(m2)
    BY <1>3, <1>4, <1>5 DEF Seen
  <1>7. Visible(<<m1>>) = Seen(m1) /\ Visible(<<m2>>) = Seen(m2)
    BY VisibleOne
  <1> QED
    BY <1>1, <1>6, <1>7 DEF m1, m2, col, f

----------------------------------------------------------------------------
(* Images.                                                                 *)

(* A sequence holds n rows of the same length in a row.                    *)
InARow(q, f, n, c, S) ==
    /\ q \in Seq(S) /\ Len(q) = n * c
    /\ \A k \in 1..n : \A j \in 1..c :
          (k - 1) * c + j \in 1..(n * c) /\ q[(k - 1) * c + j] = f[k][j]

LEMMA RowsInARow ==
    ASSUME NEW S, NEW f, NEW n \in Nat, NEW c \in Nat,
           \A k \in 1..n : f[k] \in Seq(S) /\ Len(f[k]) = c
    PROVE  InARow(FlattenSeq([k \in 1..n |-> f[k]]), f, n, c, S)
  <1> DEFINE F(m) == FlattenSeq([k \in 1..m |-> f[k]])
             P(m) == /\ F(m) \in Seq(S) /\ Len(F(m)) = m * c
                     /\ \A k \in 1..m : \A j \in 1..c :
                           /\ (k - 1) * c + j \in 1..(m * c)
                           /\ F(m)[(k - 1) * c + j] = f[k][j]
             T == {m \in Nat : m <= n => P(m)}
  <1>1. 0 \in T
    <2>1. [k \in 1..0 |-> f[k]] = <<>> /\ <<>> \in Seq(S) /\ Len(<<>>) = 0
      OBVIOUS
    <2>2. F(0) = <<>>
      BY <2>1, FlattenSeqEmpty, Zenon
    <2> HIDE DEF F
    <2>3. 0 * c = 0 /\ 1..0 = {}
      OBVIOUS
    <2>4. P(0)
      BY <2>1, <2>2, <2>3, Zenon
    <2> HIDE DEF P
    <2> QED
      BY <2>4
  <1>2. ASSUME NEW m \in Nat, m \in T PROVE m + 1 \in T
    <2> SUFFICES ASSUME m + 1 <= n PROVE P(m + 1)
      OBVIOUS
    <2>1. P(m)
      BY <1>2
    <2>2. \A k \in 1..(m + 1) : f[k] \in Seq(S) /\ Len(f[k]) = c
      <3>1. \A k \in 1..(m + 1) : k \in 1..n
        OBVIOUS
      <3> QED
        BY <3>1, Zenon
    <2>3. F(m + 1) = F(m) \o f[m + 1]
      BY <2>2, FlattenSeqPrefix
    <2>4. f[m + 1] \in Seq(S) /\ Len(f[m + 1]) = c
      BY <2>2
    <2> DEFINE a == F(m)
               b == f[m + 1]
               L == m * c
    <2>5. a \in Seq(S) /\ Len(a) = L
      BY <2>1
    <2>6. L \in Nat /\ (m + 1) * c = L + c
      OBVIOUS
    <2>11. \A k \in 1..m : \A j \in 1..c :
              (k - 1) * c + j \in 1..L /\ a[(k - 1) * c + j] = f[k][j]
      BY <2>1
    <2>12. ((m + 1) - 1) * c = L
      OBVIOUS
    <2> HIDE DEF F, a, b, L
    <2>7. /\ a \o b \in Seq(S) /\ Len(a \o b) = L + c
          /\ \A i \in 1..L : (a \o b)[i] = a[i]
          /\ \A j \in 1..c : (a \o b)[L + j] = b[j]
      <3>1. b \in Seq(S) /\ Len(b) = c
        BY <2>4 DEF b
      <3>2. /\ a \o b \in Seq(S) /\ Len(a \o b) = L + c
            /\ \A i \in 1..(L + c) : (a \o b)[i] = IF i <= L THEN a[i] ELSE b[i - L]
        BY <2>5, <3>1, ConcatProperties
      <3>3. ASSUME NEW j \in 1..c PROVE (a \o b)[L + j] = b[j]
        <4>1. L + j \in 1..(L + c) /\ ~(L + j <= L) /\ (L + j) - L = j
          BY <2>6
        <4> QED
          BY <3>2, <4>1
      <3> QED
        BY <2>6, <3>2, <3>3
    <2>8. ASSUME NEW k \in 1..m, NEW j \in 1..c
          PROVE  /\ (k - 1) * c + j \in 1..(L + c)
                 /\ (a \o b)[(k - 1) * c + j] = f[k][j]
      <3> DEFINE i == (k - 1) * c + j
      <3>1. i \in 1..L /\ a[i] = f[k][j]
        BY <2>11
      <3> HIDE DEF i
      <3>2. i \in 1..(L + c) /\ (a \o b)[i] = f[k][j]
        BY <2>6, <2>7, <3>1
      <3> QED
        BY <3>2 DEF i
    <2>9. ASSUME NEW j \in 1..c
          PROVE  /\ ((m + 1) - 1) * c + j \in 1..(L + c)
                 /\ (a \o b)[((m + 1) - 1) * c + j] = f[m + 1][j]
      <3>1. L + j \in 1..(L + c)
        BY <2>6
      <3>2. (a \o b)[L + j] = b[j]
        BY <2>7
      <3> QED
        BY <2>12, <3>1, <3>2 DEF b
    <2>10. \A k \in 1..(m + 1) : \A j \in 1..c :
              /\ (k - 1) * c + j \in 1..(L + c)
              /\ (a \o b)[(k - 1) * c + j] = f[k][j]
      <3> TAKE k \in 1..(m + 1)
      <3>1. CASE k = m + 1
        BY <2>9, <3>1
      <3>2. CASE k # m + 1
        <4>1. k \in 1..m
          BY <3>2
        <4> QED
          BY <2>8, <4>1
      <3> QED
        BY <3>1, <3>2
    <2>13. F(m + 1) = a \o b
      BY <2>3 DEF a, b
    <2> QED
      BY <2>6, <2>7, <2>10, <2>13
  <1> HIDE DEF T
  <1>3. Nat \subseteq T
    BY <1>1, <1>2, SetInduction
  <1> HIDE DEF P
  <1>4. P(n)
    BY <1>3 DEF T
  <1> QED
    BY <1>4 DEF P, InARow

(* Row and place of the ith element.                                       *)
LEMMA ByThree ==
    ASSUME NEW n \in Nat, NEW i \in 1..(n * 3)
    PROVE  \E k \in 1..n : \E j \in {1, 2, 3} : i = (k - 1) * 3 + j
  <1>1. ((i - 1) \div 3) + 1 \in 1..n /\ ((i - 1) % 3) + 1 \in {1, 2, 3}
    OBVIOUS
  <1>2. i = ((((i - 1) \div 3) + 1) - 1) * 3 + (((i - 1) % 3) + 1)
    OBVIOUS
  <1> QED
    BY <1>1, <1>2, Zenon

LEMMA ByFour ==
    ASSUME NEW n \in Nat, NEW i \in 1..(n * 4)
    PROVE  \E k \in 1..n : \E j \in {1, 2, 3, 4} : i = (k - 1) * 4 + j
  <1>1. ((i - 1) \div 4) + 1 \in 1..n /\ ((i - 1) % 4) + 1 \in {1, 2, 3, 4}
    OBVIOUS
  <1>2. i = ((((i - 1) \div 4) + 1) - 1) * 4 + (((i - 1) % 4) + 1)
    OBVIOUS
  <1> QED
    BY <1>1, <1>2, Zenon

(* Four sextets hold three bytes; those that hold bits of bytes that are 0 *)
(* only are 0.                                                             *)
Hold(s, a, b, c) ==
    /\ s[1] * 4 + s[2] \div 16 = a
    /\ (s[2] % 16) * 16 + s[3] \div 4 = b
    /\ (s[3] % 4) * 64 + s[4] = c

SextetsOf(s, a, b, c) ==
    /\ s \in Seq(0..63) /\ Len(s) = 4 /\ Hold(s, a, b, c)
    /\ b = 0 /\ c = 0 => s[3] = 0
    /\ c = 0 => s[4] = 0

LEMMA SextetsHold ==
    ASSUME NEW a \in 0..255, NEW b \in 0..255, NEW c \in 0..255
    PROVE  SextetsOf(Sextets(a, b, c), a, b, c)
  <1> DEFINE a1 == a \div 4
             a2 == a % 4
             b1 == b \div 16
             b2 == b % 16
             c1 == c \div 64
             c2 == c % 64
             t == a * 65536 + b * 256 + c
  <1>1. a1 \in 0..63 /\ a2 \in 0..3 /\ a = 4 * a1 + a2
    OBVIOUS
  <1>2. b1 \in 0..15 /\ b2 \in 0..15 /\ b = 16 * b1 + b2
    OBVIOUS
  <1>3. c1 \in 0..3 /\ c2 \in 0..63 /\ c = 64 * c1 + c2
    OBVIOUS
  <1> HIDE DEF a1, a2, b1, b2, c1, c2
  <1> DEFINE s1 == a1
             s2 == a2 * 16 + b1
             s3 == b2 * 4 + c1
             s4 == c2
  <1>4. /\ s1 \in 0..63 /\ s2 \in 0..63 /\ s3 \in 0..63 /\ s4 \in 0..63
        /\ t = s1 * 262144 + s2 * 4096 + s3 * 64 + s4
    BY <1>1, <1>2, <1>3
  <1>5. s2 \div 16 = a2 /\ s2 % 16 = b1 /\ s3 \div 4 = b2 /\ s3 % 4 = c1
    BY <1>1, <1>2, <1>3
  <1>9. b = 0 /\ c = 0 => s3 = 0
    BY <1>2, <1>3
  <1> HIDE DEF s1, s2, s3, t
  <1>6. t \div 262144 = s1 /\ (t \div 4096) % 64 = s2
    <2>1. t \div 262144 = s1
      BY <1>4
    <2>2. t \div 4096 = s1 * 64 + s2
      BY <1>4
    <2> QED
      BY <1>4, <2>1, <2>2
  <1>7. (t \div 64) % 64 = s3 /\ t % 64 = s4
    <2>1. t \div 64 = (s1 * 64 + s2) * 64 + s3
      BY <1>4
    <2> QED
      BY <1>4, <2>1
  <1>8. Sextets(a, b, c) = <<s1, s2, s3, s4>>
    BY <1>6, <1>7 DEF Sextets, t
  <1> DEFINE s == Sextets(a, b, c)
  <1> HIDE DEF s4
  <1>10. s[1] = s1 /\ s[2] = s2 /\ s[3] = s3 /\ s[4] = s4 /\ Len(s) = 4
    BY <1>8
  <1>11. s \in Seq(0..63)
    BY <1>4, <1>8
  <1> HIDE DEF s
  <1>12. s[1] * 4 + s[2] \div 16 = a
    BY <1>1, <1>5, <1>10 DEF s1
  <1>13. (s[2] % 16) * 16 + s[3] \div 4 = b
    BY <1>2, <1>5, <1>10
  <1>14. (s[3] % 4) * 64 + s[4] = c
    BY <1>3, <1>5, <1>10 DEF s4
  <1>15. c = 0 => s[4] = 0
    BY <1>3, <1>10 DEF s4
  <1>16. Hold(s, a, b, c)
    BY <1>12, <1>13, <1>14, Zenon DEF Hold
  <1>17. SextetsOf(s, a, b, c)
    BY <1>9, <1>10, <1>11, <1>15, <1>16, Zenon DEF SextetsOf
  <1> QED
    BY <1>17 DEF s

(* The sextets of the kth three bytes, 0 after the last byte, and what is  *)
(* written of them.                                                        *)
ByteAt(buf, i) == IF i \in 1..Len(buf) THEN buf[i] ELSE 0
Quad(buf, k) == Sextets(ByteAt(buf, 3 * k - 2), ByteAt(buf, 3 * k - 1), ByteAt(buf, 3 * k))
Quads(buf) == LET full == Len(buf) \div 3 IN IF Len(buf) = 3 * full THEN full ELSE full + 1
Quartet(buf, k) ==
    LET q == Quad(buf, k) IN
    IF 3 * k <= Len(buf) THEN q
    ELSE IF 3 * k - 1 <= Len(buf) THEN <<q[1], q[2], q[3], Pad>> ELSE <<q[1], q[2], Pad, Pad>>

LEMMA ByteIsByte == ASSUME NEW buf \in Seq(0..255), NEW i PROVE ByteAt(buf, i) \in 0..255
  <1>1. CASE i \in 1..Len(buf)
    <2>1. buf[i] \in 0..255
      BY <1>1, ElementOfSeq
    <2> QED
      BY <1>1, <2>1 DEF ByteAt
  <1>2. CASE i \notin 1..Len(buf)
    <2>1. 0 \in 0..255
      OBVIOUS
    <2> QED
      BY <1>2, <2>1 DEF ByteAt
  <1> QED
    BY <1>1, <1>2

(* A sextet is read again: where there is a pad in its place it is 0.      *)
LEMMA QuartetReads ==
    ASSUME NEW buf \in Seq(0..255), NEW k \in 1..Quads(buf)
    PROVE  LET q == Quad(buf, k)
               c == Quartet(buf, k)
           IN  /\ c \in Seq(0..64) /\ Len(c) = 4
               /\ \A j \in 1..4 : (IF c[j] = Pad THEN 0 ELSE c[j]) = q[j]
               /\ c[1] # Pad /\ c[2] # Pad
               /\ c[3] = Pad <=> 3 * k - 1 > Len(buf)
               /\ c[4] = Pad <=> 3 * k > Len(buf)
  <1> DEFINE N == Len(buf)
             q == Quad(buf, k)
             c == Quartet(buf, k)
             x == ByteAt(buf, 3 * k - 2)
             y == ByteAt(buf, 3 * k - 1)
             z == ByteAt(buf, 3 * k)
  <1>1. x \in 0..255 /\ y \in 0..255 /\ z \in 0..255
    BY ByteIsByte
  <1>2. k \in Nat \ {0} /\ N \in Nat
    BY DEF Quads
  <1>3. (3 * k > N => z = 0) /\ (3 * k - 1 > N => y = 0)
    BY <1>2 DEF ByteAt
  <1>8. q = Sextets(x, y, z)
    BY DEF Quad
  <1> HIDE DEF x, y, z
  <1>4. /\ Sextets(x, y, z) \in Seq(0..63) /\ Len(Sextets(x, y, z)) = 4
        /\ (y = 0 /\ z = 0 => Sextets(x, y, z)[3] = 0) /\ (z = 0 => Sextets(x, y, z)[4] = 0)
    <2>1. SextetsOf(Sextets(x, y, z), x, y, z)
      BY <1>1, SextetsHold, Zenon
    <2> DEFINE s == Sextets(x, y, z)
    <2>2. SextetsOf(s, x, y, z)
      BY <2>1
    <2> HIDE DEF s
    <2>3. /\ s \in Seq(0..63) /\ Len(s) = 4
          /\ (y = 0 /\ z = 0 => s[3] = 0) /\ (z = 0 => s[4] = 0)
      BY <2>2, Zenon DEF SextetsOf
    <2> QED
      BY <2>3 DEF s
  <1> HIDE DEF q
  <1>5. /\ q \in Seq(0..63) /\ Len(q) = 4
        /\ q[1] \in 0..63 /\ q[2] \in 0..63 /\ q[3] \in 0..63 /\ q[4] \in 0..63
        /\ 3 * k - 1 > N => q[3] = 0
        /\ 3 * k > N => q[4] = 0
    <2>1. 3 * k - 1 > N => 3 * k > N
      BY <1>2
    <2>2. q \in Seq(0..63) /\ Len(q) = 4
      BY <1>4, <1>8
    <2>3. q[1] \in 0..63 /\ q[2] \in 0..63 /\ q[3] \in 0..63 /\ q[4] \in 0..63
      <3>1. \A j \in 1..Len(q) : q[j] \in 0..63
        BY <2>2, ElementOfSeq
      <3>2. 1 \in 1..Len(q) /\ 2 \in 1..Len(q) /\ 3 \in 1..Len(q) /\ 4 \in 1..Len(q)
        BY <2>2
      <3> QED
        BY <3>1, <3>2
    <2> QED
      BY <1>3, <1>4, <1>8, <2>1, <2>2, <2>3
  <1>6. c = IF 3 * k <= N THEN q
            ELSE IF 3 * k - 1 <= N THEN <<q[1], q[2], q[3], Pad>>
            ELSE <<q[1], q[2], Pad, Pad>>
    BY DEF Quartet, q
  <1> HIDE DEF c, N
  <1>7. Pad = 64 /\ Pad \in 0..64 /\ \A i \in 0..63 : i # Pad /\ i \in 0..64
    BY DEF Pad
  <1> HIDE DEF Pad
  <1>9. CASE 3 * k <= N
    <2>1. c = q /\ c \in Seq(0..64) /\ ~(3 * k > N) /\ ~(3 * k - 1 > N)
      BY <1>2, <1>5, <1>6, <1>7, <1>9
    <2>2. \A j \in 1..4 : q[j] # Pad
      <3>1. \A j \in 1..4 : q[j] \in 0..63
        <4>1. \A j \in 1..Len(q) : q[j] \in 0..63
          BY <1>5, ElementOfSeq
        <4> QED
          BY <1>5, <4>1
      <3> QED
        BY <1>7, <3>1
    <2> QED
      BY <1>5, <2>1, <2>2 DEF N, q, c
  <1>10. CASE 3 * k - 1 <= N /\ ~(3 * k <= N)
    <2>1. c = <<q[1], q[2], q[3], Pad>>
      BY <1>6, <1>10
    <2>2. c[1] = q[1] /\ c[2] = q[2] /\ c[3] = q[3] /\ c[4] = Pad /\ Len(c) = 4
      BY <2>1
    <2>3. c \in Seq(0..64)
      BY <1>5, <1>7, <2>1
    <2>5. 3 * k > N /\ ~(3 * k - 1 > N)
      BY <1>2, <1>10
    <2>4. c[1] # Pad /\ c[2] # Pad /\ c[3] # Pad /\ q[4] = 0
      <3>1. q[1] # Pad /\ q[2] # Pad /\ q[3] # Pad
        BY <1>5, <1>7
      <3> QED
        BY <1>5, <2>2, <2>5, <3>1
    <2>6. \A j \in 1..4 : (IF c[j] = Pad THEN 0 ELSE c[j]) = q[j]
      BY <2>2, <2>4
    <2> QED
      BY <2>2, <2>3, <2>4, <2>5, <2>6 DEF N, q, c
  <1>11. CASE ~(3 * k - 1 <= N)
    <2>0. ~(3 * k <= N)
      BY <1>2, <1>11
    <2>1. c = <<q[1], q[2], Pad, Pad>>
      BY <1>6, <1>11, <2>0
    <2>2. c[1] = q[1] /\ c[2] = q[2] /\ c[3] = Pad /\ c[4] = Pad /\ Len(c) = 4
      BY <2>1
    <2>3. c \in Seq(0..64)
      <3> DEFINE q1 == q[1]
                 q2 == q[2]
      <3>1. q1 \in 0..64 /\ q2 \in 0..64 /\ Pad \in 0..64
        BY <1>5, <1>7
      <3>2. c = <<q1, q2, Pad, Pad>>
        BY <2>1
      <3> HIDE DEF q1, q2
      <3> QED
        BY <3>1, <3>2
    <2>5. 3 * k > N /\ 3 * k - 1 > N
      BY <1>2, <1>11
    <2>4. c[1] # Pad /\ c[2] # Pad /\ q[3] = 0 /\ q[4] = 0
      BY <1>5, <1>7, <2>2, <2>5
    <2>6. \A j \in 1..4 : (IF c[j] = Pad THEN 0 ELSE c[j]) = q[j]
      BY <2>2, <2>4
    <2> QED
      BY <2>2, <2>3, <2>4, <2>5, <2>6 DEF N, q, c
  <1>12. 3 * k <= N \/ (3 * k - 1 <= N /\ ~(3 * k <= N)) \/ ~(3 * k - 1 <= N)
    BY <1>2
  <1> QED
    BY <1>9, <1>10, <1>11, <1>12

LEMMA SubSeqElements ==
    ASSUME NEW S, NEW q \in Seq(S), NEW a \in Int, NEW b \in Int,
           1 <= a, a <= b + 1, b <= Len(q)
    PROVE  /\ Len(SubSeq(q, a, b)) = b - a + 1
           /\ \A i \in 1..(b - a + 1) : SubSeq(q, a, b)[i] = q[a + i - 1]
  BY SubSeqProperties

(* How the bytes are grouped by three.                                     *)
LEMMA GroupsOfThree ==
    ASSUME NEW N \in Nat
    PROVE  LET full == N \div 3
               r == N - 3 * full
           IN  full \in Nat /\ r \in {0, 1, 2} /\ N = 3 * full + r
  OBVIOUS

LEMMA FirstSextets ==
    ASSUME NEW q \in Seq(0..63), Len(q) = 4
    PROVE  /\ SubSeq(q, 1, 2) \o <<Pad, Pad>> = <<q[1], q[2], Pad, Pad>>
           /\ SubSeq(q, 1, 3) \o <<Pad>> = <<q[1], q[2], q[3], Pad>>
  <1> DEFINE a == SubSeq(q, 1, 2)
             b == SubSeq(q, 1, 3)
             aa == <<Pad, Pad>>
             bb == <<Pad>>
             c == <<q[1], q[2], Pad, Pad>>
             d == <<q[1], q[2], q[3], Pad>>
             S == {q[1], q[2], q[3], Pad}
  <1>1. Len(a) = 2 /\ a[1] = q[1] /\ a[2] = q[2]
    <2>1. Len(a) = 2 - 1 + 1 /\ \A i \in 1..(2 - 1 + 1) : a[i] = q[1 + i - 1]
      BY SubSeqElements
    <2> QED
      BY <2>1
  <1>2. Len(b) = 3 /\ b[1] = q[1] /\ b[2] = q[2] /\ b[3] = q[3]
    <2>1. Len(b) = 3 - 1 + 1 /\ \A i \in 1..(3 - 1 + 1) : b[i] = q[1 + i - 1]
      BY SubSeqElements
    <2> QED
      BY <2>1
  <1>3. q[1] \in S /\ q[2] \in S /\ q[3] \in S /\ Pad \in S
    OBVIOUS
  <1>4. a \in Seq(0..63) /\ b \in Seq(0..63)
    <2>1. 1 \in 1..(4 + 1) /\ 2 \in Nat /\ 2 <= Len(q) /\ 3 \in Nat /\ 3 <= Len(q)
      OBVIOUS
    <2>0. \A i \in 1..Len(q) : q[i] \in 0..63
      BY ElementOfSeq
    <2>4. (\A i \in 1..2 : i \in 1..Len(q)) /\ (\A i \in 1..3 : i \in 1..Len(q))
      OBVIOUS
    <2> HIDE DEF a, b
    <2>2. \A i \in 1..2 : q[i] \in 0..63
      BY <2>0, <2>4, Zenon
    <2>3. \A i \in 1..3 : q[i] \in 0..63
      BY <2>0, <2>4, Zenon
    <2> QED
      BY <2>1, <2>2, <2>3 DEF SubSeq, a, b
  <1>5. a \in Seq(S) /\ b \in Seq(S)
    <2> HIDE DEF a, b, S
    <2>1. \A i \in 1..Len(a) : a[i] \in S
      BY <1>1, <1>3
    <2>2. \A i \in 1..Len(b) : b[i] \in S
      BY <1>2, <1>3
    <2> QED
      BY <1>4, <2>1, <2>2
  <1>6. /\ aa \in Seq(S) /\ Len(aa) = 2 /\ aa[1] = Pad /\ aa[2] = Pad
        /\ bb \in Seq(S) /\ Len(bb) = 1 /\ bb[1] = Pad
    <2> HIDE DEF S
    <2> QED
      BY <1>3
  <1>7. /\ c \in Seq(S) /\ Len(c) = 4 /\ c[1] = q[1] /\ c[2] = q[2] /\ c[3] = Pad /\ c[4] = Pad
    <2> HIDE DEF S
    <2> QED
      BY <1>3
  <1>8. /\ d \in Seq(S) /\ Len(d) = 4 /\ d[1] = q[1] /\ d[2] = q[2] /\ d[3] = q[3] /\ d[4] = Pad
    <2> HIDE DEF S
    <2> QED
      BY <1>3
  <1> HIDE DEF a, b, aa, bb, c, d, S
  <1>9. a \o aa = c
    <2>1. /\ a \o aa \in Seq(S) /\ Len(a \o aa) = Len(a) + Len(aa)
          /\ \A i \in 1..(Len(a) + Len(aa)) :
                (a \o aa)[i] = IF i <= Len(a) THEN a[i] ELSE aa[i - Len(a)]
      BY <1>5, <1>6, ConcatProperties
    <2>2. \A i \in 1..4 : (a \o aa)[i] = c[i]
      BY <1>1, <1>6, <1>7, <2>1
    <2>3. Len(a \o aa) = 4 /\ Len(c) = 4
      BY <1>1, <1>6, <1>7, <2>1
    <2> DEFINE e == a \o aa
    <2> HIDE DEF e
    <2> QED
      BY <1>7, <2>1, <2>2, <2>3, SameSequence DEF e
  <1>10. b \o bb = d
    <2>1. /\ b \o bb \in Seq(S) /\ Len(b \o bb) = Len(b) + Len(bb)
          /\ \A i \in 1..(Len(b) + Len(bb)) :
                (b \o bb)[i] = IF i <= Len(b) THEN b[i] ELSE bb[i - Len(b)]
      BY <1>5, <1>6, ConcatProperties
    <2>2. \A i \in 1..4 : (b \o bb)[i] = d[i]
      BY <1>2, <1>6, <1>8, <2>1
    <2>3. Len(b \o bb) = 4 /\ Len(d) = 4
      BY <1>2, <1>6, <1>8, <2>1
    <2> DEFINE e == b \o bb
    <2> HIDE DEF e
    <2> QED
      BY <1>8, <2>1, <2>2, <2>3, SameSequence DEF e
  <1> QED
    BY <1>9, <1>10 DEF a, b, aa, bb, c, d

(* What is written of the bytes that are left.                             *)
EncodedRest(rest) ==
    CASE Len(rest) = 0 -> <<>>
      [] Len(rest) = 1 -> SubSeq(Sextets(rest[1], 0, 0), 1, 2) \o <<Pad, Pad>>
      [] Len(rest) = 2 -> SubSeq(Sextets(rest[1], rest[2], 0), 1, 3) \o <<Pad>>

LEMMA EncodedTail ==
    ASSUME NEW buf \in Seq(0..255), NEW full \in Nat, NEW r \in {1, 2}, Len(buf) = 3 * full + r
    PROVE  EncodedRest(SubSeq(buf, 3 * full + 1, Len(buf))) = Quartet(buf, full + 1)
  <1> DEFINE N == Len(buf)
             k == full + 1
             a == 3 * full + 1
             rest == SubSeq(buf, a, N)
             q == Quad(buf, k)
  <1>1. /\ a \in Int /\ N \in Int /\ 1 <= a /\ a <= N + 1 /\ N <= Len(buf) /\ N - a + 1 = r
        /\ a \in 1..N /\ a + 1 - 1 = a /\ a + 2 - 1 = 3 * full + 2
    OBVIOUS
  <1>2. Len(rest) = r /\ rest[1] = buf[a] /\ (r = 2 => rest[2] = buf[3 * full + 2])
    <2> HIDE DEF N, a
    <2>1. /\ Len(rest) = N - a + 1
          /\ \A i \in 1..(N - a + 1) : rest[i] = buf[a + i - 1]
      BY <1>1, SubSeqElements
    <2> QED
      BY <1>1, <2>1
  <1>3. 3 * k - 2 = 3 * full + 1 /\ 3 * k - 1 = 3 * full + 2 /\ 3 * k = 3 * full + 3
    OBVIOUS
  <1>4. q = Sextets(ByteAt(buf, 3 * full + 1), ByteAt(buf, 3 * full + 2), ByteAt(buf, 3 * full + 3))
    <2> HIDE DEF k
    <2> QED
      BY <1>3, Zenon DEF Quad, q
  <1>5. q \in Seq(0..63) /\ Len(q) = 4
    <2> DEFINE x == ByteAt(buf, 3 * full + 1)
               y == ByteAt(buf, 3 * full + 2)
               z == ByteAt(buf, 3 * full + 3)
    <2>1. x \in 0..255 /\ y \in 0..255 /\ z \in 0..255
      BY ByteIsByte
    <2>2. q = Sextets(x, y, z)
      BY <1>4
    <2> HIDE DEF q, x, y, z
    <2>3. SextetsOf(q, x, y, z)
      BY <2>1, <2>2, SextetsHold, Zenon
    <2> QED
      BY <2>3, Zenon DEF SextetsOf
  <1>6. /\ SubSeq(q, 1, 2) \o <<Pad, Pad>> = <<q[1], q[2], Pad, Pad>>
        /\ SubSeq(q, 1, 3) \o <<Pad>> = <<q[1], q[2], q[3], Pad>>
    <2> HIDE DEF q
    <2> QED
      BY <1>5, FirstSextets
  <1>7. /\ ByteAt(buf, 3 * full + 1) = rest[1] /\ ByteAt(buf, 3 * full + 3) = 0
        /\ ByteAt(buf, 3 * full + 2) = IF r = 2 THEN rest[2] ELSE 0
    <2>1. /\ 3 * full + 1 \in 1..N /\ 3 * full + 3 \notin 1..N
          /\ (3 * full + 2 \in 1..N <=> r = 2)
      OBVIOUS
    <2> HIDE DEF rest
    <2> QED
      BY <1>2, <2>1 DEF ByteAt
  <1>8. ~(3 * k <= Len(buf)) /\ (3 * k - 1 <= Len(buf) <=> r = 2)
    OBVIOUS
  <1>9. Quartet(buf, k) = IF r = 2 THEN <<q[1], q[2], q[3], Pad>> ELSE <<q[1], q[2], Pad, Pad>>
    <2> HIDE DEF k, q
    <2> QED
      BY <1>8 DEF Quartet, q
  <1> HIDE DEF rest, q, k, a
  <1>10. CASE r = 1
    <2>1. EncodedRest(rest) = SubSeq(Sextets(rest[1], 0, 0), 1, 2) \o <<Pad, Pad>>
      BY <1>2, <1>10 DEF EncodedRest
    <2>2. q = Sextets(rest[1], 0, 0)
      BY <1>4, <1>7, <1>10
    <2>3. EncodedRest(rest) = Quartet(buf, k)
      BY <1>6, <1>9, <1>10, <2>1, <2>2
    <2> QED
      BY <2>3 DEF rest, k, a
  <1>11. CASE r = 2
    <2>1. EncodedRest(rest) = SubSeq(Sextets(rest[1], rest[2], 0), 1, 3) \o <<Pad>>
      BY <1>2, <1>11 DEF EncodedRest
    <2>2. q = Sextets(rest[1], rest[2], 0)
      BY <1>4, <1>7, <1>11
    <2>3. EncodedRest(rest) = Quartet(buf, k)
      BY <1>6, <1>9, <1>11, <2>1, <2>2
    <2> QED
      BY <2>3 DEF rest, k, a
  <1> QED
    BY <1>10, <1>11

(* What is encoded is the quartets in a row.                               *)
LEMMA EncodedQuartets ==
    ASSUME NEW buf \in Seq(0..255)
    PROVE  Base64Encode(buf) = FlattenSeq([k \in 1..Quads(buf) |-> Quartet(buf, k)])
  <1>1. PICK N \in Nat : N = Len(buf)
    OBVIOUS
  <1>2. PICK full \in Nat, r \in {0, 1, 2} : full = N \div 3 /\ N = 3 * full + r
    BY GroupsOfThree
  <1>3. Quads(buf) = IF r = 0 THEN full ELSE full + 1
    BY <1>1, <1>2 DEF Quads
  <1> DEFINE s == [k \in 1..full |-> Sextets(buf[3 * k - 2], buf[3 * k - 1], buf[3 * k])]
             rest == SubSeq(buf, 3 * full + 1, N)
             m == [k \in 1..(full + 1) |-> Quartet(buf, k)]
             f == FlattenSeq(s)
  <1>4. Base64Encode(buf) = f \o EncodedRest(rest)
    BY <1>1, <1>2, Zenon DEF Base64Encode, EncodedRest
  <1>5. s = [k \in 1..full |-> Quartet(buf, k)]
    <2>1. ASSUME NEW k \in 1..full
          PROVE  Quartet(buf, k) = Sextets(buf[3 * k - 2], buf[3 * k - 1], buf[3 * k])
      <3>1. 3 * k <= N /\ 3 * k \in 1..N /\ 3 * k - 1 \in 1..N /\ 3 * k - 2 \in 1..N
        BY <1>2
      <3> QED
        BY <1>1, <3>1 DEF Quartet, Quad, ByteAt
    <2>2. \A k \in 1..full : s[k] = Quartet(buf, k)
      BY <2>1
    <2>3. s = [k \in 1..full |-> s[k]]
      OBVIOUS
    <2> HIDE DEF s
    <2> QED
      BY <2>2, <2>3, Zenon
  <1> HIDE DEF s
  <1>6. CASE r = 0
    <2>1. Quads(buf) = full
      BY <1>3, <1>6
    <2>2. EncodedRest(rest) = <<>>
      <3>1. /\ 3 * full + 1 \in Int /\ N \in Int /\ 1 <= 3 * full + 1
            /\ 3 * full + 1 <= N + 1 /\ N <= Len(buf) /\ N - (3 * full + 1) + 1 = 0
        BY <1>1, <1>2, <1>6
      <3>2. Len(rest) = 0
        BY <3>1, SubSeqElements
      <3> HIDE DEF rest
      <3> QED
        BY <3>2 DEF EncodedRest
    <2>3. f \in Seq(0..64)
      <3>1. \A k \in 1..full : Quartet(buf, k) \in Seq(0..64)
        BY <2>1, QuartetReads
      <3>2. s \in Seq(Seq(0..64))
        BY <1>5, <3>1
      <3> QED
        BY <3>2, FlattenSeqSequence
    <2> HIDE DEF f, rest
    <2>4. f \o <<>> = f
      BY <2>3
    <2> QED
      BY <1>4, <1>5, <2>1, <2>2, <2>4 DEF f
  <1>7. CASE r # 0
    <2>1. Quads(buf) = full + 1
      BY <1>3, <1>7
    <2>2. EncodedRest(rest) = Quartet(buf, full + 1)
      BY <1>1, <1>2, <1>7, EncodedTail
    <2>3. \A j \in 1..(full + 1) : m[j] \in Seq(0..64)
      BY <2>1, QuartetReads
    <2>4. m[full + 1] = Quartet(buf, full + 1) /\ \A j \in 1..full : m[j] = Quartet(buf, j)
      <3>1. full + 1 \in 1..(full + 1) /\ \A j \in 1..full : j \in 1..(full + 1)
        OBVIOUS
      <3> QED
        BY <3>1
    <2>5. m = [j \in 1..(full + 1) |-> m[j]]
      OBVIOUS
    <2> HIDE DEF m
    <2>6. FlattenSeq([j \in 1..(full + 1) |-> m[j]])
              = FlattenSeq([j \in 1..full |-> m[j]]) \o m[full + 1]
      BY <2>3, FlattenSeqPrefix
    <2>7. [j \in 1..full |-> m[j]] = s
      BY <1>5, <2>4, Zenon
    <2>8. FlattenSeq(m) = f \o Quartet(buf, full + 1)
      BY <2>4, <2>5, <2>6, <2>7 DEF f
    <2>9. m = [k \in 1..Quads(buf) |-> Quartet(buf, k)]
      BY <2>1 DEF m
    <2> HIDE DEF f, rest
    <2> QED
      BY <1>4, <2>2, <2>8, <2>9
  <1> QED
    BY <1>6, <1>7

(* What is read is three bytes for four characters.                        *)
LEMMA BytesRead ==
    ASSUME NEW buf \in Seq(0..255), NEW enc, NEW k \in 1..Quads(buf),
           \A j \in 1..4 : enc[(k - 1) * 4 + j] = Quartet(buf, k)[j]
    PROVE  LET Bits(n) == IF enc[4 * k - 4 + n] = Pad THEN 0 ELSE enc[4 * k - 4 + n]
           IN  <<Bits(1) * 4 + Bits(2) \div 16,
                 (Bits(2) % 16) * 16 + Bits(3) \div 4,
                 (Bits(3) % 4) * 64 + Bits(4)>>
                   = <<ByteAt(buf, 3 * k - 2), ByteAt(buf, 3 * k - 1), ByteAt(buf, 3 * k)>>
  <1> DEFINE Bits(n) == IF enc[4 * k - 4 + n] = Pad THEN 0 ELSE enc[4 * k - 4 + n]
             q == Quad(buf, k)
             x == ByteAt(buf, 3 * k - 2)
             y == ByteAt(buf, 3 * k - 1)
             z == ByteAt(buf, 3 * k)
  <1>1. \A j \in 1..4 : (IF Quartet(buf, k)[j] = Pad THEN 0 ELSE Quartet(buf, k)[j]) = q[j]
    BY QuartetReads
  <1>2. k \in Int
    BY DEF Quads
  <1>3. \A j \in 1..4 : Bits(j) = q[j]
    <2>1. \A j \in 1..4 : 4 * k - 4 + j = (k - 1) * 4 + j
      BY <1>2
    <2>2. \A j \in 1..4 : enc[4 * k - 4 + j] = Quartet(buf, k)[j]
      BY <2>1, Zenon
    <2> HIDE DEF q
    <2> QED
      BY <1>1, <2>2, Zenon
  <1>4. Hold(Sextets(x, y, z), x, y, z)
    <2>1. x \in 0..255 /\ y \in 0..255 /\ z \in 0..255
      BY ByteIsByte
    <2> HIDE DEF x, y, z
    <2>2. SextetsOf(Sextets(x, y, z), x, y, z)
      BY <2>1, SextetsHold, Zenon
    <2> QED
      BY <2>2, Zenon DEF SextetsOf
  <1>5. q = Sextets(x, y, z)
    BY DEF Quad
  <1>6. Bits(1) = q[1] /\ Bits(2) = q[2] /\ Bits(3) = q[3] /\ Bits(4) = q[4]
    <2> HIDE DEF Bits, q
    <2> QED
      BY <1>3
  <1> HIDE DEF Bits, q, x, y, z
  <1>7. Hold(q, x, y, z)
    BY <1>4, <1>5
  <1>8. /\ Bits(1) * 4 + Bits(2) \div 16 = x
        /\ (Bits(2) % 16) * 16 + Bits(3) \div 4 = y
        /\ (Bits(3) % 4) * 64 + Bits(4) = z
    BY <1>6, <1>7, Zenon DEF Hold
  <1>9. <<Bits(1) * 4 + Bits(2) \div 16, (Bits(2) % 16) * 16 + Bits(3) \div 4,
          (Bits(3) % 4) * 64 + Bits(4)>> = <<x, y, z>>
    BY <1>8, Zenon
  <1> QED
    BY <1>9, Zenon DEF Bits, x, y, z

LEMMA QuadsOf ==
    ASSUME NEW buf \in Seq(0..255)
    PROVE  /\ Quads(buf) \in Nat /\ Len(buf) \in Nat
           /\ 3 * Quads(buf) - 2 <= Len(buf) \/ Quads(buf) = 0
           /\ Len(buf) <= 3 * Quads(buf)
  BY GroupsOfThree DEF Quads

(* Where the first pad is.                                                 *)
LEMMA PadsWritten ==
    ASSUME NEW buf \in Seq(0..255), NEW enc \in Seq(0..64), Len(enc) = Quads(buf) * 4,
           \A k \in 1..Quads(buf) : \A j \in 1..4 :
               enc[(k - 1) * 4 + j] = Quartet(buf, k)[j]
    PROVE  LET first == SelectInSeq(enc, LAMBDA c : c = Pad)
           IN  (IF first = 0 THEN 0 ELSE Len(enc) + 1 - first) = 3 * Quads(buf) - Len(buf)
  <1> DEFINE m == Quads(buf)
             N == Len(buf)
             L == Len(enc)
             I == {i \in 1..L : enc[i] = Pad}
             first == SelectInSeq(enc, LAMBDA c : c = Pad)
  <1>1. m \in Nat /\ N \in Nat /\ (3 * m - 2 <= N \/ m = 0) /\ N <= 3 * m
    BY QuadsOf
  <1>2. first = IF I # {} THEN Min(I) ELSE 0
    BY DEF SelectInSeq
  <1>3. \A k \in 1..m :
            /\ Quartet(buf, k)[1] # Pad /\ Quartet(buf, k)[2] # Pad
            /\ Quartet(buf, k)[3] = Pad <=> 3 * k - 1 > N
            /\ Quartet(buf, k)[4] = Pad <=> 3 * k > N
    BY QuartetReads
  <1>4. \A k \in 1..m : \A j \in 1..4 : enc[(k - 1) * 4 + j] = Quartet(buf, k)[j]
    OBVIOUS
  <1>9. L = m * 4
    OBVIOUS
  <1> HIDE DEF m, N, L, I, first
  <1>5. ASSUME NEW i \in 1..L
        PROVE  enc[i] = Pad <=> (i = L /\ N < 3 * m) \/ (i = L - 1 /\ N < 3 * m - 1)
    <2>1. PICK k \in 1..m, j \in {1, 2, 3, 4} : i = (k - 1) * 4 + j
      BY <1>1, <1>9, ByFour
    <2>5. j \in 1..4
      OBVIOUS
    <2>2. enc[i] = Quartet(buf, k)[j]
      BY <1>4, <2>1, <2>5, Zenon
    <2>6. /\ Quartet(buf, k)[1] # Pad /\ Quartet(buf, k)[2] # Pad
          /\ Quartet(buf, k)[3] = Pad <=> 3 * k - 1 > N
          /\ Quartet(buf, k)[4] = Pad <=> 3 * k > N
      BY <1>3
    <2>3. CASE k = m
      <3>1. (j = 4 <=> i = L) /\ (j = 3 <=> i = L - 1)
        BY <1>1, <1>9, <2>1, <2>3
      <3> QED
        BY <1>1, <2>2, <2>3, <2>6, <3>1
    <2>4. CASE k # m
      <3>1. ~(3 * k > N) /\ ~(3 * k - 1 > N) /\ i # L /\ i # L - 1
        BY <1>1, <1>9, <2>1, <2>4
      <3> QED
        BY <2>2, <2>6, <3>1
    <2> QED
      BY <2>3, <2>4
  <1>6. CASE N = 3 * m
    <2>1. I = {}
      BY <1>1, <1>5, <1>6 DEF I
    <2>2. first = 0
      BY <1>2, <2>1
    <2> QED
      BY <1>1, <1>6, <2>2 DEF first, m, N
  <1>7. CASE N = 3 * m - 1
    <2>1. m > 0 /\ L \in 1..L
      BY <1>1, <1>7, <1>9
    <2>2. I = {L}
      <3>1. N < 3 * m /\ ~(N < 3 * m - 1)
        BY <1>1, <1>7
      <3>2. \A i \in 1..L : enc[i] = Pad <=> i = L
        BY <1>5, <3>1
      <3> QED
        BY <2>1, <3>2, Zenon DEF I
    <2>3. Min({L}) = L
      BY <2>1 DEF Min
    <2>4. first = L /\ L # 0
      BY <1>2, <2>1, <2>2, <2>3
    <2> QED
      BY <1>1, <1>7, <2>1, <2>4 DEF first, m, N, L
  <1>8. CASE N = 3 * m - 2
    <2>1. m > 0 /\ L \in 1..L /\ L - 1 \in 1..L
      BY <1>1, <1>8, <1>9
    <2>2. I = {L - 1, L}
      <3>1. N < 3 * m /\ N < 3 * m - 1
        BY <1>1, <1>8
      <3>2. \A i \in 1..L : enc[i] = Pad <=> i = L \/ i = L - 1
        BY <1>5, <3>1
      <3> QED
        BY <2>1, <3>2, Zenon DEF I
    <2>3. Min({L - 1, L}) = L - 1
      BY <2>1 DEF Min
    <2>4. first = L - 1 /\ L - 1 # 0
      BY <1>2, <2>1, <2>2, <2>3
    <2> QED
      BY <1>1, <1>8, <2>1, <2>4 DEF first, m, N, L
  <1>10. N = 3 * m \/ N = 3 * m - 1 \/ N = 3 * m - 2
    BY <1>1
  <1> QED
    BY <1>6, <1>7, <1>8, <1>10

(* Whatever is encoded is decoded again.                                   *)
LEMMA Base64RoundTrip ==
    ASSUME NEW buf \in Seq(0..255)
    PROVE  Base64Decode(Base64Encode(buf)) = buf
  <1> DEFINE m == Quads(buf)
             N == Len(buf)
             f == [k \in 1..m |-> Quartet(buf, k)]
             g == [k \in 1..m |->
                      <<ByteAt(buf, 3 * k - 2), ByteAt(buf, 3 * k - 1), ByteAt(buf, 3 * k)>>]
             enc == Base64Encode(buf)
             Bits(k, n) == IF enc[4 * k - 4 + n] = Pad THEN 0 ELSE enc[4 * k - 4 + n]
             Bytes(k) == <<Bits(k, 1) * 4 + Bits(k, 2) \div 16,
                           (Bits(k, 2) % 16) * 16 + Bits(k, 3) \div 4,
                           (Bits(k, 3) % 4) * 64 + Bits(k, 4)>>
             first == SelectInSeq(enc, LAMBDA c : c = Pad)
             pads == IF first = 0 THEN 0 ELSE Len(enc) + 1 - first
             bytes == FlattenSeq(g)
  <1>1. m \in Nat /\ N \in Nat /\ N <= 3 * m
    BY QuadsOf
  <1>2. \A k \in 1..m : f[k] \in Seq(0..64) /\ Len(f[k]) = 4
    BY QuartetReads
  <1>3. enc = FlattenSeq([k \in 1..m |-> f[k]])
    <2>1. [k \in 1..m |-> f[k]] = [k \in 1..m |-> Quartet(buf, k)]
      OBVIOUS
    <2> QED
      BY <2>1, EncodedQuartets
  <1>4. /\ enc \in Seq(0..64) /\ Len(enc) = m * 4
        /\ \A k \in 1..m : \A j \in 1..4 : enc[(k - 1) * 4 + j] = f[k][j]
    <2>1. InARow(enc, f, m, 4, 0..64)
      <3> DEFINE c == 4
                 S == 0..64
      <3>1. c \in Nat /\ \A k \in 1..m : f[k] \in Seq(S) /\ Len(f[k]) = c
        BY <1>2
      <3> HIDE DEF enc, f, m, c, S
      <3>2. InARow(enc, f, m, c, S)
        BY <1>1, <1>3, <3>1, RowsInARow, Zenon
      <3> QED
        BY <3>2 DEF c, S
    <2> HIDE DEF enc, f, m
    <2> QED
      BY <2>1 DEF InARow
  <1>5. \A k \in 1..m : \A j \in 1..4 : enc[(k - 1) * 4 + j] = Quartet(buf, k)[j]
    BY <1>4
  <1> HIDE DEF enc
  <1>6. \A k \in 1..m : Bytes(k) = g[k]
    <2> TAKE k \in 1..m
    <2>1. \A j \in 1..4 : enc[(k - 1) * 4 + j] = Quartet(buf, k)[j]
      BY <1>5
    <2>2. Bytes(k) = <<ByteAt(buf, 3 * k - 2), ByteAt(buf, 3 * k - 1), ByteAt(buf, 3 * k)>>
      BY <2>1, BytesRead
    <2> QED
      BY <2>2
  <1>7. pads = 3 * m - N
    BY <1>4, <1>5, PadsWritten
  <1>8. Len(enc) \div 4 = m
    BY <1>1, <1>4
  <1>9. [k \in 1..(Len(enc) \div 4) |-> Bytes(k)] = g
    <2>1. g = [k \in 1..m |-> g[k]]
      OBVIOUS
    <2> HIDE DEF g, m, Bytes
    <2> QED
      BY <1>6, <1>8, <2>1, Zenon
  <1>10. Base64Decode(enc) = SubSeq(bytes, 1, Len(bytes) - pads)
    <2> HIDE DEF g, m
    <2> QED
      BY <1>9 DEF Base64Decode
  <1> HIDE DEF first, pads, Bytes, Bits
  <1>11. \A k \in 1..m : g[k] \in Seq(0..255) /\ Len(g[k]) = 3
    <2> TAKE k \in 1..m
    <2> DEFINE x == ByteAt(buf, 3 * k - 2)
               y == ByteAt(buf, 3 * k - 1)
               z == ByteAt(buf, 3 * k)
    <2>1. x \in 0..255 /\ y \in 0..255 /\ z \in 0..255
      BY ByteIsByte
    <2>2. g[k] = <<x, y, z>>
      OBVIOUS
    <2> HIDE DEF x, y, z, g
    <2> QED
      BY <2>1, <2>2
  <1>12. /\ bytes \in Seq(0..255) /\ Len(bytes) = m * 3
         /\ \A k \in 1..m : \A j \in 1..3 : bytes[(k - 1) * 3 + j] = g[k][j]
    <2>1. bytes = FlattenSeq([k \in 1..m |-> g[k]])
      <3>1. [k \in 1..m |-> g[k]] = g
        OBVIOUS
      <3> QED
        BY <3>1
    <2>2. InARow(bytes, g, m, 3, 0..255)
      <3> DEFINE c == 3
                 S == 0..255
      <3>1. c \in Nat /\ \A k \in 1..m : g[k] \in Seq(S) /\ Len(g[k]) = c
        BY <1>11
      <3> HIDE DEF g, m, bytes, c, S
      <3>2. InARow(bytes, g, m, c, S)
        BY <1>1, <2>1, <3>1, RowsInARow, Zenon
      <3> QED
        BY <3>2 DEF c, S
    <2> HIDE DEF g, m, bytes
    <2> QED
      BY <2>2 DEF InARow
  <1>13. ASSUME NEW i \in 1..N
         PROVE  bytes[i] = buf[i]
    <2>1. PICK k \in 1..m, j \in {1, 2, 3} : i = (k - 1) * 3 + j
      <3> HIDE DEF m, N
      <3>1. i \in 1..(m * 3)
        BY <1>1
      <3> QED
        BY <1>1, <3>1, ByThree
    <2>2. g[k] = <<ByteAt(buf, 3 * k - 2), ByteAt(buf, 3 * k - 1), ByteAt(buf, 3 * k)>>
      OBVIOUS
    <2>7. j \in 1..3
      OBVIOUS
    <2> HIDE DEF g, bytes, m
    <2>3. /\ 3 * k - 2 = (k - 1) * 3 + 1 /\ 3 * k - 1 = (k - 1) * 3 + 2
          /\ 3 * k = (k - 1) * 3 + 3
      BY <1>1, <2>1
    <2>4. g[k][j] = ByteAt(buf, i)
      <3>1. CASE j = 1
        BY <2>1, <2>2, <2>3, <3>1
      <3>2. CASE j = 2
        BY <2>1, <2>2, <2>3, <3>2
      <3>3. CASE j = 3
        BY <2>1, <2>2, <2>3, <3>3
      <3> QED
        BY <2>1, <3>1, <3>2, <3>3
    <2>5. bytes[i] = g[k][j]
      BY <1>12, <2>1, <2>7, Zenon
    <2>6. ByteAt(buf, i) = buf[i]
      BY DEF ByteAt
    <2> QED
      BY <2>4, <2>5, <2>6
  <1> HIDE DEF bytes, g
  <1>14. Len(bytes) - pads = N
    <2> HIDE DEF N, m
    <2> QED
      BY <1>1, <1>7, <1>12
  <1> DEFINE d == SubSeq(bytes, 1, N)
  <1>15. d \in Seq(0..255) /\ Len(d) = N /\ \A i \in 1..N : d[i] = bytes[i]
    <2>1. N \in Nat /\ N <= Len(bytes)
      <3> HIDE DEF N, m
      <3> QED
        BY <1>1, <1>12
    <2> HIDE DEF N
    <2>2. \A i \in 1..Len(bytes) : bytes[i] \in 0..255
      BY <1>12, ElementOfSeq
    <2>3. \A i \in 1..N : bytes[i] \in 0..255
      BY <2>1, <2>2
    <2>4. d \in Seq(0..255)
      BY <2>1, <2>3 DEF SubSeq
    <2>5. Len(d) = N - 1 + 1 /\ \A i \in 1..(N - 1 + 1) : d[i] = bytes[1 + i - 1]
      <3>1. 1 \in Int /\ N \in Int /\ 1 <= 1 /\ 1 <= N + 1
        BY <2>1
      <3> QED
        BY <1>12, <2>1, <3>1, SubSeqElements
    <2> QED
      BY <2>1, <2>4, <2>5
  <1> HIDE DEF d
  <1>16. d = buf
    BY <1>13, <1>15, SameSequence
  <1> QED
    BY <1>10, <1>14, <1>16 DEF d, enc

(* A point of a grid in an image made larger.                              *)
LEMMA ScaledIndex ==
    ASSUME NEW u \in Grid, NEW n \in Nat \ {0}, NEW f \in Nat \ {0}
    PROVE  \E k \in 1..n : \E t \in 1..f :
               (u * n) \div 6 = k - 1 /\ (u * (n * f)) \div 6 = (k - 1) * f + (t - 1)
  <1> DEFINE x == u * n
             q == x \div 6
             s == x % 6
             A == q * f
             B == s * f
             t == B \div 6
  <1>1. x \in Nat /\ x <= 5 * n
    BY DEF Grid
  <1>2. u * (n * f) = x * f
    BY DEF Grid
  <1> HIDE DEF x
  <1>3. q \in 0..(n - 1) /\ s \in 0..5 /\ x = 6 * q + s
    BY <1>1
  <1>4. B \in Nat /\ B <= 5 * f
    <2> HIDE DEF s
    <2>1. s \in {0, 1, 2, 3, 4, 5}
      BY <1>3
    <2> QED
      BY <2>1
  <1>5. x * f = 6 * A + B /\ A \in Nat
    <2> HIDE DEF q, s
    <2> QED
      BY <1>3
  <1> HIDE DEF q, s, A, B
  <1>6. t \in 0..(f - 1) /\ (6 * A + B) \div 6 = A + t
    BY <1>4, <1>5
  <1> HIDE DEF t
  <1>7. (u * (n * f)) \div 6 = A + t
    BY <1>2, <1>5, <1>6
  <1> DEFINE k == q + 1
             tt == t + 1
  <1>8. k \in 1..n /\ tt \in 1..f /\ k - 1 = q /\ tt - 1 = t
    BY <1>3, <1>6
  <1>9. (k - 1) * f + (tt - 1) = A + t
    BY <1>8, Zenon DEF A
  <1> HIDE DEF k, tt
  <1> QED
    BY <1>7, <1>8, <1>9, Zenon DEF q, x

(* An image of w by h pixels with each of them repeated.                   *)
PixelRow(pixels, w, wfac, i) ==
    FlattenSeq([j \in 1..w |-> [rep \in 1..wfac |-> pixels[(i - 1) * w + j]]])
PixelRows(pixels, w, wfac, hfac, i) ==
    FlattenSeq([rep \in 1..hfac |-> PixelRow(pixels, w, wfac, i)])
Enlarged(pixels, w, h, wfac, hfac) ==
    FlattenSeq([i \in 1..h |-> PixelRows(pixels, w, wfac, hfac, i)])

(* What is at its places.                                                  *)
PixelsAt(e, pixels, w, h, wf, hf) ==
    LET W == w * wf IN
    \A i \in 1..h : \A r \in 1..hf : \A j \in 1..w : \A c \in 1..wf :
        e[(i - 1) * (hf * W) + ((r - 1) * W + ((j - 1) * wf + c))] = pixels[(i - 1) * w + j]

LEMMA EnlargedPixel ==
    ASSUME NEW pixels, NEW w \in Nat, NEW h \in Nat, NEW wf \in Nat, NEW hf \in Nat
    PROVE  /\ Enlarged(pixels, w, h, wf, hf) \in Seq({pixels[n] : n \in Int})
           /\ PixelsAt(Enlarged(pixels, w, h, wf, hf), pixels, w, h, wf, hf)
  <1> DEFINE S == {pixels[n] : n \in Int}
             W == w * wf
             H == hf * W
             e == Enlarged(pixels, w, h, wf, hf)
             Cells(i) == [j \in 1..w |-> [rep \in 1..wf |-> pixels[(i - 1) * w + j]]]
             Row(i) == PixelRow(pixels, w, wf, i)
             Copies(i) == [rep \in 1..hf |-> Row(i)]
             Rows(i) == PixelRows(pixels, w, wf, hf, i)
             all == [i \in 1..h |-> Rows(i)]
  <1>1. W \in Nat /\ H \in Nat
    OBVIOUS
  <1> HIDE DEF W, H
  <1>2. ASSUME NEW i \in 1..h PROVE InARow(Row(i), Cells(i), w, wf, S) /\ Len(Row(i)) = W
    <2>1. ASSUME NEW j \in 1..w PROVE Cells(i)[j] \in Seq(S) /\ Len(Cells(i)[j]) = wf
      <3> DEFINE x == pixels[(i - 1) * w + j]
      <3>1. x \in S
        <4>1. (i - 1) * w + j \in Int
          OBVIOUS
        <4> QED
          BY <4>1
      <3>2. Cells(i)[j] = [rep \in 1..wf |-> x]
        OBVIOUS
      <3> HIDE DEF x, S, Cells
      <3> QED
        BY <3>1, <3>2
    <2>2. Row(i) = FlattenSeq([j \in 1..w |-> Cells(i)[j]])
      <3>1. [j \in 1..w |-> Cells(i)[j]] = Cells(i)
        OBVIOUS
      <3> QED
        BY <3>1 DEF PixelRow
    <2> HIDE DEF Cells, Row, S
    <2> DEFINE ce == Cells(i)
    <2>3. Row(i) = FlattenSeq([j \in 1..w |-> ce[j]])
      BY <2>2
    <2>4. \A j \in 1..w : ce[j] \in Seq(S) /\ Len(ce[j]) = wf
      BY <2>1
    <2> HIDE DEF ce
    <2>5. InARow(Row(i), ce, w, wf, S)
      BY <2>3, <2>4, RowsInARow
    <2> QED
      BY <2>5 DEF InARow, W, ce
  <1>3. ASSUME NEW i \in 1..h PROVE InARow(Rows(i), Copies(i), hf, W, S) /\ Len(Rows(i)) = H
    <2> DEFINE co == Copies(i)
    <2>1. \A rep \in 1..hf : co[rep] \in Seq(S) /\ Len(co[rep]) = W
      <3>1. Row(i) \in Seq(S) /\ Len(Row(i)) = W
        BY <1>2 DEF InARow
      <3> HIDE DEF Row, S
      <3> QED
        BY <3>1
    <2>2. Rows(i) = FlattenSeq([rep \in 1..hf |-> co[rep]])
      <3>1. [rep \in 1..hf |-> co[rep]] = co
        OBVIOUS
      <3> QED
        BY <3>1 DEF PixelRows
    <2> HIDE DEF co, Rows, Copies, S
    <2>3. InARow(Rows(i), co, hf, W, S)
      BY <1>1, <2>1, <2>2, RowsInARow
    <2> QED
      BY <2>3 DEF InARow, H, co
  <1>4. InARow(e, all, h, H, S)
    <2>1. \A i \in 1..h : all[i] \in Seq(S) /\ Len(all[i]) = H
      <3>1. \A i \in 1..h : Rows(i) \in Seq(S) /\ Len(Rows(i)) = H
        BY <1>3 DEF InARow
      <3> HIDE DEF Rows, S
      <3> QED
        BY <3>1
    <2>2. e = FlattenSeq([i \in 1..h |-> all[i]])
      <3>1. [i \in 1..h |-> all[i]] = all
        OBVIOUS
      <3> QED
        BY <3>1 DEF Enlarged
    <2> HIDE DEF all, e, S
    <2> QED
      BY <1>1, <2>1, <2>2, RowsInARow
  <1>5. ASSUME NEW i \in 1..h, NEW r \in 1..hf, NEW j \in 1..w, NEW c \in 1..wf
        PROVE  e[(i - 1) * H + ((r - 1) * W + ((j - 1) * wf + c))] = pixels[(i - 1) * w + j]
    <2> DEFINE k2 == (j - 1) * wf + c
               k1 == (r - 1) * W + k2
    <2>1. k2 \in 1..W /\ Row(i)[k2] = Cells(i)[j][c]
      <3>1. InARow(Row(i), Cells(i), w, wf, S)
        BY <1>2
      <3> HIDE DEF Row, Cells, S
      <3> QED
        BY <3>1 DEF InARow, W
    <2>2. Cells(i)[j][c] = pixels[(i - 1) * w + j]
      OBVIOUS
    <2> HIDE DEF k2
    <2>3. k1 \in 1..H /\ Rows(i)[k1] = Copies(i)[r][k2]
      <3>1. InARow(Rows(i), Copies(i), hf, W, S)
        BY <1>3
      <3> HIDE DEF Rows, Copies, S
      <3> QED
        BY <2>1, <3>1 DEF InARow, H
    <2>4. Copies(i)[r] = Row(i)
      OBVIOUS
    <2> HIDE DEF k1
    <2>5. e[(i - 1) * H + k1] = all[i][k1]
      <3> HIDE DEF e, all, S
      <3> QED
        BY <1>4, <2>3 DEF InARow
    <2>6. all[i] = Rows(i)
      OBVIOUS
    <2> HIDE DEF e, all, Rows, Copies, Row, Cells
    <2> QED
      BY <2>1, <2>2, <2>3, <2>4, <2>5, <2>6 DEF k1, k2
  <1>6. e \in Seq(S)
    <2> HIDE DEF e, S, all
    <2> QED
      BY <1>4 DEF InARow
  <1> HIDE DEF e
  <1>7. PixelsAt(e, pixels, w, h, wf, hf)
    BY <1>5 DEF PixelsAt, H, W
  <1> QED
    BY <1>6, <1>7 DEF e, S

(* Of n elements, each of them f times, the one that u picks is a copy of  *)
(* the one it picks of the n.                                              *)
Picks(u, n, f, k, t) ==
    (u * n) \div 6 = k - 1 /\ (u * (n * f)) \div 6 = (k - 1) * f + (t - 1)

LEMMA ScaledPick ==
    ASSUME NEW u \in Grid, NEW n \in Nat \ {0}, NEW f \in Nat \ {0}
    PROVE  \E k \in 1..n : \E t \in 1..f : Picks(u, n, f, k, t)
  BY ScaledIndex DEF Picks

(* It looks like the image.                                                *)
LEMMA EnlargedLook ==
    ASSUME NEW pixels, NEW w \in Nat \ {0}, NEW h \in Nat \ {0},
           NEW wf \in Nat \ {0}, NEW hf \in Nat \ {0}
    PROVE  Look(w * wf, h * hf, Enlarged(pixels, w, h, wf, hf)) = Look(w, h, pixels)
  <1> DEFINE e == Enlarged(pixels, w, h, wf, hf)
             W == w * wf
             H == h * hf
             At(u, v) == e[((v * H) \div 6) * W + (u * W) \div 6 + 1]
             Of(u, v) == pixels[((v * h) \div 6) * w + (u * w) \div 6 + 1]
  <1>0. \A i \in 1..h : \A r \in 1..hf : \A j \in 1..w : \A c \in 1..wf :
            e[(i - 1) * (hf * W) + ((r - 1) * W + ((j - 1) * wf + c))]
                = pixels[(i - 1) * w + j]
    <2>1. w \in Nat /\ h \in Nat /\ wf \in Nat /\ hf \in Nat
      OBVIOUS
    <2>2. PixelsAt(e, pixels, w, h, wf, hf)
      BY <2>1, EnlargedPixel
    <2> QED
      BY <2>2 DEF PixelsAt
  <1>1. ASSUME NEW p \in Grid \X Grid PROVE At(p[1], p[2]) = Of(p[1], p[2])
    <2> DEFINE u == p[1]
               v == p[2]
    <2>0. u \in Grid /\ v \in Grid
      OBVIOUS
    <2> HIDE DEF u, v
    <2>7. PICK i \in 1..h, r \in 1..hf : Picks(v, h, hf, i, r)
      BY <2>0, ScaledPick, Zenon
    <2>8. PICK j \in 1..w, c \in 1..wf : Picks(u, w, wf, j, c)
      BY <2>0, ScaledPick, Zenon
    <2>1. (v * h) \div 6 = i - 1 /\ (v * H) \div 6 = (i - 1) * hf + (r - 1)
      BY <2>7 DEF Picks
    <2>2. (u * w) \div 6 = j - 1 /\ (u * W) \div 6 = (j - 1) * wf + (c - 1)
      BY <2>8 DEF Picks
    <2>3. e[(i - 1) * (hf * W) + ((r - 1) * W + ((j - 1) * wf + c))]
              = pixels[(i - 1) * w + j]
      BY <1>0, Zenon
    <2>4. W \in Int
      OBVIOUS
    <2> HIDE DEF e, W, H
    <2>5. ((v * H) \div 6) * W + (u * W) \div 6 + 1
              = (i - 1) * (hf * W) + ((r - 1) * W + ((j - 1) * wf + c))
      <3>1. ((i - 1) * hf + (r - 1)) * W = (i - 1) * (hf * W) + (r - 1) * W
        BY <2>4
      <3> DEFINE A == (i - 1) * (hf * W)
                 B == (r - 1) * W
                 C == (j - 1) * wf
      <3>2. A \in Int /\ B \in Int /\ C \in Int
        BY <2>4
      <3>3. ((v * H) \div 6) * W = A + B
        BY <2>1, <3>1
      <3>4. (u * W) \div 6 = C + (c - 1)
        BY <2>2
      <3> HIDE DEF A, B, C
      <3>5. ((v * H) \div 6) * W + (u * W) \div 6 + 1 = A + (B + (C + c))
        BY <3>2, <3>3, <3>4
      <3> QED
        BY <3>5 DEF A, B, C
    <2>6. ((v * h) \div 6) * w + (u * w) \div 6 + 1 = (i - 1) * w + j
      <3> DEFINE A == (i - 1) * w
      <3>1. A \in Int /\ ((v * h) \div 6) * w = A
        BY <2>1
      <3> HIDE DEF A
      <3>2. ((v * h) \div 6) * w + (u * w) \div 6 + 1 = A + j
        BY <2>2, <3>1
      <3> QED
        BY <3>2 DEF A
    <2> QED
      BY <2>3, <2>5, <2>6 DEF u, v
  <1>2. /\ Look(W, H, e) = [p \in Grid \X Grid |-> At(p[1], p[2])]
        /\ Look(w, h, pixels) = [p \in Grid \X Grid |-> Of(p[1], p[2])]
    <2> HIDE DEF e, W, H
    <2> QED
      BY DEF Look
  <1> HIDE DEF At, Of
  <1>3. [p \in Grid \X Grid |-> At(p[1], p[2])] = [p \in Grid \X Grid |-> Of(p[1], p[2])]
    BY <1>1, Zenon
  <1> QED
    BY <1>2, <1>3 DEF e, W, H

LEMMA FactorPositive ==
    ASSUME NEW pixels \in Nat \ {0}, NEW extent \in Nat
    PROVE  Factor(pixels, extent) \in Nat \ {0}
  <1>1. CASE pixels < extent
    <2> DEFINE a == extent + pixels - 1
    <2>1. a \in Nat /\ a >= pixels
      BY <1>1
    <2> HIDE DEF a
    <2>2. a \div pixels \in Nat \ {0}
      BY <2>1
    <2> QED
      BY <1>1, <2>2 DEF Factor, a
  <1>2. CASE ~(pixels < extent)
    BY <1>2 DEF Factor
  <1> QED
    BY <1>1, <1>2

(* What follows two elements.                                              *)
LEMMA AfterTwo ==
    ASSUME NEW S, NEW q \in Seq(S), NEW a, NEW b
    PROVE  LET p == <<a, b>> \o q
           IN  p[1] = a /\ p[2] = b /\ SubSeq(p, 3, Len(p)) = q
  <1> DEFINE T == S \cup {a, b}
             ab == <<a, b>>
             p == ab \o q
             L == Len(q)
  <1>1. a \in T /\ b \in T /\ \A s \in S : s \in T
    OBVIOUS
  <1>2. L \in Nat /\ \A n \in 1..L : q[n] \in S
    BY ElementOfSeq
  <1> HIDE DEF T
  <1>3. ab \in Seq(T) /\ Len(ab) = 2 /\ ab[1] = a /\ ab[2] = b
    BY <1>1
  <1>4. q \in Seq(T)
    BY <1>1, <1>2
  <1> HIDE DEF ab
  <1>5. /\ p \in Seq(T) /\ Len(p) = Len(ab) + Len(q)
        /\ \A i \in 1..(Len(ab) + Len(q)) :
              p[i] = IF i <= Len(ab) THEN ab[i] ELSE q[i - Len(ab)]
    BY <1>3, <1>4, ConcatProperties
  <1> HIDE DEF p
  <1>6. Len(p) = L + 2 /\ p[1] = a /\ p[2] = b /\ \A n \in 1..L : p[n + 2] = q[n]
    <2>1. Len(p) = L + 2 /\ 1 \in 1..(L + 2) /\ 2 \in 1..(L + 2)
      BY <1>2, <1>3, <1>5
    <2>2. p[1] = a /\ p[2] = b
      BY <1>3, <1>5, <2>1
    <2>3. ASSUME NEW n \in 1..L PROVE p[n + 2] = q[n]
      <3>1. n + 2 \in 1..(L + 2) /\ ~(n + 2 <= 2) /\ (n + 2) - 2 = n
        BY <1>2
      <3> QED
        BY <1>3, <1>5, <3>1
    <2> QED
      BY <2>1, <2>2, <2>3
  <1> HIDE DEF L
  <1> DEFINE d == SubSeq(p, 3, L + 2)
  <1>7. Len(d) = L /\ \A n \in 1..L : d[n] = p[n + 2]
    <2>1. 3 \in Int /\ L + 2 \in Int /\ 1 <= 3 /\ 3 <= (L + 2) + 1 /\ L + 2 <= Len(p)
      BY <1>2, <1>6
    <2>2. /\ Len(d) = (L + 2) - 3 + 1
          /\ \A n \in 1..((L + 2) - 3 + 1) : d[n] = p[3 + n - 1]
      BY <1>5, <2>1, SubSeqElements
    <2>3. (L + 2) - 3 + 1 = L /\ \A n \in 1..L : 3 + n - 1 = n + 2
      BY <1>2
    <2> HIDE DEF d
    <2> QED
      BY <2>2, <2>3
  <1>8. d \in Seq(S)
    <2>1. 3 \in 1..(Len(p) + 1) /\ L + 2 \in 3 - 1..Len(p)
      BY <1>2, <1>6
    <2>2. d \in Seq(T)
      BY <1>5, <2>1, SubSeqProperties
    <2> HIDE DEF d
    <2>3. \A n \in 1..Len(d) : d[n] \in S
      BY <1>2, <1>6, <1>7
    <2> QED
      BY <2>2, <2>3
  <1> HIDE DEF d
  <1>9. d = q
    <2>1. \A n \in 1..Len(d) : d[n] = q[n]
      BY <1>6, <1>7
    <2> QED
      BY <1>7, <1>8, <2>1, SameSequence DEF L
  <1> QED
    BY <1>6, <1>9 DEF d, p, ab

(* The image of a call.                                                    *)
LEMMA PngLook ==
    ASSUME NEW call \in RCall, call.kind = "raster"
    PROVE  LET png == RasterPng(DrawCall(call)) IN
             Look(png[1], png[2], SubSeq(png, 3, Len(png))) = Look(call.w, call.h, call.pixels)
  <1> DEFINE dc == DrawCall(call)
             w == call.w
             h == call.h
             pixels == call.pixels
             wf == IF dc.interpolate THEN 1 ELSE Factor(dc.w, dc.rect[3])
             hf == IF dc.interpolate THEN 1 ELSE Factor(dc.h, dc.rect[4])
             e == Enlarged(pixels, w, h, wf, hf)
             png == RasterPng(dc)
             a == w * wf
             b == h * hf
  <1>1. /\ dc.w = w /\ dc.h = h /\ dc.pixels = pixels
        /\ w \in Nat \ {0} /\ h \in Nat \ {0}
        /\ dc.rect[3] \in Nat /\ dc.rect[4] \in Nat
    BY RasterDrawCall
  <1>2. wf \in Nat \ {0} /\ hf \in Nat \ {0}
    <2> HIDE DEF dc, w, h
    <2> QED
      BY <1>1, FactorPositive
  <1>3. png = <<a, b>> \o e
    <2>1. png = <<dc.w * wf, dc.h * hf>> \o Enlarged(dc.pixels, dc.w, dc.h, wf, hf)
      <3> HIDE DEF dc
      <3> QED
        BY Zenon DEF RasterPng, Enlarged, PixelRows, PixelRow
    <2> QED
      BY <1>1, <2>1
  <1> HIDE DEF dc, w, h, pixels, wf, hf, png
  <1>4. e \in Seq({pixels[n] : n \in Int})
    <2>1. w \in Nat /\ h \in Nat /\ wf \in Nat /\ hf \in Nat
      BY <1>1, <1>2
    <2> QED
      BY <2>1, EnlargedPixel DEF e
  <1>5. Look(a, b, e) = Look(w, h, pixels)
    BY <1>1, <1>2, EnlargedLook
  <1> HIDE DEF a, b, e
  <1>6. png[1] = a /\ png[2] = b /\ SubSeq(png, 3, Len(png)) = e
    BY <1>3, <1>4, AfterTwo
  <1> QED
    BY <1>5, <1>6 DEF png, dc, w, h, pixels

(* An image in an SVG document.                                            *)
LEMMA RasterMarks ==
    ASSUME NEW call \in RCall, call.kind = "raster",
           RasterPng(DrawCall(call)) \in Seq(0..255),
           NEW el, el.tag = "raster", el.area = <<BoxOf(DrawCall(call).rect)>>,
           el.href = RasterBase64(DrawCall(call)), el.smooth = call.interpolate,
           NEW doc, NEW clip
    PROVE  ElementMarks(doc, el, {clip}) = AskedMarks(call, clip)
  <1> DEFINE dc == DrawCall(call)
             area == <<BoxOf(dc.rect)>>
             look == Look(call.w, call.h, call.pixels)
             png == Base64Decode(el.href)
  <1>1. png = RasterPng(dc)
    BY Base64RoundTrip DEF RasterBase64
  <1>2. Look(png[1], png[2], SubSeq(png, 3, Len(png))) = look
    <2> HIDE DEF png
    <2> QED
      BY <1>1, PngLook
  <1> HIDE DEF png
  <1>3. ElementMarks(doc, el, {clip})
            = <<ImageMark(area, look, call.interpolate, {clip} \cup {area[1]})>>
    <2>1. ElementMarks(doc, el, {clip})
              = <<ImageMark(el.area, Look(png[1], png[2], SubSeq(png, 3, Len(png))),
                            el.smooth, {clip} \cup {el.area[1]})>>
      BY DEF ElementMarks, png
    <2> HIDE DEF look
    <2> QED
      BY <1>2, <2>1
  <1>4. AskedArea(call) = area
    BY RasterDrawCall
  <1>5. AskedMarks(call, clip) = <<ImageMark(area, look, call.interpolate, {clip, area[1]})>>
    <2> HIDE DEF area
    <2> QED
      BY <1>4 DEF AskedMarks
  <1>6. {clip} \cup {area[1]} = {clip, area[1]}
    OBVIOUS
  <1> HIDE DEF area, look
  <1> QED
    BY <1>3, <1>5, <1>6

LEMMA RasterGeometry ==
    ASSUME NEW call \in RCall, call.kind = "raster"
    PROVE  LET dc == DrawCall(call)
               g == Geometry(dc) IN
             /\ g.tag = "raster" /\ g.area = <<BoxOf(dc.rect)>> /\ g.href = RasterBase64(dc)
             /\ g.smooth = call.interpolate /\ DOMAIN g = Fields
  <1> DEFINE dc == DrawCall(call)
             area == <<BoxOf(dc.rect)>>
             href == RasterBase64(dc)
             s == dc.interpolate
             el == [[Element EXCEPT !.tag = "raster"] EXCEPT !.area = area, !.href = href,
                                                            !.smooth = s]
  <1>1. dc.kind = "raster" /\ s = call.interpolate
    BY RasterDrawCall
  <1>2. Geometry(dc) = el
    <2> HIDE DEF dc
    <2> QED
      BY <1>1 DEF Geometry
  <1> HIDE DEF area, href, s
  <1>3. /\ el.tag = "raster" /\ el.area = area /\ el.href = href /\ el.smooth = s
        /\ DOMAIN el = Fields
    BY DEF Element, Fields
  <1> QED
    BY <1>1, <1>2, <1>3 DEF area, href

----------------------------------------------------------------------------
(* Groups in SVG: what is painted is the marks of the elements in order,   *)
(* each in the clip of its entry, however they are grouped.                *)

Marked(doc, defs, el, name) == ElementMarks(doc, el, {ClipBox(defs, name)})
Painted(doc, defs, gs) == FlattenSeq([k \in DOMAIN gs |-> GroupMarks(doc, defs, gs[k])])
MarksIn(doc, defs, Els, Names, S) ==
    \A el \in Els : \A name \in Names : Marked(doc, defs, el, name) \in Seq(S)
GroupSet(Els, Names) == [clip : Names, elements : Seq(Els)]

LEMMA GroupsFold ==
    ASSUME NEW p, NEW elements, NEW names
    PROVE  LET first == Head(p.cps).id
               entry(n) == [clip |-> p.dcs[n].clip, name |-> names[p.dcs[n].clip],
                            element |-> elements[n]]
           IN  Groups(p, elements, names)
                   = Painting!Fold([last |-> first, groups |-> <<Group(names[first])>>],
                                   [n \in DOMAIN p.dcs |-> entry(n)]).groups
  BY DEF Groups, FoldLeft, MapThenFoldSet, Max,
         Painting!Fold, Painting!Largest

LEMMA GroupMarksEmpty ==
    ASSUME NEW doc, NEW defs, NEW name
    PROVE  GroupMarks(doc, defs, Group(name)) = <<>>
  <1> DEFINE g == Group(name)
  <1>1. DOMAIN g.elements = {}
    BY DEF Group
  <1> HIDE DEF g
  <1>2. [n \in DOMAIN g.elements |-> ElementMarks(doc, g.elements[n], {ClipBox(defs, g.clip)})]
            = <<>>
    BY <1>1
  <1> QED
    BY <1>2, FlattenSeqEmpty, Zenon DEF GroupMarks, g

LEMMA GroupMarksTyped ==
    ASSUME NEW doc, NEW defs, NEW Els, NEW Names, NEW S,
           MarksIn(doc, defs, Els, Names, S), NEW g \in GroupSet(Els, Names)
    PROVE  GroupMarks(doc, defs, g) \in Seq(S)
  <1> DEFINE q == g.elements
             name == g.clip
             m == [n \in DOMAIN q |-> Marked(doc, defs, q[n], name)]
  <1>1. q \in Seq(Els) /\ name \in Names
    BY DEF GroupSet
  <1>2. GroupMarks(doc, defs, g) = FlattenSeq(m)
    BY DEF GroupMarks, Marked
  <1> HIDE DEF q, name
  <1>3. \A n \in DOMAIN q : Marked(doc, defs, q[n], name) \in Seq(S)
    BY <1>1, ElementOfSeq DEF MarksIn
  <1>4. m \in Seq(Seq(S))
    BY <1>1, <1>3
  <1> QED
    BY <1>2, <1>4, FlattenSeqSequence

WithElement(g, el) == [g EXCEPT !.elements = Append(@, el)]

PaintsMore(doc, defs, Els, Names, g, el) ==
    /\ WithElement(g, el) \in GroupSet(Els, Names)
    /\ WithElement(g, el).clip = g.clip
    /\ GroupMarks(doc, defs, WithElement(g, el))
           = GroupMarks(doc, defs, g) \o Marked(doc, defs, el, g.clip)

LEMMA GroupMarksMore ==
    ASSUME NEW doc, NEW defs, NEW Els, NEW Names, NEW S,
           MarksIn(doc, defs, Els, Names, S), NEW g \in GroupSet(Els, Names), NEW el \in Els
    PROVE  PaintsMore(doc, defs, Els, Names, g, el)
  <1> DEFINE q == g.elements
             name == g.clip
             L == Len(q)
             r == Append(q, el)
             h == WithElement(g, el)
             m == [n \in 1..(L + 1) |-> Marked(doc, defs, r[n], name)]
  <1>1. q \in Seq(Els) /\ name \in Names
    BY DEF GroupSet
  <1>2. h.clip = name /\ h.elements = r /\ h \in GroupSet(Els, Names)
    BY DEF GroupSet, WithElement
  <1>3. /\ GroupMarks(doc, defs, g)
               = FlattenSeq([n \in DOMAIN q |-> Marked(doc, defs, q[n], name)])
        /\ GroupMarks(doc, defs, h)
               = FlattenSeq([n \in DOMAIN r |-> Marked(doc, defs, r[n], name)])
    <2> HIDE DEF h, r
    <2> QED
      BY <1>2 DEF GroupMarks, Marked
  <1> HIDE DEF q, name, h
  <1>4. /\ L \in Nat /\ DOMAIN q = 1..L /\ r \in Seq(Els) /\ DOMAIN r = 1..(L + 1)
        /\ r[L + 1] = el /\ \A n \in 1..L : r[n] = q[n]
    BY <1>1
  <1> HIDE DEF r, L
  <1>5. \A n \in 1..(L + 1) : m[n] \in Seq(S)
    <2>1. \A n \in 1..(L + 1) : r[n] \in Els
      BY <1>4, ElementOfSeq
    <2> QED
      BY <1>1, <2>1 DEF MarksIn
  <1>6. m[L + 1] = Marked(doc, defs, el, name)
    BY <1>4
  <1>7. [n \in 1..L |-> m[n]] = [n \in DOMAIN q |-> Marked(doc, defs, q[n], name)]
    <2>1. \A n \in 1..L : m[n] = Marked(doc, defs, q[n], name)
      BY <1>4
    <2> HIDE DEF m
    <2> QED
      BY <1>4, <2>1, Zenon
  <1>8. [n \in 1..(L + 1) |-> m[n]] = [n \in DOMAIN r |-> Marked(doc, defs, r[n], name)]
    BY <1>4
  <1> HIDE DEF m
  <1>9. FlattenSeq([n \in 1..(L + 1) |-> m[n]])
            = FlattenSeq([n \in 1..L |-> m[n]]) \o m[L + 1]
    BY <1>4, <1>5, FlattenSeqPrefix
  <1> QED
    BY <1>2, <1>3, <1>6, <1>7, <1>8, <1>9 DEF PaintsMore, name, h

LEMMA PaintedTyped ==
    ASSUME NEW doc, NEW defs, NEW Els, NEW Names, NEW S,
           MarksIn(doc, defs, Els, Names, S), NEW gs \in Seq(GroupSet(Els, Names))
    PROVE  Painted(doc, defs, gs) \in Seq(S)
  <1>1. \A n \in DOMAIN gs : GroupMarks(doc, defs, gs[n]) \in Seq(S)
    <2>1. \A n \in DOMAIN gs : gs[n] \in GroupSet(Els, Names)
      BY ElementOfSeq
    <2> QED
      BY <2>1, GroupMarksTyped
  <1>2. [n \in DOMAIN gs |-> GroupMarks(doc, defs, gs[n])] \in Seq(Seq(S))
    BY <1>1
  <1> QED
    BY <1>2, FlattenSeqSequence DEF Painted

(* A group that is opened paints nothing.                                  *)
LEMMA PaintedOpened ==
    ASSUME NEW doc, NEW defs, NEW Els, NEW Names, NEW S,
           MarksIn(doc, defs, Els, Names, S), NEW gs \in Seq(GroupSet(Els, Names)),
           NEW name \in Names
    PROVE  LET hs == Append(gs, Group(name)) IN
             /\ hs \in Seq(GroupSet(Els, Names)) /\ hs # <<>>
             /\ hs[Len(hs)].clip = name
             /\ Painted(doc, defs, hs) = Painted(doc, defs, gs)
  <1> DEFINE g == Group(name)
             L == Len(gs)
             hs == Append(gs, g)
             m == [n \in 1..(L + 1) |-> GroupMarks(doc, defs, hs[n])]
             GS == GroupSet(Els, Names)
  <1>1. g \in GS /\ g.clip = name
    <2>1. <<>> \in Seq(Els)
      OBVIOUS
    <2> QED
      BY <2>1 DEF Group, GroupSet
  <1>2. GroupMarks(doc, defs, g) = <<>>
    BY GroupMarksEmpty
  <1>9. \A h \in GS : GroupMarks(doc, defs, h) \in Seq(S)
    BY GroupMarksTyped
  <1> HIDE DEF g, GS
  <1>3. /\ L \in Nat /\ DOMAIN gs = 1..L /\ hs \in Seq(GS) /\ DOMAIN hs = 1..(L + 1)
        /\ Len(hs) = L + 1 /\ hs # <<>>
        /\ hs[L + 1] = g /\ \A n \in 1..L : hs[n] = gs[n]
    BY <1>1 DEF GS
  <1> HIDE DEF hs, L
  <1>4. \A n \in 1..(L + 1) : m[n] \in Seq(S)
    <2>1. \A n \in 1..(L + 1) : hs[n] \in GS
      BY <1>3, ElementOfSeq
    <2> QED
      BY <1>9, <2>1
  <1>5. m[L + 1] = <<>>
    BY <1>2, <1>3
  <1>6. [n \in 1..L |-> m[n]] = [n \in DOMAIN gs |-> GroupMarks(doc, defs, gs[n])]
    <2>1. \A n \in 1..L : m[n] = GroupMarks(doc, defs, gs[n])
      BY <1>3
    <2> HIDE DEF m
    <2> QED
      BY <1>3, <2>1, Zenon
  <1>7. [n \in 1..(L + 1) |-> m[n]] = [n \in DOMAIN hs |-> GroupMarks(doc, defs, hs[n])]
    BY <1>3
  <1> HIDE DEF m
  <1>8. /\ FlattenSeq([n \in 1..(L + 1) |-> m[n]])
               = FlattenSeq([n \in 1..L |-> m[n]]) \o m[L + 1]
        /\ FlattenSeq([n \in 1..L |-> m[n]]) \in Seq(S)
    BY <1>3, <1>4, FlattenSeqPrefix
  <1> DEFINE f == FlattenSeq([n \in 1..L |-> m[n]])
  <1> HIDE DEF f
  <1>10. f \o <<>> = f
    BY <1>8 DEF f
  <1>11. Painted(doc, defs, hs) = Painted(doc, defs, gs)
    BY <1>5, <1>6, <1>7, <1>8, <1>10 DEF Painted, f
  <1> QED
    BY <1>1, <1>3, <1>11 DEF hs, g, GS

(* An element that is added to the last group is painted last.             *)
WithLast(gs, el) == [gs EXCEPT ![Len(gs)].elements = Append(@, el)]

PaintsLast(doc, defs, Els, Names, gs, el) ==
    LET hs == WithLast(gs, el) IN
    /\ hs \in Seq(GroupSet(Els, Names)) /\ hs # <<>>
    /\ hs[Len(hs)].clip = gs[Len(gs)].clip
    /\ Painted(doc, defs, hs)
           = Painted(doc, defs, gs) \o Marked(doc, defs, el, gs[Len(gs)].clip)

LEMMA PaintedMore ==
    ASSUME NEW doc, NEW defs, NEW Els, NEW Names, NEW S,
           MarksIn(doc, defs, Els, Names, S), NEW gs \in Seq(GroupSet(Els, Names)),
           gs # <<>>, NEW el \in Els
    PROVE  PaintsLast(doc, defs, Els, Names, gs, el)
  <1> DEFINE GS == GroupSet(Els, Names)
             N == Len(gs)
             g == gs[N]
             h == WithElement(g, el)
             hs == WithLast(gs, el)
             M(q) == [n \in DOMAIN q |-> GroupMarks(doc, defs, q[n])]
             x == Marked(doc, defs, el, g.clip)
  <1>1. N \in Nat \ {0} /\ DOMAIN gs = 1..N /\ N \in 1..N
    OBVIOUS
  <1>2. g \in GS
    BY <1>1, ElementOfSeq
  <1>3. h \in GS /\ h.clip = g.clip /\ GroupMarks(doc, defs, h) = GroupMarks(doc, defs, g) \o x
    <2>1. g \in GroupSet(Els, Names)
      BY <1>2
    <2> HIDE DEF g, GS
    <2>2. PaintsMore(doc, defs, Els, Names, g, el)
      BY <2>1, GroupMarksMore
    <2> QED
      BY <2>2 DEF GS, PaintsMore
  <1>4. x \in Seq(S)
    <2>1. g.clip \in Names
      BY <1>2 DEF GroupSet
    <2> QED
      BY <2>1 DEF MarksIn
  <1>5. \A k \in GS : GroupMarks(doc, defs, k) \in Seq(S)
    BY GroupMarksTyped
  <1>6. hs = [gs EXCEPT ![N] = h]
    BY DEF WithElement, WithLast
  <1> HIDE DEF GS, g, h, x
  <1>7. /\ hs \in Seq(GS) /\ Len(hs) = N /\ DOMAIN hs = 1..N /\ hs[N] = h /\ hs # <<>>
        /\ \A n \in 1..(N - 1) : hs[n] = gs[n]
    <2>1. gs \in Seq(GS)
      BY DEF GS
    <2> HIDE DEF hs, N
    <2>2. hs = [n \in 1..N |-> IF n = N THEN h ELSE gs[n]]
      BY <1>1, <1>6, <2>1
    <2>3. \A n \in 1..N : gs[n] \in GS
      BY <1>1, <2>1, ElementOfSeq DEF N
    <2>4. \A n \in 1..N : (IF n = N THEN h ELSE gs[n]) \in GS
      BY <1>3, <2>3
    <2>5. hs \in Seq(GS) /\ Len(hs) = N
      BY <1>1, <2>2, <2>4
    <2> QED
      BY <1>1, <2>2, <2>5
  <1>8. gs \in Seq(GS)
    BY DEF GS
  <1> DEFINE a == M(gs)
             b == M(hs)
             K == N - 1
  <1>9. K \in Nat /\ K + 1 = N
    BY <1>1
  <1> HIDE DEF hs, N
  <1>10. /\ \A n \in 1..N : a[n] = GroupMarks(doc, defs, gs[n]) /\ a[n] \in Seq(S)
         /\ a = [n \in 1..N |-> a[n]]
    <2>1. \A n \in 1..N : gs[n] \in GS
      BY <1>1, <1>8, ElementOfSeq DEF N
    <2> QED
      BY <1>1, <1>5, <2>1
  <1>11. /\ \A n \in 1..N : b[n] = GroupMarks(doc, defs, hs[n]) /\ b[n] \in Seq(S)
         /\ b = [n \in 1..N |-> b[n]]
    <2>1. \A n \in 1..N : hs[n] \in GS
      BY <1>7, ElementOfSeq
    <2> QED
      BY <1>5, <1>7, <2>1
  <1>12. Painted(doc, defs, gs) = FlattenSeq(a) /\ Painted(doc, defs, hs) = FlattenSeq(b)
    BY DEF Painted
  <1> HIDE DEF a, b, K
  <1>13. /\ FlattenSeq([n \in 1..(K + 1) |-> a[n]])
                = FlattenSeq([n \in 1..K |-> a[n]]) \o a[K + 1]
         /\ FlattenSeq([n \in 1..K |-> a[n]]) \in Seq(S)
    BY <1>9, <1>10, FlattenSeqPrefix
  <1>14. FlattenSeq([n \in 1..(K + 1) |-> b[n]])
                = FlattenSeq([n \in 1..K |-> b[n]]) \o b[K + 1]
    BY <1>9, <1>11, FlattenSeqPrefix
  <1>15. [n \in 1..K |-> a[n]] = [n \in 1..K |-> b[n]]
    <2>1. \A n \in 1..K : n \in 1..N /\ n \in 1..(N - 1)
      BY <1>9
    <2>2. \A n \in 1..K : a[n] = b[n]
      BY <1>7, <1>10, <1>11, <2>1
    <2> QED
      BY <2>2, Zenon
  <1> DEFINE f == FlattenSeq([n \in 1..K |-> a[n]])
             y == GroupMarks(doc, defs, g)
  <1>16. FlattenSeq(a) = f \o y /\ FlattenSeq(b) = f \o (y \o x)
    <2>1. a[N] = y
      BY <1>1, <1>10 DEF g
    <2>2. b[N] = y \o x
      BY <1>1, <1>3, <1>7, <1>11
    <2> HIDE DEF f, y
    <2>3. FlattenSeq(a) = FlattenSeq([n \in 1..K |-> a[n]]) \o a[N]
      BY <1>9, <1>10, <1>13
    <2>4. FlattenSeq(b) = FlattenSeq([n \in 1..K |-> b[n]]) \o b[N]
      BY <1>9, <1>11, <1>14
    <2> QED
      BY <1>15, <2>1, <2>2, <2>3, <2>4 DEF f
  <1>17. f \in Seq(S) /\ y \in Seq(S)
    BY <1>2, <1>5, <1>13
  <1> HIDE DEF f, y
  <1>18. f \o (y \o x) = (f \o y) \o x
    BY <1>4, <1>17
  <1>19. Painted(doc, defs, hs) = Painted(doc, defs, gs) \o x
    BY <1>12, <1>16, <1>18
  <1> QED
    BY <1>3, <1>7, <1>19 DEF PaintsLast, hs, N, x, g, GS

(* What the groups so far paint, and that the last one is that of the clip *)
(* that was written last.                                                  *)
GroupsPaint(doc, defs, Els, Names, names, acc, marks) ==
    /\ acc.groups \in Seq(GroupSet(Els, Names)) /\ acc.groups # <<>>
    /\ acc.groups[Len(acc.groups)].clip = names[acc.last]
    /\ Painted(doc, defs, acc.groups) = marks

LEMMA GroupsStepPaints ==
    ASSUME NEW doc, NEW defs, NEW Els, NEW Names, NEW S,
           MarksIn(doc, defs, Els, Names, S), NEW names, NEW acc, NEW marks,
           GroupsPaint(doc, defs, Els, Names, names, acc, marks),
           NEW e, e.element \in Els, e.name \in Names, e.name = names[e.clip]
    PROVE  GroupsPaint(doc, defs, Els, Names, names, GroupsStep(acc, e),
                       marks \o Marked(doc, defs, e.element, e.name))
  <1> DEFINE gs == acc.groups
             el == e.element
             name == e.name
             GS == GroupSet(Els, Names)
             opened == IF e.clip = acc.last THEN gs ELSE Append(gs, Group(name))
             hs == WithLast(opened, el)
             r == GroupsStep(acc, e)
  <1>1. r.last = e.clip /\ r.groups = hs
    BY DEF GroupsStep, WithLast
  <1>2. /\ gs \in Seq(GS) /\ gs # <<>> /\ gs[Len(gs)].clip = names[acc.last]
        /\ Painted(doc, defs, gs) = marks
    BY DEF GroupsPaint
  <1> HIDE DEF r, hs, gs, GS
  <1>3. /\ opened \in Seq(GS) /\ opened # <<>> /\ opened[Len(opened)].clip = name
        /\ Painted(doc, defs, opened) = marks
    <2>1. CASE e.clip = acc.last
      BY <1>2, <2>1
    <2>2. CASE e.clip # acc.last
      <3> DEFINE os == Append(gs, Group(name))
      <3>1. /\ os \in Seq(GS) /\ os # <<>> /\ os[Len(os)].clip = name
            /\ Painted(doc, defs, os) = Painted(doc, defs, gs)
        BY <1>2, PaintedOpened DEF GS
      <3> HIDE DEF os
      <3>2. opened = os
        BY <2>2 DEF os
      <3> HIDE DEF opened
      <3> QED
        BY <1>2, <3>1, <3>2
    <2> QED
      BY <2>1, <2>2
  <1> HIDE DEF opened
  <1>4. /\ hs \in Seq(GS) /\ hs # <<>> /\ hs[Len(hs)].clip = opened[Len(opened)].clip
        /\ Painted(doc, defs, hs)
               = Painted(doc, defs, opened) \o Marked(doc, defs, el, opened[Len(opened)].clip)
    <2>1. el \in Els /\ opened \in Seq(GroupSet(Els, Names)) /\ opened # <<>>
      BY <1>3 DEF GS
    <2> HIDE DEF el
    <2>2. PaintsLast(doc, defs, Els, Names, opened, el)
      BY <2>1, PaintedMore
    <2> QED
      BY <2>2 DEF GS, hs, PaintsLast
  <1> QED
    BY <1>1, <1>3, <1>4 DEF GroupsPaint, r, GS

Few(q) == q \in Seq({q[k] : k \in {1, 2}})

LEMMA ElementMarksFew ==
    ASSUME NEW doc, NEW el, NEW clips
    PROVE  Few(ElementMarks(doc, el, clips))
  <1> DEFINE q == ElementMarks(doc, el, clips)
  <1>1. ASSUME NEW a, q = <<a>> PROVE q \in Seq({q[k] : k \in {1, 2}})
    <2> HIDE DEF q
    <2>1. q[1] = a
      BY <1>1
    <2>2. a \in {q[k] : k \in {1, 2}}
      BY <2>1
    <2> QED
      BY <1>1, <2>2
  <1>2. ASSUME NEW a, NEW b, q = <<a, b>> PROVE q \in Seq({q[k] : k \in {1, 2}})
    <2> HIDE DEF q
    <2>1. q[1] = a /\ q[2] = b
      BY <1>2
    <2>2. a \in {q[k] : k \in {1, 2}} /\ b \in {q[k] : k \in {1, 2}}
      BY <2>1
    <2> QED
      BY <1>2, <2>2
  <1>3. (\E a : q = <<a>>) \/ (\E a, b : q = <<a, b>>)
    <2>1. CASE el.tag = "text"
      BY <2>1 DEF ElementMarks
    <2>2. CASE el.tag = "raster"
      BY <2>2 DEF ElementMarks
    <2>3. CASE el.tag # "text" /\ el.tag # "raster"
      BY <2>3 DEF ElementMarks, Paint
    <2> QED
      BY <2>1, <2>2, <2>3
  <1> HIDE DEF q
  <1>4. CASE \E a : q = <<a>>
    <2>1. PICK a : q = <<a>>
      BY <1>4
    <2> QED
      BY <1>1, <2>1 DEF Few, q
  <1>5. CASE \E a, b : q = <<a, b>>
    <2>1. PICK a, b : q = <<a, b>>
      BY <1>5
    <2> QED
      BY <1>2, <2>1 DEF Few, q
  <1> QED
    BY <1>3, <1>4, <1>5

(* However they are grouped, the marks of the elements come in order, each *)
(* in the clip path whose name it was written with.                        *)
LEMMA GroupsPainted ==
    ASSUME NEW doc, NEW defs, NEW p, NEW elements, NEW names, NEW N \in Nat,
           DOMAIN p.dcs = 1..N
    PROVE  Painted(doc, defs, Groups(p, elements, names))
               = FlattenSeq([n \in 1..N |->
                                Marked(doc, defs, elements[n], names[p.dcs[n].clip])])
  <1> DEFINE first == Head(p.cps).id
             entry(n) == [clip |-> p.dcs[n].clip, name |-> names[p.dcs[n].clip],
                          element |-> elements[n]]
             es == [n \in 1..N |-> entry(n)]
             base == [last |-> first, groups |-> <<Group(names[first])>>]
             Els == {elements[n] : n \in 1..N}
             Names == {names[first]} \cup {names[p.dcs[n].clip] : n \in 1..N}
             S == {Marked(doc, defs, s[1], s[2])[s[3]] : s \in Els \X Names \X {1, 2}}
             m == [n \in 1..N |-> Marked(doc, defs, elements[n], names[p.dcs[n].clip])]
             E == {entry(n) : n \in 1..N}
             At(n) == Painting!Fold(base, SubSeq(es, 1, n))
             P(n) == GroupsPaint(doc, defs, Els, Names, names, At(n),
                                 FlattenSeq([k \in 1..n |-> m[k]]))
             T == {n \in Nat : n <= N => P(n)}
  <1>1. Groups(p, elements, names) = Painting!Fold(base, es).groups
    <2>1. es = [n \in DOMAIN p.dcs |-> entry(n)]
      OBVIOUS
    <2> HIDE DEF es, base
    <2> QED
      BY <2>1, GroupsFold DEF base
  <1>2. MarksIn(doc, defs, Els, Names, S)
    <2> SUFFICES ASSUME NEW el \in Els, NEW name \in Names
                 PROVE  Marked(doc, defs, el, name) \in Seq(S)
      BY DEF MarksIn
    <2> HIDE DEF Els, Names
    <2> DEFINE q == Marked(doc, defs, el, name)
               R == {q[k] : k \in {1, 2}}
    <2>1. q \in Seq(R)
      <3> DEFINE clips == {ClipBox(defs, name)}
      <3>1. q = ElementMarks(doc, el, clips)
        BY DEF Marked
      <3> HIDE DEF q, clips
      <3>2. Few(q)
        BY <3>1, ElementMarksFew
      <3> QED
        BY <3>2 DEF Few
    <2>2. \A s \in R : s \in S
      <3> SUFFICES ASSUME NEW k \in {1, 2} PROVE q[k] \in S
        OBVIOUS
      <3> DEFINE t == <<el, name, k>>
      <3>1. t \in Els \X Names \X {1, 2} /\ t[1] = el /\ t[2] = name /\ t[3] = k
        OBVIOUS
      <3> HIDE DEF t
      <3> QED
        BY <3>1
    <2> HIDE DEF q, R, S
    <2> QED
      BY <2>1, <2>2, ElementOfSeq DEF q
  <1>3. /\ \A n \in 1..N : /\ es[n] \in E /\ es[n].element = elements[n]
                           /\ es[n].name = names[es[n].clip] /\ es[n].clip = p.dcs[n].clip
                           /\ es[n].element \in Els /\ es[n].name \in Names
                           /\ m[n] = Marked(doc, defs, es[n].element, es[n].name)
        /\ es \in Seq(E) /\ Len(es) = N
    <2>1. ASSUME NEW n \in 1..N
          PROVE  /\ es[n] \in E /\ es[n].element = elements[n]
                 /\ es[n].name = names[es[n].clip] /\ es[n].clip = p.dcs[n].clip
                 /\ es[n].element \in Els /\ es[n].name \in Names
                 /\ m[n] = Marked(doc, defs, es[n].element, es[n].name)
      OBVIOUS
    <2>2. es \in Seq(E) /\ Len(es) = N
      <3> HIDE DEF entry
      <3> QED
        OBVIOUS
    <2> QED
      BY <2>1, <2>2
  <1>4. 0 \in T
    <2>1. SubSeq(es, 1, 0) = <<>>
      BY <1>3 DEF SubSeq
    <2>2. At(0) = base
      BY <2>1, Painting!FoldEmpty
    <2>3. FlattenSeq([k \in 1..0 |-> m[k]]) = <<>>
      <3>1. [k \in 1..0 |-> m[k]] = <<>>
        OBVIOUS
      <3> QED
        BY <3>1, FlattenSeqEmpty, Zenon
    <2> DEFINE g == Group(names[first])
               gs == <<g>>
    <2>4. g \in GroupSet(Els, Names) /\ g.clip = names[first]
      <3>1. <<>> \in Seq(Els) /\ names[first] \in Names
        OBVIOUS
      <3> HIDE DEF Els, Names
      <3> QED
        BY <3>1 DEF Group, GroupSet
    <2>5. Painted(doc, defs, gs) = <<>>
      <3>1. GroupMarks(doc, defs, g) = <<>>
        BY GroupMarksEmpty
      <3> HIDE DEF g
      <3>2. [k \in DOMAIN gs |-> GroupMarks(doc, defs, gs[k])] = <<<<>>>>
        BY <3>1
      <3>3. <<>> \in Seq({}) 
        OBVIOUS
      <3>4. FlattenSeq(<<<<>>>>) = <<>>
        BY <3>3, FlattenSeqOne, Zenon
      <3> QED
        BY <3>2, <3>4 DEF Painted
    <2> HIDE DEF g, Els, Names
    <2>6. gs \in Seq(GroupSet(Els, Names)) /\ gs # <<>> /\ gs[Len(gs)] = g
      BY <2>4
    <2>7. base.last = first /\ base.groups = gs
      BY DEF g
    <2> HIDE DEF base, gs, m, first
    <2>8. GroupsPaint(doc, defs, Els, Names, names, base, <<>>)
      BY <2>4, <2>5, <2>6, <2>7 DEF GroupsPaint
    <2> HIDE DEF At
    <2>9. P(0)
      BY <2>2, <2>3, <2>8
    <2> HIDE DEF P
    <2> QED
      BY <2>9
  <1> HIDE DEF Els, Names, S, E, base
  <1>5. ASSUME NEW n \in Nat, n \in T PROVE n + 1 \in T
    <2> SUFFICES ASSUME n + 1 <= N PROVE P(n + 1)
      OBVIOUS
    <2>1. P(n) /\ n < Len(es) /\ n + 1 \in 1..N
      BY <1>3, <1>5
    <2> DEFINE q == SubSeq(es, 1, n)
               e == es[n + 1]
               acc == At(n)
               F(k) == FlattenSeq([j \in 1..k |-> m[j]])
    <2>2. q \in Seq(E) /\ e \in E /\ SubSeq(es, 1, n + 1) = Append(q, e)
      <3> HIDE DEF es
      <3> QED
        BY <1>3, <2>1, FirstAppend
    <2>3. At(n + 1) = GroupsStep(acc, e)
      <3>1. acc = Painting!Fold(base, q) /\ At(n + 1) = Painting!Fold(base, Append(q, e))
        BY <2>2
      <3> HIDE DEF q, e, At, acc
      <3>2. Painting!Fold(base, Append(q, e)) = GroupsStep(Painting!Fold(base, q), e)
        BY <2>2, Painting!FoldAppend
      <3> QED
        BY <3>1, <3>2
    <2>4. /\ e.element \in Els /\ e.name \in Names /\ e.name = names[e.clip]
          /\ m[n + 1] = Marked(doc, defs, e.element, e.name)
      BY <1>3, <2>1
    <2> HIDE DEF es, e, At
    <2>5. F(n + 1) = F(n) \o m[n + 1]
      <3>1. \A k \in 1..(n + 1) : m[k] \in Seq(S)
        <4>1. \A k \in 1..(n + 1) : k \in 1..N
          BY <2>1
        <4>2. \A k \in 1..(n + 1) : /\ m[k] = Marked(doc, defs, es[k].element, es[k].name)
                                    /\ es[k].element \in Els /\ es[k].name \in Names
          BY <1>3, <4>1
        <4> HIDE DEF m
        <4> QED
          BY <1>2, <4>2 DEF MarksIn
      <3> HIDE DEF m
      <3> QED
        BY <3>1, FlattenSeqPrefix
    <2> HIDE DEF F, acc
    <2>6. GroupsPaint(doc, defs, Els, Names, names, acc, F(n))
      BY <2>1 DEF F, acc
    <2>7. GroupsPaint(doc, defs, Els, Names, names, GroupsStep(acc, e),
                      F(n) \o Marked(doc, defs, e.element, e.name))
      BY <1>2, <2>4, <2>6, GroupsStepPaints
    <2> HIDE DEF m
    <2> QED
      BY <2>3, <2>4, <2>5, <2>7 DEF F
  <1> HIDE DEF T
  <1>6. Nat \subseteq T
    BY <1>4, <1>5, SetInduction
  <1>7. P(N)
    BY <1>6 DEF T
  <1>8. SubSeq(es, 1, N) = es
    <2> HIDE DEF es
    <2> QED
      BY <1>3
  <1>9. [k \in 1..N |-> m[k]] = m
    OBVIOUS
  <1> HIDE DEF es, m
  <1>10. Painted(doc, defs, Painting!Fold(base, es).groups) = FlattenSeq(m)
    BY <1>7, <1>8, <1>9 DEF GroupsPaint
  <1> QED
    BY <1>1, <1>10 DEF m

----------------------------------------------------------------------------
(* The background and the clip paths.                                      *)

(* A rectangle without a border.                                           *)
LEMMA BackdropMarks ==
    ASSUME NEW doc, NEW el, el.tag = "rect", NEW p, NEW d, NEW col \in Color,
           \A x \in Props : Computed(doc, el)[x] = Get(p, x, d[x]),
           d.fillOpacity = 255, d.fillRule = "nonzero",
           Get(p, "stroke", d.stroke) = "none", Fills(p, col, d.fill),
           Get(p, "fillRule", "nonzero") = "nonzero"
    PROVE  Visible(ElementMarks(doc, el, {}))
               = Visible(<<FillMark(el.area, col, "nonzero", {})>>)
  <1> DEFINE c == Computed(doc, el)
             f == ColorOf(c.fill, c.fillOpacity)
             s == ColorOf(c.stroke, c.strokeOpacity)
             pen == Pen(c.dash, c.cap, c.join, c.limit)
             a == FillMark(el.area, f, c.fillRule, {})
             b == StrokeMark(el.area, s, pen, {})
             m == FillMark(el.area, col, "nonzero", {})
  <1>1. ElementMarks(doc, el, {}) = <<a, b>>
    BY DEF ElementMarks, Paint
  <1>2. /\ c.fill = Get(p, "fill", d.fill) /\ c.fillOpacity = Get(p, "fillOpacity", 255)
        /\ c.fillRule = "nonzero" /\ c.stroke = "none"
    BY DEF Props
  <1>3. a.do = "fill" /\ a.col = f /\ b.do = "stroke" /\ b.col = s /\ m.do = "fill" /\ m.col = col
    BY MarkFields
  <1>4. Transparent(s)
    <2> HIDE DEF c
    <2> QED
      BY <1>2 DEF ColorOf, NoColor, Transparent
  <1>5. (Transparent(f) /\ Transparent(col)) \/ f = col
    <2> HIDE DEF c
    <2>1. col.rgb # "none" /\ col = [rgb |-> col.rgb, alpha |-> col.alpha]
      BY DEF Color
    <2>2. CASE Transparent(col)
      BY <1>2, <2>2 DEF Fills, ColorOf, NoColor, Transparent
    <2>3. CASE ~Transparent(col)
      BY <1>2, <2>1, <2>3 DEF Fills, ColorOf
    <2> QED
      BY <2>2, <2>3
  <1>6. f = col => a = m
    BY <1>2
  <1> HIDE DEF a, b, m, f, s
  <1>7. Seen(a) = Seen(m) /\ Seen(b) = <<>>
    BY <1>3, <1>4, <1>5, <1>6 DEF Seen
  <1>8. Seen(a) \o <<>> = Seen(a)
    <2>1. Seen(a) \in Seq({a})
      BY SeenTyped
    <2> HIDE DEF Seen
    <2> QED
      BY <2>1
  <1>9. Visible(<<a, b>>) = Seen(a) \o Seen(b) /\ Visible(<<m>>) = Seen(m)
    BY VisibleTwo, VisibleOne
  <1> QED
    BY <1>1, <1>7, <1>8, <1>9 DEF m

LEMMA BackdropArea ==
    ASSUME NEW p, p.size \in Size
    PROVE  LET g == Backdrop(p) IN
             /\ g.tag = "rect" /\ g.style = Unset /\ g.atts = Unset /\ DOMAIN g = Fields
             /\ \A col : FillMark(g.area, col, "nonzero", {}) = Background(p.size, col)
  <1> DEFINE g == Backdrop(p)
             area == <<BoxOf(<<0, 0>> \o p.size)>>
             el == [[Element EXCEPT !.tag = "rect"] EXCEPT !.area = area]
  <1>1. g = el
    BY DEF Backdrop
  <1>2. /\ el.tag = "rect" /\ el.area = area /\ el.style = Unset /\ el.atts = Unset
        /\ DOMAIN el = Fields
    <2> HIDE DEF area
    <2> QED
      BY SetArea, Zenon
  <1>3. area = <<Box(0, 0, p.size[1], p.size[2])>>
    <2>1. RectOfClip(Full(p.size)) = <<0, 0>> \o p.size
      BY DEF Full, RectOfClip
    <2>2. BoxOf(RectOfClip(Full(p.size))) = Box(0, 0, p.size[1], p.size[2])
      BY FullBox DEF PageBox
    <2> QED
      BY <2>1, <2>2
  <1> HIDE DEF area, el, g
  <1> QED
    BY <1>1, <1>2, <1>3 DEF Background, g

(* The clip path that a name stands for.                                   *)
OnlyName(defs, a, m, id, name) ==
    /\ Len(defs) = a + m
    /\ \A k \in 1..a : defs[k].id # name
    /\ \A k \in 1..m : defs[a + k].id = name <=> k = id + 1

LEMMA ClipBoxAt ==
    ASSUME NEW defs, NEW a \in Nat, NEW m \in Nat, NEW id \in 0..(m - 1), NEW name,
           OnlyName(defs, a, m, id, name)
    PROVE  ClipBox(defs, name) = BoxOf(defs[a + (id + 1)].rect)
  <1> USE DEF OnlyName
  <1> DEFINE I == {i \in 1..Len(defs) : defs[i].id = name}
             n == a + (id + 1)
  <1>1. n \in 1..(a + m) /\ id + 1 \in 1..m
    OBVIOUS
  <1>2. \A i \in 1..(a + m) : defs[i].id = name <=> i = n
    <2> TAKE i \in 1..(a + m)
    <2>1. CASE i <= a
      <3>1. i \in 1..a /\ i # n
        BY <2>1
      <3> QED
        BY <3>1
    <2>2. CASE ~(i <= a)
      <3>1. PICK k \in 1..m : i = a + k
        <4>1. i - a \in 1..m /\ i = a + (i - a)
          BY <2>2
        <4> QED
          BY <4>1
      <3>2. defs[a + k].id = name <=> k = id + 1
        OBVIOUS
      <3>3. k = id + 1 <=> i = n
        BY <3>1
      <3> QED
        BY <3>1, <3>2, <3>3
    <2> QED
      BY <2>1, <2>2
  <1>3. I = {n}
    <2> HIDE DEF n
    <2> QED
      BY <1>1, <1>2, Zenon
  <1>4. SelectInSeq(defs, LAMBDA d : d.id = name) = IF I # {} THEN Min(I) ELSE 0
    BY DEF SelectInSeq
  <1> HIDE DEF I
  <1>5. Min({n}) = n
    BY <1>1 DEF Min
  <1> HIDE DEF n
  <1>6. SelectInSeq(defs, LAMBDA d : d.id = name) = n
    BY <1>3, <1>4, <1>5
  <1> QED
    BY <1>6 DEF ClipBox, n

----------------------------------------------------------------------------
(* Documents.                                                              *)

LEMMA AskedMarksFew ==
    ASSUME NEW call, NEW clip
    PROVE  Few(AskedMarks(call, clip))
  <1> DEFINE q == AskedMarks(call, clip)
  <1>1. ASSUME NEW a, q = <<a>> PROVE Few(q)
    <2> HIDE DEF q
    <2>1. q[1] = a
      BY <1>1
    <2>2. a \in {q[k] : k \in {1, 2}}
      BY <2>1
    <2> QED
      BY <1>1, <2>2 DEF Few
  <1>2. ASSUME NEW a, NEW b, q = <<a, b>> PROVE Few(q)
    <2> HIDE DEF q
    <2>1. q[1] = a /\ q[2] = b
      BY <1>2
    <2>2. a \in {q[k] : k \in {1, 2}} /\ b \in {q[k] : k \in {1, 2}}
      BY <2>1
    <2> QED
      BY <1>2, <2>2 DEF Few
  <1>3. (\E a : q = <<a>>) \/ (\E a, b : q = <<a, b>>)
    <2>1. CASE call.kind = "text"
      BY <2>1 DEF AskedMarks
    <2>2. CASE call.kind = "raster"
      BY <2>2 DEF AskedMarks
    <2>3. CASE call.kind # "text" /\ call.kind # "raster"
      BY <2>3 DEF AskedMarks, Paint
    <2> QED
      BY <2>1, <2>2, <2>3
  <1> HIDE DEF q
  <1>4. CASE \E a : q = <<a>>
    <2>1. PICK a : q = <<a>>
      BY <1>4
    <2> QED
      BY <1>1, <2>1 DEF q
  <1>5. CASE \E a, b : q = <<a, b>>
    <2>1. PICK a, b : q = <<a, b>>
      BY <1>5
    <2> QED
      BY <1>2, <2>1 DEF q
  <1> QED
    BY <1>3, <1>4, <1>5

(* What is visible of a background and of what comes on it.                *)
LEMMA VisibleOnBackground ==
    ASSUME NEW a, Few(a), NEW m, NEW N \in Nat, \A n \in 1..N : Few(m[n])
    PROVE  Visible(a \o FlattenSeq([n \in 1..N |-> m[n]]))
               = Visible(a) \o FlattenSeq([n \in 1..N |-> Visible(m[n])])
  <1> DEFINE A == {a[k] : k \in {1, 2}}
             B == {m[s[1]][s[2]] : s \in (1..N) \X {1, 2}}
             S == A \cup B
             f == FlattenSeq([n \in 1..N |-> m[n]])
  <1>1. a \in Seq(S)
    <2>1. a \in Seq(A)
      BY DEF Few
    <2>2. \A x \in A : x \in S
      OBVIOUS
    <2> HIDE DEF A, S
    <2> QED
      BY <2>1, <2>2, ElementOfSeq
  <1>2. \A n \in 1..N : m[n] \in Seq(S)
    <2> TAKE n \in 1..N
    <2> DEFINE q == m[n]
               R == {q[k] : k \in {1, 2}}
    <2>1. q \in Seq(R)
      BY DEF Few
    <2>2. \A x \in R : x \in S
      <3> SUFFICES ASSUME NEW k \in {1, 2} PROVE m[n][k] \in B
        OBVIOUS
      <3> DEFINE t == <<n, k>>
      <3>1. t \in (1..N) \X {1, 2} /\ t[1] = n /\ t[2] = k
        OBVIOUS
      <3> HIDE DEF t
      <3> QED
        BY <3>1
    <2> HIDE DEF q, R, S
    <2>3. q \in Seq(S)
      BY <2>1, <2>2, ElementOfSeq
    <2> QED
      BY <2>3 DEF q
  <1> HIDE DEF S
  <1>3. /\ Visible(f) = FlattenSeq([n \in 1..N |-> Visible(m[n])])
        /\ f \in Seq(S)
    BY <1>2, VisibleFlatten
  <1> HIDE DEF f
  <1>4. Visible(a \o f) = Visible(a) \o Visible(f)
    BY <1>1, <1>3, VisibleConcat
  <1> QED
    BY <1>3, <1>4 DEF f

(* A document shows the picture if each of its elements shows what R asked *)
(* for, each name of a clip path stands for its box, and the background is *)
(* shown.                                                                  *)
ElementsShow(doc, elements) ==
    \A n \in 1..Len(asked) : \A clip :
        Visible(ElementMarks(doc, elements[n], {clip}))
            = Visible(AskedMarks(asked[n].call, clip))

NamesStand(defs, names) ==
    \A id \in 0..(Len(page.cps) - 1) :
        ClipBox(defs, names[id]) = BoxOf(RectOfClip(page.cps[id + 1].rect))

LEMMA DocumentShows ==
    ASSUME IInv, NEW doc, NEW around, NEW elements, NEW names, NEW back,
           doc.groups = Groups(page, elements, names),
           Visible(ElementMarks(doc, doc.backdrop, {}))
               = Visible(<<Background(page.size, back)>>),
           ElementsShow(doc, elements), NamesStand(around \o doc.defs, names)
    PROVE  SvgMarks(doc, around) = Picture(back)
  <1> USE DEF ElementsShow, NamesStand
  <1> DEFINE N == Len(asked)
             defs == around \o doc.defs
             a == ElementMarks(doc, doc.backdrop, {})
             bg == <<Background(page.size, back)>>
             Id(n) == page.dcs[n].clip
             m == [n \in 1..N |-> Marked(doc, defs, elements[n], names[Id(n)])]
             k == [n \in 1..N |-> AskedMarks(asked[n].call, asked[n].clip)]
  <1>1. /\ N \in Nat /\ DOMAIN asked = 1..N /\ DOMAIN page.dcs = 1..N
        /\ \A n \in 1..N :
              /\ Id(n) \in 0..(Len(page.cps) - 1)
              /\ BoxOf(RectOfClip(page.cps[Id(n) + 1].rect)) = asked[n].clip
    <2>1. /\ asked \in Seq(AskedSet) /\ page \in PageSet /\ Len(page.dcs) = N /\ N \in Nat
          /\ \A n \in 1..N :
                /\ page.dcs[n].clip \in 0..(Len(page.cps) - 1)
                /\ BoxOf(RectOfClip(page.cps[page.dcs[n].clip + 1].rect)) = asked[n].clip
      BY ClipBoxes
    <2>2. page.dcs \in Seq(DcSet)
      BY <2>1 DEF PageSet
    <2>3. DOMAIN page.dcs = 1..N
      <3> DEFINE dcs == page.dcs
      <3>1. dcs \in Seq(DcSet) /\ Len(dcs) = N
        BY <2>1, <2>2
      <3> HIDE DEF dcs, N
      <3>2. DOMAIN dcs = 1..N
        BY <3>1
      <3> QED
        BY <3>2 DEF dcs
    <2>4. DOMAIN asked = 1..N
      BY <2>1
    <2>5. \A n \in 1..N :
              /\ Id(n) \in 0..(Len(page.cps) - 1)
              /\ BoxOf(RectOfClip(page.cps[Id(n) + 1].rect)) = asked[n].clip
      BY <2>1
    <2> HIDE DEF N, Id
    <2> QED
      BY <2>1, <2>3, <2>4, <2>5
  <1>2. SvgMarks(doc, around) = Visible(a \o Painted(doc, defs, doc.groups))
    BY DEF SvgMarks, Painted
  <1>3. Painted(doc, defs, doc.groups) = FlattenSeq(m)
    <2> HIDE DEF defs, N
    <2> QED
      BY <1>1, GroupsPainted
  <1>4. Picture(back) = Visible(bg \o FlattenSeq(k))
    BY <1>1 DEF Picture, PictureOf
  <1>5. \A n \in 1..N : Visible(m[n]) = Visible(k[n])
    <2> TAKE n \in 1..N
    <2>1. ClipBox(defs, names[Id(n)]) = asked[n].clip
      BY <1>1
    <2> DEFINE clip == asked[n].clip
    <2>2. Visible(ElementMarks(doc, elements[n], {clip}))
              = Visible(AskedMarks(asked[n].call, clip))
      OBVIOUS
    <2>3. m[n] = ElementMarks(doc, elements[n], {ClipBox(defs, names[Id(n)])})
      BY DEF Marked
    <2>4. k[n] = AskedMarks(asked[n].call, clip)
      OBVIOUS
    <2> HIDE DEF m, k, Id, defs
    <2> QED
      BY <2>1, <2>2, <2>3, <2>4
  <1>6. /\ \A n \in 1..N : Few(m[n]) /\ Few(k[n])
        /\ Few(a) /\ Few(bg)
    <2>1. ASSUME NEW n \in 1..N PROVE Few(m[n])
      <3> DEFINE clips == {ClipBox(defs, names[Id(n)])}
      <3>1. m[n] = ElementMarks(doc, elements[n], clips)
        BY DEF Marked
      <3> HIDE DEF clips, m
      <3> QED
        BY <3>1, ElementMarksFew
    <2>2. ASSUME NEW n \in 1..N PROVE Few(k[n])
      <3>1. k[n] = AskedMarks(asked[n].call, asked[n].clip)
        OBVIOUS
      <3> HIDE DEF k
      <3> QED
        BY <3>1, AskedMarksFew
    <2>3. Few(a)
      <3> DEFINE none == {}
      <3>1. a = ElementMarks(doc, doc.backdrop, none)
        OBVIOUS
      <3> HIDE DEF none, a
      <3> QED
        BY <3>1, ElementMarksFew
    <2>4. Few(bg)
      <3> DEFINE b == Background(page.size, back)
      <3>1. bg = <<b>>
        OBVIOUS
      <3> HIDE DEF b, bg
      <3>2. bg[1] = b /\ b \in {bg[j] : j \in {1, 2}}
        BY <3>1
      <3> QED
        BY <3>1, <3>2 DEF Few
    <2> QED
      BY <2>1, <2>2, <2>3, <2>4
  <1>7. /\ [n \in 1..N |-> m[n]] = m /\ [n \in 1..N |-> k[n]] = k
    OBVIOUS
  <1>8. Visible(a) = Visible(bg)
    OBVIOUS
  <1> HIDE DEF m, k, a, bg, N, defs, Id
  <1>11. N \in Nat /\ (\A n \in 1..N : Few(m[n])) /\ (\A n \in 1..N : Few(k[n]))
    BY <1>1, <1>6, Zenon
  <1>12. Few(a) /\ Few(bg)
    BY <1>6
  <1>9. /\ Visible(a \o FlattenSeq([n \in 1..N |-> m[n]]))
               = Visible(a) \o FlattenSeq([n \in 1..N |-> Visible(m[n])])
        /\ Visible(bg \o FlattenSeq([n \in 1..N |-> k[n]]))
               = Visible(bg) \o FlattenSeq([n \in 1..N |-> Visible(k[n])])
    <2>1. Visible(a \o FlattenSeq([n \in 1..N |-> m[n]]))
              = Visible(a) \o FlattenSeq([n \in 1..N |-> Visible(m[n])])
      BY <1>11, <1>12, VisibleOnBackground, Zenon
    <2>2. Visible(bg \o FlattenSeq([n \in 1..N |-> k[n]]))
              = Visible(bg) \o FlattenSeq([n \in 1..N |-> Visible(k[n])])
      BY <1>11, <1>12, VisibleOnBackground, Zenon
    <2> QED
      BY <2>1, <2>2
  <1>10. [n \in 1..N |-> Visible(m[n])] = [n \in 1..N |-> Visible(k[n])]
    BY <1>5, Zenon
  <1> QED
    BY <1>2, <1>3, <1>4, <1>7, <1>8, <1>9, <1>10

----------------------------------------------------------------------------
(* Elements of SVG documents, whatever the call.                           *)

LEMMA TextAskedMarks ==
    ASSUME NEW call, call.kind = "text", NEW clip
    PROVE  AskedMarks(call, clip) = <<TextMark(TextRecord(call), call.col, {clip})>>
  BY DEF AskedMarks, TextRecord

LEMMA CallsOfR ==
    ASSUME NEW call \in Calls
    PROVE  /\ call \in RCall
           /\ call.kind \in Shapes \/ call.kind = "text" \/ call.kind = "raster"
  BY RenderingAssumption, CallKinds DEF Shapes

LEMMA SvgElement ==
    ASSUME NEW call \in Calls, NEW doc, doc.sheet = TRUE, NEW clip
    PROVE  Visible(ElementMarks(doc, SvgVisit(DrawCall(call)), {clip}))
               = Visible(AskedMarks(call, clip))
  <1>0. call \in RCall
    BY CallsOfR
  <1>1. CASE call.kind \in Shapes
    BY <1>0, <1>1, SvgShape
  <1>2. CASE call.kind = "text"
    <2> DEFINE g == Geometry(call)
               v == IF call.col = Black THEN Unset ELSE FillOrNone(call.col)
               el == SvgVisit(call)
               clips == {clip}
    <2>1. DrawCall(call) = call
      BY <1>2, SameDrawCall
    <2>2. g.tag = "text" /\ g.atts = Unset /\ DOMAIN g = Fields
      BY <1>0, <1>2, TextGeometry
    <2>3. el = [g EXCEPT !.style = v]
      BY <1>2 DEF SvgVisit
    <2> HIDE DEF el, g, v, clips
    <2>4. el.tag = "text" /\ el.text = g.text /\ el.style = v /\ el.atts = Unset
      BY <2>2, <2>3, SetStyle
    <2>5. \A x \in Props : Computed(doc, el)[x] = Get(v, x, Initial[x])
      <3>1. el.tag \notin Shapes
        BY <2>4 DEF Shapes
      <3> QED
        BY <2>4, <3>1, ComputedText
    <2>6. Visible(ElementMarks(doc, el, clips))
              = Visible(<<TextMark(TextRecord(call), call.col, clips)>>)
      <3>1. el.text = Geometry(call).text
        BY <2>4 DEF g
      <3>2. v = IF call.col = Black THEN Unset ELSE FillOrNone(call.col)
        BY DEF v
      <3> QED
        BY <1>0, <1>2, <2>4, <2>5, <3>1, <3>2, TextMarks
    <2>7. AskedMarks(call, clip) = <<TextMark(TextRecord(call), call.col, clips)>>
      BY <1>2, TextAskedMarks DEF clips
    <2> QED
      BY <2>1, <2>6, <2>7 DEF el, clips
  <1>3. CASE call.kind = "raster"
    <2> DEFINE dc == DrawCall(call)
               g == Geometry(dc)
               el == SvgVisit(dc)
    <2>1. /\ g.tag = "raster" /\ g.area = <<BoxOf(dc.rect)>> /\ g.href = RasterBase64(dc)
          /\ g.smooth = call.interpolate /\ DOMAIN g = Fields
      BY <1>0, <1>3, RasterGeometry
    <2>2. el = [g EXCEPT !.style = Unset]
      <3>1. dc.kind = "raster"
        BY <1>0, <1>3, RasterDrawCall
      <3> QED
        BY <3>1 DEF SvgVisit
    <2>3. /\ el.tag = "raster" /\ el.area = <<BoxOf(dc.rect)>> /\ el.href = RasterBase64(dc)
          /\ el.smooth = call.interpolate
      <3> HIDE DEF el, g, dc
      <3> QED
        BY <2>1, <2>2, SetStyle
    <2>4. RasterPng(dc) \in Seq(0..255)
      BY <1>3, ImageAssumption
    <2> HIDE DEF el
    <2>5. ElementMarks(doc, el, {clip}) = AskedMarks(call, clip)
      BY <1>0, <1>3, <2>3, <2>4, RasterMarks
    <2> QED
      BY <2>5 DEF el
  <1> QED
    BY <1>1, <1>2, <1>3, CallsOfR

LEMMA PortableElement ==
    ASSUME NEW call \in Calls, NEW doc, doc.sheet = FALSE, NEW clip
    PROVE  Visible(ElementMarks(doc, PortableVisit(DrawCall(call)), {clip}))
               = Visible(AskedMarks(call, clip))
  <1>0. call \in RCall
    BY CallsOfR
  <1>1. CASE call.kind \in Shapes
    BY <1>0, <1>1, PortableShape
  <1>2. CASE call.kind = "text"
    <2> DEFINE g == Geometry(call)
               v == IF call.col = Black THEN Unset ELSE FillOrNone(call.col)
               el == PortableVisit(call)
               clips == {clip}
    <2>1. DrawCall(call) = call
      BY <1>2, SameDrawCall
    <2>2. g.tag = "text" /\ g.style = Unset /\ DOMAIN g = Fields
      BY <1>0, <1>2, TextGeometry
    <2>3. el = [g EXCEPT !.atts = v]
      BY <1>2 DEF PortableVisit
    <2> HIDE DEF el, g, v, clips
    <2>4. el.tag = "text" /\ el.text = g.text /\ el.atts = v /\ el.style = Unset
      BY <2>2, <2>3, SetStyle
    <2>5. \A x \in Props : Computed(doc, el)[x] = Get(v, x, Initial[x])
      BY <2>4, ComputedAtts
    <2>6. Visible(ElementMarks(doc, el, clips))
              = Visible(<<TextMark(TextRecord(call), call.col, clips)>>)
      <3>1. el.text = Geometry(call).text
        BY <2>4 DEF g
      <3>2. v = IF call.col = Black THEN Unset ELSE FillOrNone(call.col)
        BY DEF v
      <3> QED
        BY <1>0, <1>2, <2>4, <2>5, <3>1, <3>2, TextMarks
    <2>7. AskedMarks(call, clip) = <<TextMark(TextRecord(call), call.col, clips)>>
      BY <1>2, TextAskedMarks DEF clips
    <2> QED
      BY <2>1, <2>6, <2>7 DEF el, clips
  <1>3. CASE call.kind = "raster"
    <2> DEFINE dc == DrawCall(call)
               g == Geometry(dc)
               el == PortableVisit(dc)
    <2>1. /\ g.tag = "raster" /\ g.area = <<BoxOf(dc.rect)>> /\ g.href = RasterBase64(dc)
          /\ g.smooth = call.interpolate /\ DOMAIN g = Fields
      BY <1>0, <1>3, RasterGeometry
    <2>2. el = [g EXCEPT !.atts = Unset]
      <3>1. dc.kind = "raster"
        BY <1>0, <1>3, RasterDrawCall
      <3> QED
        BY <3>1 DEF PortableVisit
    <2>3. /\ el.tag = "raster" /\ el.area = <<BoxOf(dc.rect)>> /\ el.href = RasterBase64(dc)
          /\ el.smooth = call.interpolate
      <3> HIDE DEF el, g, dc
      <3> QED
        BY <2>1, <2>2, SetStyle
    <2>4. RasterPng(dc) \in Seq(0..255)
      BY <1>3, ImageAssumption
    <2> HIDE DEF el
    <2>5. ElementMarks(doc, el, {clip}) = AskedMarks(call, clip)
      BY <1>0, <1>3, <2>3, <2>4, RasterMarks
    <2> QED
      BY <2>5 DEF el
  <1> QED
    BY <1>1, <1>2, <1>3, CallsOfR

----------------------------------------------------------------------------
(* The background of a document and the names of its clip paths.           *)

LEMMA NoStroke ==
    LET s == [stroke |-> "none"] IN
      /\ \A d : Get(s, "stroke", d) = "none"
      /\ \A x \in FillProps : \A d : Get(s, x, d) = d
  BY DEF Get, FillProps

LEMMA SvgBackdropMarks ==
    ASSUME NEW doc, doc.sheet = TRUE, NEW size, NEW col \in Color, NEW el, el.tag = "rect",
           el.atts = Unset, NEW v, el.style = v,
           Get(v, "stroke", "black") = "none", Fills(v, col, "none"),
           Get(v, "fillRule", "nonzero") = "nonzero",
           FillMark(el.area, col, "nonzero", {}) = Background(size, col)
    PROVE  Visible(ElementMarks(doc, el, {})) = Visible(<<Background(size, col)>>)
  <1> DEFINE d == StyleDefaults
  <1>1. /\ d.fillOpacity = 255 /\ d.fillRule = "nonzero"
        /\ d.stroke = "black" /\ d.fill = "none"
    BY DEF StyleDefaults, Sheet, Initial, Props
  <1>2. \A x \in Props : Computed(doc, el)[x] = Get(v, x, d[x])
    <2>1. el.tag \in Shapes
      BY DEF Shapes
    <2> QED
      BY <2>1, ComputedShape
  <1> HIDE DEF d
  <1>3. Visible(ElementMarks(doc, el, {}))
            = Visible(<<FillMark(el.area, col, "nonzero", {})>>)
    BY <1>1, <1>2, BackdropMarks
  <1> QED
    BY <1>3

LEMMA SvgBackdrop ==
    ASSUME NEW doc, doc.sheet = TRUE, NEW p, p.size \in Size, NEW col \in Color
    PROVE  LET el == [Backdrop(p) EXCEPT !.style = [stroke |-> "none"] ++ FillOrNone(col)]
           IN  Visible(ElementMarks(doc, el, {})) = Visible(<<Background(p.size, col)>>)
  <1> DEFINE g == Backdrop(p)
             s == [stroke |-> "none"]
             f == FillOrNone(col)
             v == s ++ f
             el == [g EXCEPT !.style = v]
  <1>1. /\ g.tag = "rect" /\ g.atts = Unset /\ DOMAIN g = Fields
        /\ \A c : FillMark(g.area, c, "nonzero", {}) = Background(p.size, c)
    BY BackdropArea
  <1>2. (\A e : Fills(f, col, e)) /\ \A e : Get(f, "fillRule", e) = e
    BY FillsNone
  <1>3. \A e : Get(s, "stroke", e) = "none"
    BY NoStroke
  <1>4. \A x \in FillProps : \A e : Get(s, x, e) = e
    BY NoStroke
  <1> HIDE DEF g, s, f
  <1>5. \A x, e : Get(v, x, e) = Get(s, x, Get(f, x, e))
    BY GetOver
  <1> HIDE DEF v
  <1>6. el.tag = "rect" /\ el.atts = Unset /\ el.style = v /\ el.area = g.area
    BY <1>1, SetStyle
  <1> HIDE DEF el
  <1>7. \A x \in FillProps : \A e : Get(v, x, e) = Get(f, x, e)
    BY <1>4, <1>5
  <1>8. Get(v, "stroke", "black") = "none" /\ Get(v, "fillRule", "nonzero") = "nonzero"
    BY <1>2, <1>3, <1>5, <1>7 DEF FillProps
  <1>9. Fills(v, col, "none")
    BY <1>2, <1>7 DEF Fills, FillProps
  <1>11. FillMark(el.area, col, "nonzero", {}) = Background(p.size, col)
    BY <1>1, <1>6
  <1>10. Visible(ElementMarks(doc, el, {})) = Visible(<<Background(p.size, col)>>)
    BY <1>6, <1>8, <1>9, <1>11, SvgBackdropMarks
  <1> QED
    BY <1>10 DEF el, v, s, f, g

LEMMA PortableBackdropMarks ==
    ASSUME NEW doc, doc.sheet = FALSE, NEW size, NEW col \in Color, NEW el, el.tag = "rect",
           el.style = Unset, NEW v, el.atts = v,
           Get(v, "stroke", "none") = "none", Fills(v, col, "black"),
           Get(v, "fillRule", "nonzero") = "nonzero",
           FillMark(el.area, col, "nonzero", {}) = Background(size, col)
    PROVE  Visible(ElementMarks(doc, el, {})) = Visible(<<Background(size, col)>>)
  <1> DEFINE d == Initial
  <1>1. /\ d.fillOpacity = 255 /\ d.fillRule = "nonzero"
        /\ d.stroke = "none" /\ d.fill = "black"
    BY DEF Initial
  <1>2. \A x \in Props : Computed(doc, el)[x] = Get(v, x, d[x])
    BY ComputedAtts
  <1> HIDE DEF d
  <1>3. Visible(ElementMarks(doc, el, {}))
            = Visible(<<FillMark(el.area, col, "nonzero", {})>>)
    BY <1>1, <1>2, BackdropMarks
  <1> QED
    BY <1>3

LEMMA OpaqueColor ==
    ASSUME NEW col \in Color
    PROVE  LET opaque == [col EXCEPT !.alpha = 255] IN
             opaque \in Color /\ opaque.rgb = col.rgb /\ opaque.alpha = 255
  BY DEF Color

PortableBack(p, col) == [Backdrop(p) EXCEPT !.atts = [stroke |-> "none", fill |-> col.rgb]]
OpaqueOf(col) == [col EXCEPT !.alpha = 255]

LEMMA PortableBackdrop ==
    ASSUME NEW doc, doc.sheet = FALSE, NEW p, p.size \in Size, NEW col \in Color
    PROVE  Visible(ElementMarks(doc, PortableBack(p, col), {}))
               = Visible(<<Background(p.size, OpaqueOf(col))>>)
  <1> DEFINE g == Backdrop(p)
             v == [stroke |-> "none", fill |-> col.rgb]
             el == [g EXCEPT !.atts = v]
             opaque == [col EXCEPT !.alpha = 255]
  <1>1. /\ g.tag = "rect" /\ g.style = Unset /\ DOMAIN g = Fields
        /\ \A c : FillMark(g.area, c, "nonzero", {}) = Background(p.size, c)
    BY BackdropArea
  <1>2. /\ Get(v, "stroke", "none") = "none" /\ Get(v, "fillRule", "nonzero") = "nonzero"
        /\ Get(v, "fill", "black") = col.rgb /\ Get(v, "fillOpacity", 255) = 255
    BY DEF Get
  <1>3. opaque \in Color /\ opaque.rgb = col.rgb /\ opaque.alpha = 255
    BY OpaqueColor
  <1> HIDE DEF g, v, opaque
  <1>4. el.tag = "rect" /\ el.style = Unset /\ el.atts = v /\ el.area = g.area
    BY <1>1, SetStyle
  <1> HIDE DEF el
  <1>5. Fills(v, opaque, "black")
    BY <1>2, <1>3 DEF Fills, Transparent
  <1>7. FillMark(el.area, opaque, "nonzero", {}) = Background(p.size, opaque)
    BY <1>1, <1>4
  <1>6. Visible(ElementMarks(doc, el, {})) = Visible(<<Background(p.size, opaque)>>)
    <2>1. opaque \in Color /\ el.tag = "rect" /\ el.style = Unset /\ el.atts = v
      BY <1>3, <1>4
    <2>2. Get(v, "stroke", "none") = "none" /\ Get(v, "fillRule", "nonzero") = "nonzero"
      BY <1>2
    <2> QED
      BY <1>5, <1>7, <2>1, <2>2, PortableBackdropMarks
  <1> QED
    BY <1>6 DEF el, v, g, opaque, PortableBack, OpaqueOf

(* The clip paths of a document, one for each clip of the page.            *)
PathSet(p, names) ==
    [id : {names[id] : id \in ClipIds(p)},
     rect : {RectOfClip(p.cps[n].rect) : n \in DOMAIN p.cps}]

LEMMA ClipPathsOf ==
    ASSUME NEW S, NEW p, p.cps \in Seq(S), NEW names
    PROVE  LET q == ClipPaths(p, names) IN
             /\ q \in Seq(PathSet(p, names))
             /\ Len(q) = Len(p.cps)
             /\ \A k \in 1..Len(p.cps) :
                   q[k].id = names[p.cps[k].id] /\ q[k].rect = RectOfClip(p.cps[k].rect)
  <1> DEFINE N == Len(p.cps)
             cp(n) == [id |-> names[p.cps[n].id], rect |-> RectOfClip(p.cps[n].rect)]
             T == PathSet(p, names)
             q == [n \in 1..N |-> cp(n)]
  <1>1. N \in Nat /\ DOMAIN p.cps = 1..N
    OBVIOUS
  <1>2. ClipPaths(p, names) = q
    BY <1>1 DEF ClipPaths
  <1>3. \A n \in 1..N : cp(n) \in T
    BY <1>1 DEF ClipIds, PathSet
  <1>4. \A n \in 1..N :
            cp(n).id = names[p.cps[n].id] /\ cp(n).rect = RectOfClip(p.cps[n].rect)
    OBVIOUS
  <1> HIDE DEF T, cp, N
  <1>5. q \in Seq(T) /\ Len(q) = N /\ \A n \in 1..N : q[n] = cp(n)
    BY <1>1, <1>3
  <1> HIDE DEF q
  <1>6. \A n \in 1..N :
            q[n].id = names[p.cps[n].id] /\ q[n].rect = RectOfClip(p.cps[n].rect)
    BY <1>4, <1>5
  <1> QED
    BY <1>2, <1>5, <1>6 DEF T, N

(* Names that no other clip path has stand for the clips of the page.      *)
LEMMA Joined ==
    ASSUME NEW S, NEW T, NEW p \in Seq(S), NEW q \in Seq(T)
    PROVE  /\ Len(p \o q) = Len(p) + Len(q)
           /\ \A k \in 1..Len(p) : (p \o q)[k] = p[k]
           /\ \A k \in 1..Len(q) : (p \o q)[Len(p) + k] = q[k]
  OBVIOUS

Unnamed(around, name) == \A k \in 1..Len(around) : around[k].id # name

LEMMA NamedClips ==
    ASSUME IInv, NEW T, NEW around \in Seq(T), NEW names, NEW id \in 0..(Len(page.cps) - 1),
           \A i \in 0..(Len(page.cps) - 1) : names[i] = names[id] => i = id,
           Unnamed(around, names[id])
    PROVE  ClipBox(around \o ClipPaths(page, names), names[id])
               = BoxOf(RectOfClip(page.cps[id + 1].rect))
  <1> DEFINE m == Len(page.cps)
             a == Len(around)
             q == ClipPaths(page, names)
             defs == around \o q
             U == PathSet(page, names)
             name == names[id]
  <1>1. page.cps \in Seq(CpSet) /\ m \in Nat /\ Numbered(page)
    BY ClipBoxes DEF PageSet
  <1>2. \A k \in 1..m : page.cps[k].id = k - 1
    BY <1>1 DEF Numbered
  <1>3. /\ q \in Seq(U) /\ Len(q) = m
        /\ \A k \in 1..m :
              q[k].id = names[page.cps[k].id] /\ q[k].rect = RectOfClip(page.cps[k].rect)
    BY <1>1, ClipPathsOf
  <1> HIDE DEF q, U
  <1>4. a \in Nat /\ Len(defs) = a + m
    <2>1. a \in Nat
      OBVIOUS
    <2>3. q \in Seq(U)
      BY <1>3
    <2>2. Len(around \o q) = Len(around) + Len(q)
      BY <2>3, Joined
    <2> QED
      BY <1>3, <2>1, <2>2
  <1>5. /\ \A k \in 1..a : defs[k] = around[k]
        /\ \A k \in 1..m : defs[a + k] = q[k]
    BY <1>3, <1>1
  <1>6. id \in 0..(m - 1) /\ id + 1 \in 1..m /\ (id + 1) - 1 = id
    BY <1>1
  <1>7. \A k \in 1..m : k - 1 \in 0..(m - 1) /\ (k - 1 = id <=> k = id + 1)
    BY <1>1, <1>6
  <1> HIDE DEF m, a, defs
  <1>8. \A k \in 1..m : defs[a + k].id = name <=> k = id + 1
    <2> TAKE k \in 1..m
    <2>1. defs[a + k].id = names[k - 1]
      BY <1>2, <1>3, <1>5
    <2>2. k - 1 \in 0..(m - 1)
      BY <1>7
    <2>3. names[k - 1] = name <=> k - 1 = id
      BY <2>2 DEF m
    <2> QED
      BY <1>7, <2>1, <2>3
  <1>9. \A k \in 1..a : defs[k].id # name
    BY <1>5 DEF a, Unnamed
  <1> HIDE DEF name
  <1>10. ClipBox(defs, name) = BoxOf(defs[a + (id + 1)].rect)
    <2>1. a \in Nat /\ m \in Nat /\ Len(defs) = a + m /\ id \in 0..(m - 1)
      BY <1>1, <1>4, <1>6
    <2>2. OnlyName(defs, a, m, id, name)
      BY <1>8, <1>9, <2>1 DEF OnlyName
    <2> QED
      BY <2>1, <2>2, ClipBoxAt
  <1>11. defs[a + (id + 1)].rect = RectOfClip(page.cps[id + 1].rect)
    BY <1>3, <1>5, <1>6
  <1> QED
    BY <1>10, <1>11 DEF defs, q, name

LEMMA ClipIdsOf ==
    ASSUME IInv
    PROVE  ClipIds(page) = 0..(Len(page.cps) - 1)
  <1> DEFINE m == Len(page.cps)
  <1>1. DOMAIN page.cps = 1..m /\ m \in Nat /\ \A k \in 1..m : page.cps[k].id = k - 1
    BY ClipBoxes DEF PageSet, Numbered
  <1>2. ClipIds(page) = {page.cps[n].id : n \in 1..m}
    BY <1>1 DEF ClipIds
  <1> HIDE DEF m
  <1>3. \A i : i \in {page.cps[n].id : n \in 1..m} <=> \E n \in 1..m : i = n - 1
    BY <1>1
  <1>4. \A i : i \in 0..(m - 1) <=> \E n \in 1..m : i = n - 1
    <2>1. ASSUME NEW i \in 0..(m - 1) PROVE \E n \in 1..m : i = n - 1
      <3>1. i + 1 \in 1..m /\ i = (i + 1) - 1
        BY <1>1
      <3> QED
        BY <3>1
    <2>2. ASSUME NEW n \in 1..m PROVE n - 1 \in 0..(m - 1)
      BY <1>1
    <2> QED
      BY <2>1, <2>2
  <1> QED
    BY <1>2, <1>3, <1>4 DEF m

LEMMA SvgIsRight == ASSUME IInv PROVE SvgPaints
  <1> DEFINE doc == Svg(page, fill)
             names == [id \in ClipIds(page) |-> <<id>>]
             elements == [n \in DOMAIN page.dcs |-> SvgVisit(page.dcs[n].op)]
             back == [Backdrop(page) EXCEPT !.style = [stroke |-> "none"] ++ FillOrNone(fill)]
             none == <<>>
             N == Len(asked)
             m == Len(page.cps)
  <1>1. /\ doc.sheet = TRUE /\ doc.defs = ClipPaths(page, names) /\ doc.backdrop = back
        /\ doc.groups = Groups(page, elements, names)
    BY DEF Svg
  <1>2. page.size \in Size /\ fill \in Color
    BY ClipBoxes DEF PageSet
  <1>3. \A n \in 1..N : elements[n] = SvgVisit(DrawCall(asked[n].call)) /\ asked[n].call \in Calls
    <2>1. page.dcs \in Seq(DcSet) /\ Len(page.dcs) = N
      BY ClipBoxes DEF PageSet
    <2>2. \A n \in 1..N : page.dcs[n].op = DrawCall(asked[n].call)
      BY ClipBoxes
    <2>3. asked \in Seq(AskedSet)
      BY ClipBoxes
    <2>4. \A n \in 1..N : asked[n] \in AskedSet
      BY <2>3
    <2>5. \A n \in 1..N : n \in DOMAIN page.dcs
      BY <2>1
    <2> HIDE DEF N
    <2> QED
      BY <2>2, <2>4, <2>5 DEF AskedSet
  <1>4. \A i \in 0..(m - 1) : names[i] = <<i>>
    BY ClipIdsOf
  <1> HIDE DEF doc, names, elements, N, m
  <1>5. Visible(ElementMarks(doc, doc.backdrop, {})) = Visible(<<Background(page.size, fill)>>)
    <2>1. doc.sheet = TRUE
      BY <1>1
    <2>2. Visible(ElementMarks(doc, back, {})) = Visible(<<Background(page.size, fill)>>)
      BY <1>2, <2>1, SvgBackdrop
    <2> HIDE DEF back
    <2> QED
      BY <1>1, <2>2
  <1> HIDE DEF back
  <1>6. \A n \in 1..N : \A clip :
            Visible(ElementMarks(doc, elements[n], {clip})) = Visible(AskedMarks(asked[n].call, clip))
    <2> SUFFICES ASSUME NEW n \in 1..N, NEW clip
                 PROVE  Visible(ElementMarks(doc, elements[n], {clip}))
                            = Visible(AskedMarks(asked[n].call, clip))
      BY Zenon
    <2> DEFINE call == asked[n].call
    <2>1. doc.sheet = TRUE /\ call \in Calls /\ elements[n] = SvgVisit(DrawCall(call))
      BY <1>1, <1>3
    <2> HIDE DEF call
    <2>2. Visible(ElementMarks(doc, SvgVisit(DrawCall(call)), {clip}))
              = Visible(AskedMarks(call, clip))
      BY <2>1, SvgElement
    <2> QED
      BY <2>1, <2>2 DEF call
  <1>7. \A id \in 0..(m - 1) :
            ClipBox(none \o doc.defs, names[id]) = BoxOf(RectOfClip(page.cps[id + 1].rect))
    <2> SUFFICES ASSUME NEW id \in 0..(m - 1)
                 PROVE  ClipBox(none \o doc.defs, names[id])
                            = BoxOf(RectOfClip(page.cps[id + 1].rect))
      OBVIOUS
    <2>1. none \in Seq({}) /\ Len(none) = 0
      OBVIOUS
    <2> HIDE DEF none
    <2>2. Unnamed(none, names[id])
      BY <2>1 DEF Unnamed
    <2>3. \A i \in 0..(m - 1) : names[i] = names[id] => i = id
      <3> TAKE i \in 0..(m - 1)
      <3>1. names[i] = <<i>> /\ names[id] = <<id>>
        BY <1>4
      <3> QED
        BY <3>1
    <2>4. ClipBox(none \o ClipPaths(page, names), names[id])
              = BoxOf(RectOfClip(page.cps[id + 1].rect))
      BY <2>1, <2>2, <2>3, NamedClips DEF m
    <2> QED
      BY <1>1, <2>4
  <1> HIDE DEF none
  <1>8. SvgMarks(doc, none) = Picture(fill)
    <2>1. doc.groups = Groups(page, elements, names)
      BY <1>1
    <2>2. ElementsShow(doc, elements) /\ NamesStand(none \o doc.defs, names)
      BY <1>6, <1>7 DEF ElementsShow, NamesStand, N, m
    <2> QED
      BY <1>5, <2>1, <2>2, DocumentShows
  <1> QED
    BY <1>8 DEF SvgPaints, doc, none

(* An SVG document shows the picture that R asked for, whatever R draws,   *)
(* clips and fills (RendererSVG::page and its visit methods).              *)
THEOREM SvgAlwaysPaints == Spec => []SvgPaints
  <1>1. IInv => SvgPaints
    BY SvgIsRight
  <1> QED
    BY <1>1, RenderingIInv, PTL

(* The one clip path of another document on the same page.                 *)
LEMMA OtherClips ==
    LET other == SvgPortable(NewPage(1, <<2, 2>>), Black, "other uuid")
    IN  \E T : /\ other.defs \in Seq(T)
               /\ \A k \in 1..Len(other.defs) : other.defs[k].id = UniqueId(0, "other uuid")
  <1> DEFINE p == NewPage(1, <<2, 2>>)
             c == [id |-> 0, rect |-> Full(<<2, 2>>)]
             names == [id \in ClipIds(p) |-> UniqueId(id, "other uuid")]
             other == SvgPortable(p, Black, "other uuid")
  <1>1. p.cps = <<c>>
    <2> DEFINE q == [id |-> 1, size |-> <<2, 2>>, dcs |-> <<>>, cps |-> <<>>]
    <2>1. p = [q EXCEPT !.cps = Append(@, [id |-> Len(@), rect |-> Full(<<2, 2>>)])]
      BY DEF NewPage, WithClip
    <2>2. Append(<<>>, [id |-> Len(<<>>), rect |-> Full(<<2, 2>>)]) = <<c>>
      OBVIOUS
    <2> QED
      BY <2>1, <2>2
  <1>2. other.defs = ClipPaths(p, names)
    BY DEF SvgPortable
  <1>3. c.id = 0
    OBVIOUS
  <1> HIDE DEF p, c
  <1>4. /\ p.cps \in Seq({c}) /\ Len(p.cps) = 1 /\ DOMAIN p.cps = 1..1
        /\ p.cps[1] = c
    BY <1>1
  <1>5. names[0] = UniqueId(0, "other uuid")
    <2>1. 0 \in ClipIds(p)
      BY <1>3, <1>4 DEF ClipIds
    <2> QED
      BY <2>1
  <1> HIDE DEF names, other
  <1>6. /\ other.defs \in Seq(PathSet(p, names)) /\ Len(other.defs) = 1
        /\ \A k \in 1..1 : other.defs[k].id = names[p.cps[k].id]
    BY <1>2, <1>4, ClipPathsOf
  <1>7. \A k \in 1..Len(other.defs) : other.defs[k].id = UniqueId(0, "other uuid")
    <2>1. other.defs[1].id = names[p.cps[1].id] /\ p.cps[1].id = 0
      BY <1>3, <1>4, <1>6
    <2>2. 1..1 = {1}
      OBVIOUS
    <2> QED
      BY <1>5, <1>6, <2>1, <2>2, Zenon
  <1> QED
    BY <1>6, <1>7, Zenon DEF other, p

LEMMA PortableIsRight == ASSUME IInv PROVE PortablePaints
  <1> DEFINE doc == SvgPortable(page, fill, "uuid")
             around == SvgPortable(NewPage(1, <<2, 2>>), Black, "other uuid").defs
             names == [id \in ClipIds(page) |-> UniqueId(id, "uuid")]
             elements == [n \in DOMAIN page.dcs |-> PortableVisit(page.dcs[n].op)]
             back == PortableBack(page, fill)
             opaque == OpaqueOf(fill)
             N == Len(asked)
             m == Len(page.cps)
  <1>1. /\ doc.sheet = FALSE /\ doc.defs = ClipPaths(page, names) /\ doc.backdrop = back
        /\ doc.groups = Groups(page, elements, names)
    BY DEF SvgPortable, PortableBack
  <1>2. page.size \in Size /\ fill \in Color
    BY ClipBoxes DEF PageSet
  <1>3. \A n \in 1..N :
            elements[n] = PortableVisit(DrawCall(asked[n].call)) /\ asked[n].call \in Calls
    <2>1. page.dcs \in Seq(DcSet) /\ Len(page.dcs) = N
      BY ClipBoxes DEF PageSet
    <2>2. \A n \in 1..N : page.dcs[n].op = DrawCall(asked[n].call)
      BY ClipBoxes
    <2>3. asked \in Seq(AskedSet)
      BY ClipBoxes
    <2>4. \A n \in 1..N : asked[n] \in AskedSet
      BY <2>3
    <2>5. \A n \in 1..N : n \in DOMAIN page.dcs
      BY <2>1
    <2> HIDE DEF N
    <2> QED
      BY <2>2, <2>4, <2>5 DEF AskedSet
  <1>4. \A i \in 0..(m - 1) : names[i] = UniqueId(i, "uuid")
    BY ClipIdsOf
  <1>5. PICK T : /\ around \in Seq(T)
                 /\ \A k \in 1..Len(around) : around[k].id = UniqueId(0, "other uuid")
    BY OtherClips, Zenon
  <1> HIDE DEF doc, names, elements, around, N, m
  <1>6. Visible(ElementMarks(doc, doc.backdrop, {})) = Visible(<<Background(page.size, opaque)>>)
    <2>1. doc.sheet = FALSE
      BY <1>1
    <2>2. Visible(ElementMarks(doc, back, {})) = Visible(<<Background(page.size, opaque)>>)
      BY <1>2, <2>1, PortableBackdrop
    <2> HIDE DEF back, opaque
    <2> QED
      BY <1>1, <2>2
  <1> HIDE DEF back, opaque
  <1>7. \A n \in 1..N : \A clip :
            Visible(ElementMarks(doc, elements[n], {clip})) = Visible(AskedMarks(asked[n].call, clip))
    <2> SUFFICES ASSUME NEW n \in 1..N, NEW clip
                 PROVE  Visible(ElementMarks(doc, elements[n], {clip}))
                            = Visible(AskedMarks(asked[n].call, clip))
      BY Zenon
    <2> DEFINE call == asked[n].call
    <2>1. doc.sheet = FALSE /\ call \in Calls /\ elements[n] = PortableVisit(DrawCall(call))
      BY <1>1, <1>3
    <2> HIDE DEF call
    <2>2. Visible(ElementMarks(doc, PortableVisit(DrawCall(call)), {clip}))
              = Visible(AskedMarks(call, clip))
      BY <2>1, PortableElement
    <2> QED
      BY <2>1, <2>2 DEF call
  <1>8. \A id \in 0..(m - 1) :
            ClipBox(around \o doc.defs, names[id]) = BoxOf(RectOfClip(page.cps[id + 1].rect))
    <2> SUFFICES ASSUME NEW id \in 0..(m - 1)
                 PROVE  ClipBox(around \o doc.defs, names[id])
                            = BoxOf(RectOfClip(page.cps[id + 1].rect))
      OBVIOUS
    <2>1. Unnamed(around, names[id])
      <3>1. names[id] = <<id, "uuid">>
        BY <1>4 DEF UniqueId
      <3>2. \A k \in 1..Len(around) : around[k].id = <<0, "other uuid">>
        BY <1>5, Zenon DEF UniqueId
      <3>3. <<0, "other uuid">> # <<id, "uuid">>
        OBVIOUS
      <3> QED
        BY <3>1, <3>2, <3>3, Zenon DEF Unnamed
    <2>2. \A i \in 0..(m - 1) : names[i] = names[id] => i = id
      <3> TAKE i \in 0..(m - 1)
      <3>1. names[i] = <<i, "uuid">> /\ names[id] = <<id, "uuid">>
        BY <1>4 DEF UniqueId
      <3> QED
        BY <3>1
    <2>3. around \in Seq(T)
      BY <1>5, Zenon
    <2>4. ClipBox(around \o ClipPaths(page, names), names[id])
              = BoxOf(RectOfClip(page.cps[id + 1].rect))
      BY <2>1, <2>2, <2>3, NamedClips DEF m
    <2> QED
      BY <1>1, <2>4
  <1>9. SvgMarks(doc, around) = Picture(opaque)
    <2>1. doc.groups = Groups(page, elements, names)
      BY <1>1
    <2>2. ElementsShow(doc, elements) /\ NamesStand(around \o doc.defs, names)
      BY <1>7, <1>8 DEF ElementsShow, NamesStand, N, m
    <2> QED
      BY <1>6, <2>1, <2>2, DocumentShows
  <1> QED
    BY <1>9, Zenon DEF PortablePaints, doc, around, opaque, OpaqueOf

(* A portable SVG document shows the picture that R asked for, whatever R  *)
(* draws, clips and fills, also after another document on the same page    *)
(* (RendererSVGPortable::page and its visit methods).                      *)
THEOREM PortableAlwaysPaints == Spec => []PortablePaints
  <1>1. IInv => PortablePaints
    BY PortableIsRight
  <1> QED
    BY <1>1, RenderingIInv, PTL
----------------------------------------------------------------------------
(* The JSON document.                                                      *)

(* The fields of an object: its type, the id of its clip and those of b.   *)
LEMMA JsonOver ==
    ASSUME NEW k, NEW id, NEW b, "type" \notin DOMAIN b, "clip_id" \notin DOMAIN b
    PROVE  LET told == [type |-> k, clip_id |-> id] ++ b IN
             /\ told.type = k /\ told.clip_id = id
             /\ \A x \in DOMAIN b : told[x] = b[x]
             /\ "fill" \in DOMAIN told <=> "fill" \in DOMAIN b
  <1> DEFINE a == [type |-> k, clip_id |-> id]
  <1>1. DOMAIN a = {"type", "clip_id"} /\ a.type = k /\ a.clip_id = id
    OBVIOUS
  <1> HIDE DEF a
  <1>2. /\ (a ++ b).type = k /\ (a ++ b).clip_id = id
        /\ \A x \in DOMAIN b : (a ++ b)[x] = b[x]
        /\ "fill" \in DOMAIN (a ++ b) <=> "fill" \in DOMAIN b
    BY <1>1 DEF ++
  <1> QED
    BY <1>2 DEF a

(* A colour without its alpha.                                             *)
Solid(col) == [col EXCEPT !.alpha = 255]

LEMMA JsonColor ==
    ASSUME NEW col \in Color
    PROVE  ColorOf(col.rgb, 255) = Solid(col)
  <1>1. col.rgb # "none" /\ DOMAIN col = {"rgb", "alpha"}
    BY DEF Color
  <1>2. Solid(col) = [rgb |-> col.rgb, alpha |-> 255]
    BY DEF Color, Solid
  <1> QED
    BY <1>1, <1>2 DEF ColorOf

(* A line of the document, and a line without its alpha.                   *)
SolidLine(line) == [line EXCEPT !.col = Solid(@)]

LEMMA JsonLine ==
    ASSUME NEW line \in Line
    PROVE  LET l == JsonLineInfo(line) IN
             /\ ColorOf(l.col, 255) = SolidLine(line).col
             /\ AskedPen(l) = AskedPen(SolidLine(line))
  <1> DEFINE l == JsonLineInfo(line)
             s == SolidLine(line)
  <1>1. line.col \in Color
    BY DEF Line
  <1>2. /\ s.col = Solid(line.col) /\ s.lty = line.lty /\ s.lend = line.lend
        /\ s.ljoin = line.ljoin /\ s.lmitre = line.lmitre
    BY DEF Line, SolidLine
  <1>3. /\ l.col = line.col.rgb /\ l.lty = line.lty /\ l.lend = line.lend
        /\ l.ljoin = line.ljoin /\ l.lmitre = line.lmitre
    BY DEF JsonLineInfo
  <1> HIDE DEF l, s
  <1>4. ColorOf(l.col, 255) = s.col
    BY <1>1, <1>2, <1>3, JsonColor
  <1>5. AskedPen(l) = AskedPen(s)
    BY <1>2, <1>3 DEF AskedPen
  <1> QED
    BY <1>4, <1>5 DEF l, s

(* What is left of the calls in the document.                              *)
LEMMA InJsonLines ==
    ASSUME NEW call \in RCall, call.kind \in {"line", "polyline"}
    PROVE  LET c == InJson(call) IN
             c.kind = call.kind /\ c.line = SolidLine(call.line) /\ c.points = call.points
  <1>1. call \in [kind : {"line", "polyline"}, line : Line, points : Points]
    BY DEF RCall, ShapeCall, PathCall, TextCall, RasterCall
  <1> DEFINE e == [call EXCEPT !.line = SolidLine(@)]
  <1>2. InJson(call) = e
    BY DEF InJson, SolidLine, Solid
  <1>3. e.kind = call.kind /\ e.line = SolidLine(call.line) /\ e.points = call.points
    BY <1>1
  <1> QED
    BY <1>2, <1>3

LEMMA InJsonPolygon ==
    ASSUME NEW call \in RCall, call.kind = "polygon"
    PROVE  LET c == InJson(call) IN
             /\ c.kind = call.kind /\ c.line = SolidLine(call.line)
             /\ c.fill = Solid(call.fill) /\ c.points = call.points
  <1>1. call \in [kind : {"polygon"}, line : Line, fill : Color, points : Points]
    BY DEF RCall, ShapeCall, PathCall, TextCall, RasterCall
  <1> DEFINE e == [[call EXCEPT !.line = SolidLine(@)] EXCEPT !.fill = Solid(@)]
  <1>2. InJson(call) = e
    BY DEF InJson, SolidLine, Solid
  <1>3. /\ e.kind = call.kind /\ e.line = SolidLine(call.line)
        /\ e.fill = Solid(call.fill) /\ e.points = call.points
    BY <1>1
  <1> QED
    BY <1>2, <1>3

LEMMA InJsonCircle ==
    ASSUME NEW call \in RCall, call.kind = "circle"
    PROVE  LET c == InJson(call) IN
             /\ c.kind = call.kind /\ c.line = SolidLine(call.line)
             /\ c.fill = Solid(call.fill) /\ c.pos = call.pos /\ c.radius = call.radius
  <1>1. call \in [kind : {"circle"}, line : Line, fill : Color, pos : Point, radius : Nat]
    BY DEF RCall, ShapeCall, PathCall, TextCall, RasterCall
  <1> DEFINE e == [[call EXCEPT !.line = SolidLine(@)] EXCEPT !.fill = Solid(@)]
  <1>2. InJson(call) = e
    BY DEF InJson, SolidLine, Solid
  <1>3. /\ e.kind = call.kind /\ e.line = SolidLine(call.line)
        /\ e.fill = Solid(call.fill) /\ e.pos = call.pos /\ e.radius = call.radius
    BY <1>1
  <1> QED
    BY <1>2, <1>3

LEMMA InJsonRect ==
    ASSUME NEW call \in RCall, call.kind = "rect"
    PROVE  LET c == InJson(call) IN
             /\ c.kind = call.kind /\ c.line = SolidLine(call.line)
             /\ c.fill = NoColor /\ c.corners = call.corners
  <1>1. call \in [kind : {"rect"}, line : Line, fill : Color, corners : Corners4]
    BY DEF RCall, ShapeCall, PathCall, TextCall, RasterCall
  <1> DEFINE e == [[call EXCEPT !.line = SolidLine(@)] EXCEPT !.fill = NoColor]
  <1>2. InJson(call) = e
    BY DEF InJson, SolidLine, Solid
  <1>3. /\ e.kind = call.kind /\ e.line = SolidLine(call.line)
        /\ e.fill = NoColor /\ e.corners = call.corners
    BY <1>1
  <1> QED
    BY <1>2, <1>3

LEMMA InJsonPath ==
    ASSUME NEW call \in RCall, call.kind = "path"
    PROVE  LET c == InJson(call) IN
             /\ c.kind = call.kind /\ c.line = SolidLine(call.line)
             /\ c.fill = Solid(call.fill) /\ c.winding = TRUE
             /\ c.points = call.points /\ c.nper = call.nper
  <1>1. call \in [kind : {"path"}, line : Line, fill : Color, winding : BOOLEAN,
                  nper : Seq(Nat \ {0, 1}), points : Seq(Point)]
    BY DEF RCall, ShapeCall, PathCall, TextCall, RasterCall
  <1> DEFINE e == [[[call EXCEPT !.line = SolidLine(@)] EXCEPT !.fill = Solid(@)]
                      EXCEPT !.winding = TRUE]
  <1>2. InJson(call) = e
    BY DEF InJson, SolidLine, Solid
  <1>3. /\ e.kind = call.kind /\ e.line = SolidLine(call.line)
        /\ e.fill = Solid(call.fill) /\ e.winding = TRUE
        /\ e.points = call.points /\ e.nper = call.nper
    BY <1>1
  <1> QED
    BY <1>2, <1>3

LEMMA InJsonText ==
    ASSUME NEW call \in RCall, call.kind = "text"
    PROVE  LET c == InJson(call) IN
             /\ c.kind = call.kind /\ c.col = Solid(call.col) /\ c.str = call.str
             /\ c.at = call.at /\ c.hadj = call.hadj /\ c.rot = call.rot
  <1>1. call \in [kind : {"text"}, col : Color, str : Text, at : Point,
                  hadj : {0, 50, 100}, rot : Int]
    BY DEF RCall, ShapeCall, PathCall, TextCall, RasterCall
  <1> DEFINE e == [call EXCEPT !.col = Solid(@)]
  <1>2. InJson(call) = e
    BY DEF InJson, Solid
  <1>3. /\ e.kind = call.kind /\ e.col = Solid(call.col) /\ e.str = call.str
        /\ e.at = call.at /\ e.hadj = call.hadj /\ e.rot = call.rot
    BY <1>1
  <1> QED
    BY <1>2, <1>3

LEMMA InJsonRaster ==
    ASSUME NEW call \in RCall, call.kind = "raster"
    PROVE  LET c == InJson(call) IN
             /\ c.kind = call.kind /\ c.w = call.w /\ c.h = call.h /\ c.pixels = call.pixels
             /\ c.at = call.at /\ c.width = call.width /\ c.height = call.height
             /\ c.interpolate = FALSE
  <1>1. call \in [kind : {"raster"}, w : Nat \ {0}, h : Nat \ {0}, pixels : Seq(0..255),
                  at : Point, width : Nat \ {0}, height : Int, interpolate : BOOLEAN]
    BY DEF RCall, ShapeCall, PathCall, TextCall, RasterCall
  <1> DEFINE e == [call EXCEPT !.interpolate = FALSE]
  <1>2. InJson(call) = e
    BY DEF InJson
  <1>3. /\ e.kind = call.kind /\ e.w = call.w /\ e.h = call.h /\ e.pixels = call.pixels
        /\ e.at = call.at /\ e.width = call.width /\ e.height = call.height
        /\ e.interpolate = FALSE
    BY <1>1
  <1> QED
    BY <1>2, <1>3

(* What a reader of the document sees of a call with a line.               *)
LEMMA JsonShape ==
    ASSUME NEW told, NEW c, NEW clip, NEW line \in Line, NEW fill2,
           told.type \notin {"text", "raster"}, c.kind = told.type,
           told.line = JsonLineInfo(line), c.line = SolidLine(line),
           JsonArea(told) = AskedArea(c),
           fill2 = IF "fill" \in DOMAIN told THEN ColorOf(told.fill, 255) ELSE NoColor,
           fill2 = IF c.kind \in {"line", "polyline"} THEN NoColor ELSE c.fill,
           c.kind = "path" => c.winding = TRUE
    PROVE  JsonMarks(told, clip) = AskedMarks(c, clip)
  <1> DEFINE area == JsonArea(told)
             col == SolidLine(line).col
             pen == AskedPen(SolidLine(line))
  <1>1. ColorOf(told.line.col, 255) = col /\ AskedPen(told.line) = pen
    BY JsonLine
  <1>2. JsonMarks(told, clip)
          = Paint(area, IF "fill" \in DOMAIN told THEN ColorOf(told.fill, 255) ELSE NoColor,
                  "nonzero", ColorOf(told.line.col, 255), AskedPen(told.line), {clip})
    BY DEF JsonMarks
  <1>3. JsonMarks(told, clip) = Paint(area, fill2, "nonzero", col, pen, {clip})
    BY <1>1, <1>2
  <1>4. AskedMarks(c, clip)
          = Paint(AskedArea(c), IF c.kind \in {"line", "polyline"} THEN NoColor ELSE c.fill,
                  IF c.kind = "path" /\ ~c.winding THEN "evenodd" ELSE "nonzero",
                  c.line.col, AskedPen(c.line), {clip})
    BY DEF AskedMarks
  <1>5. (IF c.kind = "path" /\ ~c.winding THEN "evenodd" ELSE "nonzero") = "nonzero"
    OBVIOUS
  <1> QED
    BY <1>3, <1>4, <1>5

LEMMA JsonOfCall ==
    ASSUME NEW call \in RCall,
           call.kind = "raster" => RasterPng(DrawCall(call)) \in Seq(0..255), NEW id, NEW clip
    PROVE  LET told == JsonVisit(DrawCall(call), id) IN
             /\ told.type = call.kind /\ told.clip_id = id
             /\ JsonMarks(told, clip) = AskedMarks(InJson(call), clip)
  <1> DEFINE dc == DrawCall(call)
             told == JsonVisit(dc, id)
             a == [type |-> dc.kind, clip_id |-> id]
             c == InJson(call)
  <1>1. CASE call.kind \in {"line", "polyline"}
    <2> DEFINE b == [points |-> dc.points, line |-> JsonLineInfo(dc.line)]
    <2>1. dc = call /\ dc.kind = call.kind
      BY <1>1, SameDrawCall
    <2>2. told = a ++ b
      BY <1>1, <2>1 DEF JsonVisit
    <2>3. /\ DOMAIN b = {"points", "line"}
          /\ b.points = call.points /\ b.line = JsonLineInfo(call.line)
      BY <2>1
    <2>4. /\ told.type = dc.kind /\ told.clip_id = id
          /\ told.points = call.points /\ told.line = JsonLineInfo(call.line)
          /\ "fill" \notin DOMAIN told
      <3> HIDE DEF b, dc, told
      <3>1. "type" \notin DOMAIN b /\ "clip_id" \notin DOMAIN b
        BY <2>3
      <3> QED
        BY <2>2, <2>3, <3>1, JsonOver DEF a
    <2>5. c.kind = call.kind /\ c.line = SolidLine(call.line) /\ c.points = call.points
      BY <1>1, InJsonLines
    <2>6. call.line \in Line 
      BY <1>1, CallKinds
    <2> HIDE DEF told, a, b, dc, c
    <2>7. JsonArea(told) = AskedArea(c)
      BY <1>1, <2>1, <2>4, <2>5 DEF JsonArea, AskedArea
    <2>8. JsonMarks(told, clip) = AskedMarks(c, clip)
      <3> DEFINE fill2 == NoColor
      <3>1. /\ told.type \notin {"text", "raster"} /\ c.kind = told.type
            /\ (c.kind = "path" => c.winding = TRUE)
        BY <1>1, <2>1, <2>4, <2>5
      <3>2. fill2 = IF "fill" \in DOMAIN told THEN ColorOf(told.fill, 255) ELSE NoColor
        BY <2>4, <2>6, JsonColor
      <3>3. fill2 = IF c.kind \in {"line", "polyline"} THEN NoColor ELSE c.fill
        BY <1>1, <2>5
      <3> DEFINE line == call.line
      <3>4. line \in Line /\ told.line = JsonLineInfo(line) /\ c.line = SolidLine(line)
        BY <2>4, <2>5, <2>6
      <3> HIDE DEF fill2, line
      <3> QED
        BY <2>7, <3>1, <3>2, <3>3, <3>4, JsonShape, Zenon
    <2> QED
      BY <2>1, <2>4, <2>8 DEF told, dc, c
  <1>2. CASE call.kind = "polygon"
    <2> DEFINE b == [points |-> dc.points, fill |-> dc.fill.rgb, line |-> JsonLineInfo(dc.line)]
    <2>1. dc = call /\ dc.kind = call.kind
      BY <1>2, SameDrawCall
    <2>2. told = a ++ b
      BY <1>2, <2>1 DEF JsonVisit
    <2>3. /\ DOMAIN b = {"points", "fill", "line"}
          /\ b.points = call.points /\ b.line = JsonLineInfo(call.line)
          /\ b.fill = call.fill.rgb
      BY <2>1
    <2>4. /\ told.type = dc.kind /\ told.clip_id = id
          /\ told.points = call.points /\ told.line = JsonLineInfo(call.line)
          /\ told.fill = call.fill.rgb
          /\ "fill" \in DOMAIN told
      <3> HIDE DEF b, dc, told
      <3>1. "type" \notin DOMAIN b /\ "clip_id" \notin DOMAIN b
        BY <2>3
      <3> QED
        BY <2>2, <2>3, <3>1, JsonOver DEF a
    <2>5. c.kind = call.kind /\ c.line = SolidLine(call.line) /\ c.points = call.points
          /\ c.fill = Solid(call.fill)
      BY <1>2, InJsonPolygon
    <2>6. call.line \in Line /\ call.fill \in Color
      BY <1>2, CallKinds
    <2> HIDE DEF told, a, b, dc, c
    <2>7. JsonArea(told) = AskedArea(c)
      BY <1>2, <2>1, <2>4, <2>5 DEF JsonArea, AskedArea
    <2>8. JsonMarks(told, clip) = AskedMarks(c, clip)
      <3> DEFINE fill2 == Solid(call.fill)
      <3>1. /\ told.type \notin {"text", "raster"} /\ c.kind = told.type
            /\ (c.kind = "path" => c.winding = TRUE)
        BY <1>2, <2>1, <2>4, <2>5
      <3>2. fill2 = IF "fill" \in DOMAIN told THEN ColorOf(told.fill, 255) ELSE NoColor
        BY <2>4, <2>6, JsonColor
      <3>3. fill2 = IF c.kind \in {"line", "polyline"} THEN NoColor ELSE c.fill
        BY <1>2, <2>5
      <3> DEFINE line == call.line
      <3>4. line \in Line /\ told.line = JsonLineInfo(line) /\ c.line = SolidLine(line)
        BY <2>4, <2>5, <2>6
      <3> HIDE DEF fill2, line
      <3> QED
        BY <2>7, <3>1, <3>2, <3>3, <3>4, JsonShape, Zenon
    <2> QED
      BY <2>1, <2>4, <2>8 DEF told, dc, c
  <1>3. CASE call.kind = "path"
    <2> DEFINE b == [points |-> dc.points, nper |-> dc.nper, fill |-> dc.fill.rgb,
                     line |-> JsonLineInfo(dc.line)]
    <2>1. dc = call /\ dc.kind = call.kind
      BY <1>3, SameDrawCall
    <2>2. told = a ++ b
      BY <1>3, <2>1 DEF JsonVisit
    <2>3. /\ DOMAIN b = {"points", "nper", "fill", "line"}
          /\ b.points = call.points /\ b.line = JsonLineInfo(call.line)
          /\ b.nper = call.nper /\ b.fill = call.fill.rgb
      BY <2>1
    <2>4. /\ told.type = dc.kind /\ told.clip_id = id
          /\ told.points = call.points /\ told.line = JsonLineInfo(call.line)
          /\ told.nper = call.nper /\ told.fill = call.fill.rgb
          /\ "fill" \in DOMAIN told
      <3> HIDE DEF b, dc, told
      <3>1. "type" \notin DOMAIN b /\ "clip_id" \notin DOMAIN b
        BY <2>3
      <3> QED
        BY <2>2, <2>3, <3>1, JsonOver DEF a
    <2>5. c.kind = call.kind /\ c.line = SolidLine(call.line) /\ c.points = call.points
          /\ c.nper = call.nper /\ c.fill = Solid(call.fill) /\ c.winding = TRUE
      BY <1>3, InJsonPath
    <2>6. call.line \in Line /\ call.fill \in Color
      BY <1>3, CallKinds
    <2> HIDE DEF told, a, b, dc, c
    <2>7. JsonArea(told) = AskedArea(c)
      <3>1. /\ call.nper \in Seq(Nat \ {0, 1}) /\ call.points \in Seq(Point)
            /\ Len(call.points) = SumSeq(call.nper)
        BY <1>3, CallKinds
      <3>2. Traced(<<>>, PathCommands(call.points, call.nper)) = Split(call.points, call.nper)
        BY <3>1, PathTraced
      <3> QED
        BY <1>3, <2>1, <2>4, <2>5, <3>2 DEF JsonArea, AskedArea
    <2>8. JsonMarks(told, clip) = AskedMarks(c, clip)
      <3> DEFINE fill2 == Solid(call.fill)
      <3>1. /\ told.type \notin {"text", "raster"} /\ c.kind = told.type
            /\ (c.kind = "path" => c.winding = TRUE)
        BY <1>3, <2>1, <2>4, <2>5
      <3>2. fill2 = IF "fill" \in DOMAIN told THEN ColorOf(told.fill, 255) ELSE NoColor
        BY <2>4, <2>6, JsonColor
      <3>3. fill2 = IF c.kind \in {"line", "polyline"} THEN NoColor ELSE c.fill
        BY <1>3, <2>5
      <3> DEFINE line == call.line
      <3>4. line \in Line /\ told.line = JsonLineInfo(line) /\ c.line = SolidLine(line)
        BY <2>4, <2>5, <2>6
      <3> HIDE DEF fill2, line
      <3> QED
        BY <2>7, <3>1, <3>2, <3>3, <3>4, JsonShape, Zenon
    <2> QED
      BY <2>1, <2>4, <2>8 DEF told, dc, c
  <1>4. CASE call.kind = "circle"
    <2> DEFINE b == [pos |-> dc.pos, radius |-> dc.radius, fill |-> dc.fill.rgb,
                     line |-> JsonLineInfo(dc.line)]
    <2>1. dc = call /\ dc.kind = call.kind
      BY <1>4, SameDrawCall
    <2>2. told = a ++ b
      BY <1>4, <2>1 DEF JsonVisit
    <2>3. /\ DOMAIN b = {"pos", "radius", "fill", "line"}
          /\ b.pos = call.pos /\ b.line = JsonLineInfo(call.line)
          /\ b.radius = call.radius /\ b.fill = call.fill.rgb
      BY <2>1
    <2>4. /\ told.type = dc.kind /\ told.clip_id = id
          /\ told.pos = call.pos /\ told.line = JsonLineInfo(call.line)
          /\ told.radius = call.radius /\ told.fill = call.fill.rgb
          /\ "fill" \in DOMAIN told
      <3> HIDE DEF b, dc, told
      <3>1. "type" \notin DOMAIN b /\ "clip_id" \notin DOMAIN b
        BY <2>3
      <3> QED
        BY <2>2, <2>3, <3>1, JsonOver DEF a
    <2>5. c.kind = call.kind /\ c.line = SolidLine(call.line) /\ c.pos = call.pos
          /\ c.radius = call.radius /\ c.fill = Solid(call.fill)
      BY <1>4, InJsonCircle
    <2>6. call.line \in Line /\ call.fill \in Color
      BY <1>4, CallKinds
    <2> HIDE DEF told, a, b, dc, c
    <2>7. JsonArea(told) = AskedArea(c)
      BY <1>4, <2>1, <2>4, <2>5 DEF JsonArea, AskedArea
    <2>8. JsonMarks(told, clip) = AskedMarks(c, clip)
      <3> DEFINE fill2 == Solid(call.fill)
      <3>1. /\ told.type \notin {"text", "raster"} /\ c.kind = told.type
            /\ (c.kind = "path" => c.winding = TRUE)
        BY <1>4, <2>1, <2>4, <2>5
      <3>2. fill2 = IF "fill" \in DOMAIN told THEN ColorOf(told.fill, 255) ELSE NoColor
        BY <2>4, <2>6, JsonColor
      <3>3. fill2 = IF c.kind \in {"line", "polyline"} THEN NoColor ELSE c.fill
        BY <1>4, <2>5
      <3> DEFINE line == call.line
      <3>4. line \in Line /\ told.line = JsonLineInfo(line) /\ c.line = SolidLine(line)
        BY <2>4, <2>5, <2>6
      <3> HIDE DEF fill2, line
      <3> QED
        BY <2>7, <3>1, <3>2, <3>3, <3>4, JsonShape, Zenon
    <2> QED
      BY <2>1, <2>4, <2>8 DEF told, dc, c
  <1>5. CASE call.kind = "rect"
    <2> DEFINE b == [rect |-> dc.rect, line |-> JsonLineInfo(dc.line)]
    <2> DEFINE k == call.corners
    <2>1. /\ dc.kind = call.kind /\ dc.line = call.line
          /\ BoxOf(dc.rect) = Box(k[1], k[2], k[3], k[4])
      BY <1>5, RectDrawCall
    <2> HIDE DEF dc
    <2>2. told = a ++ b
      BY <1>5, <2>1 DEF JsonVisit
    <2>3. /\ DOMAIN b = {"rect", "line"}
          /\ b.rect = dc.rect /\ b.line = JsonLineInfo(call.line)
      BY <2>1
    <2>4. /\ told.type = dc.kind /\ told.clip_id = id
          /\ told.rect = dc.rect /\ told.line = JsonLineInfo(call.line)
          /\ "fill" \notin DOMAIN told
      <3> HIDE DEF b, dc, told
      <3>1. "type" \notin DOMAIN b /\ "clip_id" \notin DOMAIN b
        BY <2>3
      <3> QED
        BY <2>2, <2>3, <3>1, JsonOver DEF a
    <2>5. c.kind = call.kind /\ c.line = SolidLine(call.line) /\ c.corners = call.corners
          /\ c.fill = NoColor
      BY <1>5, InJsonRect
    <2>6. call.line \in Line 
      BY <1>5, CallKinds
    <2> HIDE DEF told, a, b, dc, c
    <2>7. JsonArea(told) = AskedArea(c)
      BY <1>5, <2>1, <2>4, <2>5 DEF JsonArea, AskedArea
    <2>8. JsonMarks(told, clip) = AskedMarks(c, clip)
      <3> DEFINE fill2 == NoColor
      <3>1. /\ told.type \notin {"text", "raster"} /\ c.kind = told.type
            /\ (c.kind = "path" => c.winding = TRUE)
        BY <1>5, <2>1, <2>4, <2>5
      <3>2. fill2 = IF "fill" \in DOMAIN told THEN ColorOf(told.fill, 255) ELSE NoColor
        BY <2>4, <2>6, JsonColor
      <3>3. fill2 = IF c.kind \in {"line", "polyline"} THEN NoColor ELSE c.fill
        BY <1>5, <2>5
      <3> DEFINE line == call.line
      <3>4. line \in Line /\ told.line = JsonLineInfo(line) /\ c.line = SolidLine(line)
        BY <2>4, <2>5, <2>6
      <3> HIDE DEF fill2, line
      <3> QED
        BY <2>7, <3>1, <3>2, <3>3, <3>4, JsonShape, Zenon
    <2> QED
      BY <2>1, <2>4, <2>8 DEF told, dc, c
  <1>6. CASE call.kind = "text"
    <2> DEFINE b == [at |-> dc.at, rot |-> dc.rot, hadj |-> dc.hadj, col |-> dc.col.rgb,
                     str |-> dc.str]
    <2>1. dc = call
      BY <1>6, SameDrawCall
    <2>2. told = a ++ b
      BY <1>6, <2>1 DEF JsonVisit
    <2>3. /\ DOMAIN b = {"at", "rot", "hadj", "col", "str"}
          /\ b.at = call.at /\ b.rot = call.rot /\ b.hadj = call.hadj
          /\ b.col = call.col.rgb /\ b.str = call.str
      BY <2>1
    <2>4. /\ told.type = call.kind /\ told.clip_id = id
          /\ told.at = call.at /\ told.rot = call.rot /\ told.hadj = call.hadj
          /\ told.col = call.col.rgb /\ told.str = call.str
      <3> HIDE DEF b, dc, told
      <3>1. "type" \notin DOMAIN b /\ "clip_id" \notin DOMAIN b
        BY <2>3
      <3> QED
        BY <2>1, <2>2, <2>3, <3>1, JsonOver DEF a
    <2>5. /\ c.kind = call.kind /\ c.col = Solid(call.col) /\ c.str = call.str
          /\ c.at = call.at /\ c.hadj = call.hadj /\ c.rot = call.rot
      BY <1>6, InJsonText
    <2>6. ColorOf(told.col, 255) = c.col
      <3>1. call.col \in Color
        BY <1>6, CallKinds
      <3> QED
        BY <2>4, <2>5, <3>1, JsonColor
    <2> HIDE DEF told, a, b, dc, c
    <2>7. JsonMarks(told, clip)
            = <<TextMark([str |-> told.str, at |-> told.at, hadj |-> told.hadj,
                          rot |-> told.rot], ColorOf(told.col, 255), {clip})>>
      BY <1>6, <2>4 DEF JsonMarks
    <2>8. AskedMarks(c, clip)
            = <<TextMark([str |-> c.str, at |-> c.at, hadj |-> c.hadj, rot |-> c.rot],
                         c.col, {clip})>>
      BY <1>6, <2>5 DEF AskedMarks
    <2>9. JsonMarks(told, clip) = AskedMarks(c, clip)
      BY <2>4, <2>5, <2>6, <2>7, <2>8
    <2> QED
      BY <2>4, <2>9 DEF told, dc, c
  <1>7. CASE call.kind = "raster"
    <2> DEFINE b == [rect |-> dc.rect, w |-> dc.w, h |-> dc.h, data |-> RasterBase64(dc)]
    <2>1. dc.kind = "raster" /\ AskedArea(call) = <<BoxOf(dc.rect)>>
      BY <1>7, RasterDrawCall
    <2>2. RasterPng(dc) \in Seq(0..255)
      BY <1>7
    <2> DEFINE look == Look(call.w, call.h, call.pixels)
               png == RasterPng(dc)
    <2>3. Look(png[1], png[2], SubSeq(png, 3, Len(png))) = look
      BY <1>7, PngLook
    <2> HIDE DEF dc
    <2>4. told = a ++ b
      BY <2>1 DEF JsonVisit
    <2>5. /\ DOMAIN b = {"rect", "w", "h", "data"}
          /\ b.rect = dc.rect /\ b.data = RasterBase64(dc)
      OBVIOUS
    <2>6. /\ told.type = "raster" /\ told.clip_id = id
          /\ told.rect = dc.rect /\ told.data = RasterBase64(dc)
      <3> HIDE DEF b, told
      <3>1. "type" \notin DOMAIN b /\ "clip_id" \notin DOMAIN b
        BY <2>5
      <3> QED
        BY <2>1, <2>4, <2>5, <3>1, JsonOver DEF a
    <2>7. /\ c.kind = call.kind /\ c.w = call.w /\ c.h = call.h /\ c.pixels = call.pixels
          /\ c.at = call.at /\ c.width = call.width /\ c.height = call.height
          /\ c.interpolate = FALSE
      BY <1>7, InJsonRaster
    <2>8. Base64Decode(told.data) = png
      BY <2>2, <2>6, Base64RoundTrip DEF RasterBase64
    <2> DEFINE area == <<BoxOf(dc.rect)>>
    <2> HIDE DEF told, a, b, c, look, png
    <2>9. JsonArea(told) = area /\ BoxOf(told.rect) = area[1]
      BY <2>6 DEF JsonArea
    <2>10. AskedArea(c) = area
      <3>1. AskedArea(c) = AskedArea(call)
        BY <1>7, <2>7 DEF AskedArea
      <3> QED
        BY <2>1, <3>1
    <2> HIDE DEF area
    <2>11. JsonMarks(told, clip) = <<ImageMark(area, look, FALSE, {clip, area[1]})>>
      <3> DEFINE q == Base64Decode(told.data)
      <3>1. JsonMarks(told, clip)
              = <<ImageMark(JsonArea(told), Look(q[1], q[2], SubSeq(q, 3, Len(q))), FALSE,
                            {clip, BoxOf(told.rect)})>>
        BY <2>6 DEF JsonMarks
      <3> HIDE DEF q
      <3>2. Look(q[1], q[2], SubSeq(q, 3, Len(q))) = look
        BY <2>3, <2>8 DEF q
      <3> QED
        BY <2>9, <3>1, <3>2
    <2>12. AskedMarks(c, clip) = <<ImageMark(area, look, FALSE, {clip, area[1]})>>
      <3>1. AskedMarks(c, clip)
              = <<ImageMark(AskedArea(c), Look(c.w, c.h, c.pixels), c.interpolate,
                            {clip, AskedArea(c)[1]})>>
        BY <1>7, <2>7 DEF AskedMarks
      <3> QED
        BY <2>7, <2>10, <3>1 DEF look
    <2> QED
      BY <1>7, <2>6, <2>11, <2>12 DEF told, dc, c
  <1> QED
    BY <1>1, <1>2, <1>3, <1>4, <1>5, <1>6, <1>7, CallKinds

(* The JSON document tells the boxes that R clipped to, and each call with *)
(* its kind and what it makes in the box that R clipped it to.             *)
LEMMA JsonIsRight == ASSUME IInv PROVE JsonTells
  <1> DEFINE doc == Json(page, fill)
             N == Len(asked)
             m == Len(page.cps)
  <1>1. /\ page \in PageSet /\ Numbered(page) /\ m \in Nat \ {0}
        /\ asked \in Seq(AskedSet) /\ Len(page.dcs) = N /\ N \in Nat
    BY ClipBoxes
  <1>2. \A n \in 1..N :
            /\ page.dcs[n].op = DrawCall(asked[n].call)
            /\ page.dcs[n].clip \in 0..(m - 1)
            /\ BoxOf(RectOfClip(page.cps[page.dcs[n].clip + 1].rect)) = asked[n].clip
    BY ClipBoxes
  <1>3. DOMAIN page.dcs = 1..N /\ DOMAIN page.cps = 1..m /\ DOMAIN asked = 1..N
    BY <1>1 DEF PageSet
  <1> DEFINE cl == [n \in 1..m |-> [id |-> page.cps[n].id, rect |-> RectOfClip(page.cps[n].rect)]]
             dr == [n \in 1..N |-> JsonVisit(page.dcs[n].op, page.dcs[n].clip)]
  <1>4. doc.clips = cl /\ doc.draw_calls = dr
    BY <1>3 DEF Json, JsonDrawCall
  <1>5. DOMAIN dr = 1..N /\ \A n \in 1..N : dr[n] = JsonVisit(page.dcs[n].op, page.dcs[n].clip)
    BY <1>1
  <1>6. /\ Len(cl) = m /\ DOMAIN cl = 1..m
        /\ \A k \in 1..m : cl[k].id = k - 1 /\ cl[k].rect = RectOfClip(page.cps[k].rect)
    <2>1. \A k \in 1..m : page.cps[k].id = k - 1
      BY <1>1, <1>3 DEF Numbered
    <2> QED
      BY <1>1, <2>1
  <1> HIDE DEF cl, dr
  <1>7. [k \in DOMAIN cl |-> BoxOf(cl[k].rect)] = boxes
    <2> DEFINE bs == [k \in 1..m |-> BoxOf(cl[k].rect)]
    <2>1. /\ boxes \in Seq(ABox) /\ Len(boxes) = m
          /\ \A k \in 1..m : BoxOf(RectOfClip(page.cps[k].rect)) = boxes[k]
      BY BoxList DEF Clipped
    <2> HIDE DEF m
    <2>2. \A k \in 1..m : bs[k] = boxes[k]
      BY <1>6, <2>1
    <2>3. bs = boxes
      BY <1>1, <2>1, <2>2
    <2> QED
      BY <1>6, <2>3
  <1> HIDE DEF doc, N, m
  <1>8. ASSUME NEW n \in 1..N
        PROVE  /\ dr[n].type = asked[n].call.kind
               /\ JsonMarks(dr[n], JsonClip(doc, dr[n]))
                     = AskedMarks(InJson(asked[n].call), asked[n].clip)
    <2> DEFINE told == dr[n]
               call == asked[n].call
               id == page.dcs[n].clip
    <2>1. call \in RCall /\ (call.kind = "raster" => RasterPng(DrawCall(call)) \in Seq(0..255))
      <3>0. asked[n] \in AskedSet
        BY <1>1 DEF N
      <3>1. call \in Calls
        BY <3>0 DEF AskedSet
      <3> QED
        BY <3>1, RenderingAssumption, ImageAssumption
    <2>2. told = JsonVisit(DrawCall(call), id)
      BY <1>2, <1>5
    <2>3. SelectInSeq(cl, LAMBDA c : c.id = id) = id + 1 /\ id + 1 \in 1..m
      <3>1. id \in 0..(m - 1)
        BY <1>2
      <3> HIDE DEF id
      <3>2. m \in Nat
        BY <1>1
      <3> QED
        BY <1>6, <3>1, <3>2, ClipWithId
    <2>4. BoxOf(RectOfClip(page.cps[id + 1].rect)) = asked[n].clip
      BY <1>2
    <2> HIDE DEF told, call, id
    <2> DEFINE o == asked[n].clip
    <2>5. /\ told.type = call.kind /\ told.clip_id = id
          /\ JsonMarks(told, o) = AskedMarks(InJson(call), o)
      BY <2>1, <2>2, JsonOfCall
    <2>6. JsonClip(doc, told) = o
      <3>1. JsonClip(doc, told) = BoxOf(cl[id + 1].rect)
        BY <1>4, <2>3, <2>5 DEF JsonClip
      <3> QED
        BY <1>6, <2>3, <2>4, <3>1
    <2> QED
      BY <2>5, <2>6 DEF told, call
  <1>9. [n \in DOMAIN dr |-> dr[n].type] = [n \in DOMAIN asked |-> asked[n].call.kind]
    BY <1>3, <1>5, <1>8
  <1>10. [n \in DOMAIN dr |-> JsonMarks(dr[n], JsonClip(doc, dr[n]))]
           = [n \in DOMAIN asked |-> AskedMarks(InJson(asked[n].call), asked[n].clip)]
    BY <1>3, <1>5, <1>8
  <1> QED
    BY <1>4, <1>7, <1>9, <1>10 DEF JsonTells, doc

LEMMA ListingsAreRight == ASSUME IInv PROVE ListingsTell
  <1> DEFINE texts == TextsOf(asked)
             meta == Meta(page)
  <1>1. JsonTells
    BY JsonIsRight
  <1>2. IF texts = <<>> THEN Strings(page) = <<>>
        ELSE LinesOf(Strings(page)) = [n \in DOMAIN texts |-> texts[n].call.str]
    BY StringsAreRight DEF LinesOfTexts
  <1>3. /\ meta.draw_calls = Len(asked) /\ meta.clips = Len(boxes)
        /\ <<meta.w, meta.h>> = page.size
    <2>1. page \in PageSet /\ Len(page.dcs) = Len(asked) /\ Len(page.cps) = Len(boxes)
      BY ClipBoxes, BoxList DEF Clipped
    <2>2. page.size \in Nat \X Nat
      BY <2>1 DEF PageSet, Size
    <2> QED
      BY <2>1, <2>2 DEF Meta
  <1> QED
    BY <1>1, <1>2, <1>3 DEF ListingsTell, TextsOf

(* Whatever R draws, the JSON document tells the boxes that R clipped to   *)
(* and, in order, what each call makes in its box, but for alpha, the fill *)
(* of rectangles, the fill rule and the smoothness of images, which it     *)
(* leaves out; the strings are the texts that R drew; the numbers are      *)
(* those of the calls and of the boxes (RendererJSON, RendererStrings,     *)
(* RendererMeta).                                                          *)
THEOREM ListingsAlwaysTell == Spec => []ListingsTell
  <1>1. IInv => ListingsTell
    BY ListingsAreRight
  <1> QED
    BY <1>1, RenderingIInv, PTL
=============================================================================
