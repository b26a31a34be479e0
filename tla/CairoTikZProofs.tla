-------------------------- MODULE CairoTikZProofs --------------------------
(***************************************************************************)
(* Proofs about the two renderers that speak to a program which keeps a    *)
(* state: what cairo paints when RendererCairo calls it, and what TeX      *)
(* makes of the document that RendererTikZ writes.                         *)
(***************************************************************************)
EXTENDS RenderingProofs

----------------------------------------------------------------------------
(* The calls to cairo, one by one.                                         *)

Running == INSTANCE SequenceLemmas WITH Op <- Run, Image <- LAMBDA m : [m EXCEPT !.rule = "nonzero"]

Gs(clip, col, image, pen, ctm) ==
    [clip |-> clip, col |-> col, image |-> image, pen |-> pen, ctm |-> ctm]
St(path, shift, saved, marks, area, gs) ==
    [path |-> path, shift |-> shift, saved |-> saved, marks |-> marks, area |-> area,
     gs |-> gs]

LEMMA RunFold == ASSUME NEW s, NEW q PROVE FoldLeft(Run, s, q) = Running!Fold(s, q)
  BY DEF FoldLeft, MapThenFoldSet, Max, Running!Fold, Running!Largest

LEMMA CallFields ==
    ASSUME NEW op, NEW arg
    PROVE  /\ "cmd" \notin DOMAIN Call(op, arg)
           /\ Call(op, arg).op = op /\ Call(op, arg).arg = arg
  BY DEF Call

LEMMA NewPathOf ==
    ASSUME NEW p, NEW t, NEW v, NEW m, NEW a, NEW g
    PROVE  NewPath(St(p, t, v, m, a, g)) = St(<<>>, 0, v, m, a, g)
  <1>1. \A x : [St(p, t, v, m, a, g) EXCEPT !.path = x] = St(x, t, v, m, a, g)
    BY DEF St
  <1>2. \A x : [St(x, t, v, m, a, g) EXCEPT !.shift = 0] = St(x, 0, v, m, a, g)
    BY DEF St
  <1> QED
    BY <1>1, <1>2 DEF NewPath

(* What each call does to a state of cairo.                                *)
LEMMA RunPath ==
    ASSUME NEW p, NEW t, NEW v, NEW m, NEW a, NEW g
    PROVE  /\ Run(St(p, t, v, m, a, g), Do("new_path")) = St(<<>>, 0, v, m, a, g)
           /\ \A r : Run(St(p, t, v, m, a, g), Call("rectangle", r))
                        = St(Append(p, InFrame(g.ctm, r)), t, v, m, a, g)
           /\ \A c : Run(St(p, t, v, m, a, g), Call("arc", c))
                        = St(Append(p, Subpath("circle", c)), t, v, m, a, g)
  <1>1. Run(St(p, t, v, m, a, g), Do("new_path")) = St(<<>>, 0, v, m, a, g)
    BY NewPathOf DEF Run, Do, Call
  <1>2. ASSUME NEW r PROVE Run(St(p, t, v, m, a, g), Call("rectangle", r))
                        = St(Append(p, InFrame(g.ctm, r)), t, v, m, a, g)
    BY DEF Run, Call, St
  <1>3. ASSUME NEW c PROVE Run(St(p, t, v, m, a, g), Call("arc", c))
                        = St(Append(p, Subpath("circle", c)), t, v, m, a, g)
    BY DEF Run, Call, St
  <1> QED
    BY <1>1, <1>2, <1>3

LEMMA RunSet ==
    ASSUME NEW p, NEW t, NEW v, NEW m, NEW a, NEW b, NEW col, NEW i, NEW n, NEW f, NEW x
    PROVE  LET s == St(p, t, v, m, a, Gs(b, col, i, n, f)) IN
           /\ Run(s, SetColor(x)) = St(p, t, v, m, a, Gs(b, x, NoImage, n, f))
           /\ Run(s, Call("surface", x)) = St(p, t, v, m, a, Gs(b, NoColor, x, n, f))
           /\ Run(s, Call("linetype", x)) = St(p, t, v, m, a, Gs(b, col, i, x, f))
           /\ Run(s, Do("reset_clip")) = St(p, t, v, m, a, Gs({}, col, i, n, f))
           /\ Run(s, Call("frame", x)) = St(p, t, v, m, a, Gs(b, col, i, n, [rot |-> 0] ++ x))
           /\ Run(s, Call("shift", x)) = St(p, x, v, m, a, Gs(b, col, i, n, f))
  <1> DEFINE s == St(p, t, v, m, a, Gs(b, col, i, n, f))
  <1>1. Run(s, SetColor(x)) = St(p, t, v, m, a, Gs(b, x, NoImage, n, f))
    BY DEF Run, SetColor, Call, St, Gs
  <1>2. Run(s, Call("surface", x)) = St(p, t, v, m, a, Gs(b, NoColor, x, n, f))
    BY DEF Run, Call, St, Gs
  <1>3. Run(s, Call("linetype", x)) = St(p, t, v, m, a, Gs(b, col, i, x, f))
    BY DEF Run, Call, St, Gs
  <1>4. Run(s, Do("reset_clip")) = St(p, t, v, m, a, Gs({}, col, i, n, f))
    BY DEF Run, Do, Call, St, Gs
  <1>5. Run(s, Call("frame", x)) = St(p, t, v, m, a, Gs(b, col, i, n, [rot |-> 0] ++ x))
    BY DEF Run, Call, St, Gs
  <1>6. Run(s, Call("shift", x)) = St(p, x, v, m, a, Gs(b, col, i, n, f))
    BY DEF Run, Call, St, Gs
  <1> QED
    BY <1>1, <1>2, <1>3, <1>4, <1>5, <1>6

LEMMA RunPaint ==
    ASSUME NEW p, NEW t, NEW v, NEW m, NEW a, NEW b, NEW col, NEW i, NEW n, NEW f
    PROVE  LET s == St(p, t, v, m, a, Gs(b, col, i, n, f))
               filled == Append(m, FillMark(p, col, "nonzero", b)) IN
           /\ Run(s, Do("fill")) = St(<<>>, 0, v, filled, a, Gs(b, col, i, n, f))
           /\ Run(s, Do("fill_preserve")) = St(p, t, v, filled, a, Gs(b, col, i, n, f))
           /\ Run(s, Do("stroke"))
                = St(<<>>, 0, v, Append(m, StrokeMark(p, col, n, b)), a, Gs(b, col, i, n, f))
           /\ Run(s, Do("paint"))
                = St(p, t, v, Append(m, ImageMark(a, i.look, i.smooth, b)), a,
                     Gs(b, col, i, n, f))
  <1> DEFINE s == St(p, t, v, m, a, Gs(b, col, i, n, f))
             filled == Append(m, FillMark(p, col, "nonzero", b))
  <1>1. Run(s, Do("fill")) = St(<<>>, 0, v, filled, a, Gs(b, col, i, n, f))
    BY DEF Run, Do, Call, St, Gs, FillNow, NewPath, Drawn
  <1>2. Run(s, Do("fill_preserve")) = St(p, t, v, filled, a, Gs(b, col, i, n, f))
    BY DEF Run, Do, Call, St, Gs, FillNow, Drawn
  <1>3. Run(s, Do("stroke"))
                = St(<<>>, 0, v, Append(m, StrokeMark(p, col, n, b)), a, Gs(b, col, i, n, f))
    BY DEF Run, Do, Call, St, Gs, StrokeNow, NewPath, Drawn
  <1>4. Run(s, Do("paint"))
                = St(p, t, v, Append(m, ImageMark(a, i.look, i.smooth, b)), a,
                     Gs(b, col, i, n, f))
    BY DEF Run, Do, Call, St, Gs, PaintNow, Drawn
  <1> QED
    BY <1>1, <1>2, <1>3, <1>4

LEMMA RunSaved ==
    ASSUME NEW p, NEW t, NEW v, NEW m, NEW a, NEW b, NEW col, NEW i, NEW n, NEW f
    PROVE  Run(St(p, t, v, m, a, Gs(b, col, i, n, f)), Do("save"))
             = St(p, t, Append(v, Gs(b, col, i, n, f)), m, a, Gs(b, col, i, n, f))
  BY DEF Run, Do, Call, St, Gs

LEMMA RunRestored ==
    ASSUME NEW p, NEW t, NEW v, NEW m, NEW a, NEW b, NEW col, NEW i, NEW n, NEW f
    PROVE  Run(St(p, t, v, m, a, Gs(b, col, i, n, f)), Do("restore"))
             = St(p, t, Front(v), m, a, Last(v))
  BY DEF Run, Do, Call, St, Gs

LEMMA RunShown ==
    ASSUME NEW p, NEW t, NEW v, NEW m, NEW a, NEW b, NEW col, NEW i, NEW n, NEW f, NEW x
    PROVE  Run(St(p, t, v, m, a, Gs(b, col, i, n, f)), Call("show_text", x))
             = St(p, t, v,
                  Append(m, TextMark([str |-> x, at |-> Last(p).pts[1], hadj |-> t,
                                      rot |-> -f.rot], col, b)), a, Gs(b, col, i, n, f))
  BY DEF Run, Do, Call, St, Gs, TextNow, Drawn

LEMMA RunClipped ==
    ASSUME NEW p, NEW t, NEW v, NEW m, NEW a, NEW b, NEW col, NEW i, NEW n, NEW f
    PROVE  Run(St(p, t, v, m, a, Gs(b, col, i, n, f)), Do("clip"))
             = St(<<>>, 0, v, m, p, Gs(b \cup {p[k] : k \in DOMAIN p}, col, i, n, f))
  <1> DEFINE g == Gs(b, col, i, n, f)
             s == St(p, t, v, m, a, g)
  <1> DEFINE e == {p[k] : k \in DOMAIN p}
             u == [s EXCEPT !.gs.clip = @ \cup e, !.area = p]
  <1>1. s.path = p
    BY DEF St
  <1>2. Run(s, Do("clip")) = NewPath([s EXCEPT !.gs.clip = @ \cup {s.path[k] : k \in DOMAIN s.path},
                                               !.area = s.path])
    <2> HIDE DEF s
    <2> QED
      BY DEF Run, Do, Call
  <1>3. Run(s, Do("clip")) = NewPath(u)
    <2> HIDE DEF s
    <2> QED
      BY <1>1, <1>2, Zenon
  <1> HIDE DEF e
  <1>4. NewPath(u) = St(<<>>, 0, v, m, p, Gs(b \cup e, col, i, n, f))
    <2>1. u = St(p, t, v, m, p, Gs(b \cup e, col, i, n, f))
      <3>1. [s EXCEPT !.gs.clip = @ \cup e] = St(p, t, v, m, a, Gs(b \cup e, col, i, n, f))
        BY DEF St, Gs
      <3> DEFINE h == Gs(b \cup e, col, i, n, f)
      <3> HIDE DEF h
      <3>2. [St(p, t, v, m, a, h) EXCEPT !.area = p] = St(p, t, v, m, p, h)
        BY DEF St
      <3>3. u = [[s EXCEPT !.gs.clip = @ \cup e] EXCEPT !.area = p]
        OBVIOUS
      <3> QED
        BY <3>1, <3>2, <3>3 DEF h
    <2> DEFINE h == Gs(b \cup e, col, i, n, f)
    <2>2. u = St(p, t, v, m, p, h)
      BY <2>1
    <2> HIDE DEF u, h
    <2>3. NewPath(St(p, t, v, m, p, h)) = St(<<>>, 0, v, m, p, h)
      BY NewPathOf
    <2> QED
      BY <2>2, <2>3 DEF h
  <1> QED
    BY <1>3, <1>4 DEF e

LEMMA RunRotate ==
    ASSUME NEW p, NEW t, NEW v, NEW m, NEW a, NEW b, NEW col, NEW i, NEW n, NEW x \in Int
    PROVE  Run(St(p, t, v, m, a, Gs(b, col, i, n, Identity)), Call("rotate", x))
             = St(p, t, v, m, a, Gs(b, col, i, n, [Identity EXCEPT !.rot = x]))
  BY DEF Run, Call, St, Gs, Identity

LEMMA RunCommand ==
    ASSUME NEW p, NEW t, NEW v, NEW m, NEW a, NEW g, NEW c \in Cmd
    PROVE  Run(St(p, t, v, m, a, g), c) = St(Trace(p, c), 0, v, m, a, g)
  <1>1. Traced(p, <<c>>) = Trace(p, c)
    BY TraceFold, Tracing!FoldOne
  <1>2. "cmd" \in DOMAIN c
    <2>1. CASE c = ClosePath
      BY <2>1 DEF ClosePath
    <2>2. CASE c \in [cmd : {"M", "L"}, at : Point]
      BY <2>2
    <2> QED
      BY <2>1, <2>2 DEF Cmd
  <1> DEFINE s == St(p, t, v, m, a, g)
  <1>3. s.path = p
    BY DEF St
  <1>4. \A x : [s EXCEPT !.path = x] = St(x, t, v, m, a, g)
    BY DEF St
  <1>5. \A x : [St(x, t, v, m, a, g) EXCEPT !.shift = 0] = St(x, 0, v, m, a, g)
    BY DEF St
  <1> HIDE DEF s
  <1>6. Run(s, c) = [[s EXCEPT !.path = Traced(s.path, <<c>>)] EXCEPT !.shift = 0]
    BY <1>2 DEF Run
  <1> QED
    BY <1>1, <1>3, <1>4, <1>5, <1>6 DEF s

(* Calls in a row.                                                         *)
Runs(s, q) == Running!Fold(s, q)
IsSeq(q) == \E S : q \in Seq(S)

LEMMA RunsConcat ==
    ASSUME NEW s, NEW p, IsSeq(p), NEW q, IsSeq(q)
    PROVE  IsSeq(p \o q) /\ Runs(s, p \o q) = Runs(Runs(s, p), q)
  <1>1. PICK S, T : p \in Seq(S) /\ q \in Seq(T)
    BY DEF IsSeq
  <1> DEFINE U == S \cup T
  <1>2. p \in Seq(U) /\ q \in Seq(U)
    <2>1. \A n \in 1..Len(p) : p[n] \in U
      BY <1>1, ElementOfSeq
    <2>2. \A n \in 1..Len(q) : q[n] \in U
      BY <1>1, ElementOfSeq
    <2> HIDE DEF U
    <2>3. Len(p) \in Nat /\ Len(q) \in Nat /\ p = [n \in 1..Len(p) |-> p[n]] /\ q = [n \in 1..Len(q) |-> q[n]]
      BY <1>1
    <2> QED
      BY <2>1, <2>2, <2>3
  <1> HIDE DEF U
  <1>3. p \o q \in Seq(U)
    BY <1>2
  <1> QED
    BY <1>2, <1>3, Running!FoldConcat DEF Runs, IsSeq

(* The states that a sequence of calls goes through.                       *)
LEMMA RunsThrough ==
    ASSUME NEW n \in Nat, NEW q, DOMAIN q = 1..n, NEW f,
           \A k \in 1..n : f[k + 1] = Run(f[k], q[k])
    PROVE  Runs(f[1], q) = f[n + 1]
  <1>1. PICK g : Running!FoldsTo(g, f[1], q, n) /\ Running!Fold(f[1], q) = g[1..n]
    BY Running!FoldSteps
  <1>2. g[1..0] = f[1] /\ \A k \in 0..(n - 1) : g[1..(k + 1)] = Run(g[1..k], q[k + 1])
    BY <1>1, Running!FoldPrefix
  <1> DEFINE S == {k \in Nat : k <= n => g[1..k] = f[k + 1]}
  <1>3. 0 \in S
    BY <1>2
  <1>4. ASSUME NEW k \in Nat, k \in S PROVE k + 1 \in S
    <2> SUFFICES ASSUME k + 1 <= n PROVE g[1..(k + 1)] = f[(k + 1) + 1]
      OBVIOUS
    <2>1. k \in 0..(n - 1) /\ k + 1 \in 1..n
      OBVIOUS
    <2>2. g[1..k] = f[k + 1]
      BY <1>4
    <2>3. f[(k + 1) + 1] = Run(f[k + 1], q[k + 1])
      BY <2>1
    <2> QED
      BY <1>2, <2>1, <2>2, <2>3
  <1> HIDE DEF S
  <1>5. Nat \subseteq S
    BY <1>3, <1>4, SetInduction
  <1>6. g[1..n] = f[n + 1]
    BY <1>5 DEF S
  <1> QED
    BY <1>1, <1>6 DEF Runs

LEMMA RunsNone == ASSUME NEW s PROVE IsSeq(<<>>) /\ Runs(s, <<>>) = s
  <1>1. <<>> \in Seq({})
    OBVIOUS
  <1> QED
    BY <1>1, Running!FoldEmpty DEF Runs, IsSeq

LEMMA RunsOne == ASSUME NEW s, NEW c PROVE IsSeq(<<c>>) /\ Runs(s, <<c>>) = Run(s, c)
  <1>1. <<c>> \in Seq({c})
    OBVIOUS
  <1> QED
    BY <1>1, Running!FoldOne DEF Runs, IsSeq

LEMMA RunsTwo ==
    ASSUME NEW s, NEW c, NEW d
    PROVE  IsSeq(<<c, d>>) /\ Runs(s, <<c, d>>) = Run(Run(s, c), d)
  <1> DEFINE q == <<c, d>>
             s1 == Run(s, c)
             s2 == Run(s1, d)
             f == <<s, s1, s2>>
  <1>1. DOMAIN q = 1..2 /\ q[1] = c /\ q[2] = d /\ q \in Seq({c, d})
    OBVIOUS
  <1> HIDE DEF q, s1, s2
  <1>2. f[1] = s /\ f[2] = s1 /\ f[3] = s2
    OBVIOUS
  <1> HIDE DEF f
  <1>3. \A k \in 1..2 : f[k + 1] = Run(f[k], q[k])
    <2> TAKE k \in 1..2
    <2>1. k = 1 \/ k = 2
      OBVIOUS
    <2> QED
      BY <1>1, <1>2, <2>1 DEF s1, s2
  <1>4. Runs(f[1], q) = f[2 + 1]
    <2>1. 2 \in Nat
      OBVIOUS
    <2> QED
      BY <1>1, <1>3, <2>1, RunsThrough
  <1>5. Runs(s, q) = s2 /\ IsSeq(q)
    BY <1>1, <1>2, <1>4 DEF IsSeq
  <1> QED
    BY <1>5 DEF q, s1, s2

LEMMA RunsThree ==
    ASSUME NEW s, NEW c, NEW d, NEW e
    PROVE  IsSeq(<<c, d, e>>) /\ Runs(s, <<c, d, e>>) = Run(Run(Run(s, c), d), e)
  <1> DEFINE q == <<c, d, e>>
             s1 == Run(s, c)
             s2 == Run(s1, d)
             s3 == Run(s2, e)
             f == <<s, s1, s2, s3>>
  <1>1. DOMAIN q = 1..3 /\ q[1] = c /\ q[2] = d /\ q[3] = e /\ q \in Seq({c, d, e})
    OBVIOUS
  <1> HIDE DEF q, s1, s2, s3
  <1>2. f[1] = s /\ f[2] = s1 /\ f[3] = s2 /\ f[4] = s3
    OBVIOUS
  <1> HIDE DEF f
  <1>3. \A k \in 1..3 : f[k + 1] = Run(f[k], q[k])
    <2> TAKE k \in 1..3
    <2>1. k = 1 \/ k = 2 \/ k = 3
      OBVIOUS
    <2> QED
      BY <1>1, <1>2, <2>1 DEF s1, s2, s3
  <1>4. Runs(f[1], q) = f[3 + 1]
    <2>1. 3 \in Nat
      OBVIOUS
    <2> QED
      BY <1>1, <1>3, <2>1, RunsThrough
  <1>5. Runs(s, q) = s3 /\ IsSeq(q)
    BY <1>1, <1>2, <1>4 DEF IsSeq
  <1> QED
    BY <1>5 DEF q, s1, s2, s3

LEMMA RunsFour ==
    ASSUME NEW s, NEW c, NEW d, NEW e, NEW h
    PROVE  /\ IsSeq(<<c, d, e, h>>)
           /\ Runs(s, <<c, d, e, h>>) = Run(Run(Run(Run(s, c), d), e), h)
  <1>1. <<c, d, e, h>> = <<c, d>> \o <<e, h>>
    BY JoinPairs
  <1>2. IsSeq(<<c, d>>) /\ Runs(s, <<c, d>>) = Run(Run(s, c), d)
    BY RunsTwo
  <1>3. IsSeq(<<e, h>>) /\ \A t : Runs(t, <<e, h>>) = Run(Run(t, e), h)
    BY RunsTwo
  <1> DEFINE p == <<c, d>>
             q == <<e, h>>
  <1> HIDE DEF p, q
  <1>4. IsSeq(p) /\ IsSeq(q)
    BY <1>2, <1>3 DEF p, q
  <1>5. IsSeq(p \o q) /\ Runs(s, p \o q) = Runs(Runs(s, p), q)
    BY <1>4, RunsConcat
  <1> QED
    BY <1>1, <1>2, <1>3, <1>5 DEF p, q

(* Coordinates as they are, and those of an image.                         *)
LEMMA DivCancel ==
    ASSUME NEW r \in Int, NEW w \in Nat \ {0}
    PROVE  (0 * r) \div w = 0 /\ ((0 + w) * r) \div w = r
  <1>1. 0 * r = 0 /\ (0 + w) * r = w * r
    OBVIOUS
  <1>2. 0 \div w = 0
    OBVIOUS
  <1>3. (w * r) \div w = r
    OBVIOUS
  <1> QED
    BY <1>1, <1>2, <1>3

LEMMA BoxTurned ==
    ASSUME NEW x0, NEW y0, NEW x1, NEW y1
    PROVE  [Box(x0, y0, x1, y1) EXCEPT !.rot = 0] = Box(x0, y0, x1, y1)
  BY DEF Box, Subpath

LEMMA InIdentity ==
    ASSUME NEW r \in Corners4, r[3] >= 0, r[4] >= 0
    PROVE  InFrame(Identity, r) = BoxOf(r)
  <1>1. r[1] \in Int /\ r[2] \in Int /\ r[3] \in Int /\ r[4] \in Int
    BY DEF Corners4
  <1>2. \A a \in Int : 0 + (a * 1) \div 1 = a
    OBVIOUS
  <1>3. /\ Identity.rect[1] = 0 /\ Identity.rect[2] = 0 /\ Identity.rect[3] = 1
        /\ Identity.rect[4] = 1 /\ Identity.w = 1 /\ Identity.h = 1 /\ Identity.rot = 0
    BY DEF Identity
  <1>4. BoxOf(r) = Box(r[1], r[2], r[1] + r[3], r[2] + r[4])
    BY <1>1 DEF BoxOf
  <1>5. r[1] + r[3] \in Int /\ r[2] + r[4] \in Int
    BY <1>1
  <1> DEFINE a == 0 + (r[1] * 1) \div 1
             b == 0 + (r[2] * 1) \div 1
             c == 0 + ((r[1] + r[3]) * 1) \div 1
             d == 0 + ((r[2] + r[4]) * 1) \div 1
  <1>6. a = r[1] /\ b = r[2] /\ c = r[1] + r[3] /\ d = r[2] + r[4]
    BY <1>1, <1>2, <1>5
  <1>7. InFrame(Identity, r) = [Box(a, b, c, d) EXCEPT !.rot = 0]
    BY <1>3, Zenon DEF InFrame
  <1> HIDE DEF a, b, c, d
  <1> QED
    BY <1>4, <1>6, <1>7, BoxTurned

LEMMA InImage ==
    ASSUME NEW r \in Corners4, r[3] >= 0, r[4] >= 0, NEW w \in Nat \ {0}, NEW h \in Nat \ {0},
           NEW ctm, ctm.rect = r, ctm.w = w, ctm.h = h, ctm.rot = 0
    PROVE  InFrame(ctm, <<0, 0, w, h>>) = BoxOf(r)
  <1>1. r[1] \in Int /\ r[2] \in Int /\ r[3] \in Int /\ r[4] \in Int
    BY DEF Corners4
  <1>2. /\ (0 * r[3]) \div w = 0 /\ ((0 + w) * r[3]) \div w = r[3]
        /\ (0 * r[4]) \div h = 0 /\ ((0 + h) * r[4]) \div h = r[4]
    BY <1>1, DivCancel
  <1>3. BoxOf(r) = Box(r[1], r[2], r[1] + r[3], r[2] + r[4])
    BY <1>1 DEF BoxOf
  <1> DEFINE q == <<0, 0, w, h>>
  <1>4. q[1] = 0 /\ q[2] = 0 /\ q[3] = w /\ q[4] = h
    OBVIOUS
  <1> HIDE DEF q
  <1>5. InFrame(ctm, q) = [Box(r[1] + (0 * r[3]) \div w, r[2] + (0 * r[4]) \div h,
                               r[1] + ((0 + w) * r[3]) \div w, r[2] + ((0 + h) * r[4]) \div h)
                             EXCEPT !.rot = 0]
    BY <1>4, Zenon DEF InFrame
  <1>6. InFrame(ctm, q) = [Box(r[1] + 0, r[2] + 0, r[1] + r[3], r[2] + r[4]) EXCEPT !.rot = 0]
    BY <1>2, <1>5, Zenon
  <1>7. r[1] + 0 = r[1] /\ r[2] + 0 = r[2]
    BY <1>1
  <1>8. InFrame(ctm, q) = [Box(r[1], r[2], r[1] + r[3], r[2] + r[4]) EXCEPT !.rot = 0]
    BY <1>6, <1>7, Zenon
  <1>9. InFrame(ctm, q) = BoxOf(r)
    BY <1>3, <1>8, BoxTurned
  <1> QED
    BY <1>9 DEF q

(* The dashes set are those of the line type.                              *)
LEMMA CairoDashes ==
    ASSUME NEW lty \in LineType, lty # BLANK
    PROVE  CairoDash(lty) = DashPattern(lty)
  <1>1. CASE lty = SOLID
    BY <1>1, DashDigits DEF CairoDash
  <1>2. CASE lty # SOLID
    <2> DEFINE n == Max({m \in 1..8 : \A k \in 2..m : Digit(lty, k) # 0})
    <2>1. /\ n \in 1..8 /\ DashPattern(lty) = SubSeq(lty, 1, n)
          /\ \A k \in 1..8 : lty[k] # 0 <=> k <= n
      BY <1>2, DashDigits
    <2>2. Len(lty) = 8
      BY LtyDigits
    <2> HIDE DEF n
    <2> DEFINE I == {i \in 1..Len(lty) : lty[i] # 0}
    <2>3. n \in I /\ \A j \in I : n >= j
      BY <2>1, <2>2
    <2>4. SelectLastInSeq(lty, LAMBDA d : d # 0) = IF I # {} THEN Max(I) ELSE 0
      BY DEF SelectLastInSeq
    <2>5. Max(I) = n
      <3>1. I \subseteq Int
        OBVIOUS
      <3> HIDE DEF I
      <3>2. \A x \in I : (\A j \in I : x >= j) => x = n
        BY <2>3, <3>1
      <3>3. Max(I) = CHOOSE x \in I : \A j \in I : x >= j
        BY DEF Max
      <3> QED
        BY <2>3, <3>2, <3>3
    <2>6. SelectLastInSeq(lty, LAMBDA d : d # 0) = n
      <3> HIDE DEF I
      <3> QED
        BY <2>3, <2>4, <2>5
    <2>7. CairoDash(lty) = SubSeq(lty, 1, SelectLastInSeq(lty, LAMBDA d : d # 0))
      BY <1>2 DEF CairoDash
    <2> QED
      BY <2>1, <2>6, <2>7
  <1> QED
    BY <1>1, <1>2

(* Marks without the rule that cairo is not told.                          *)
Unruled(q) == Running!Mapped(q)

LEMMA UnruledOne ==
    ASSUME NEW m
    PROVE  Unruled(<<m>>) = <<[m EXCEPT !.rule = "nonzero"]>> /\ Unruled(<<>>) = <<>>
  <1> DEFINE q == <<m>>
             x == [m EXCEPT !.rule = "nonzero"]
  <1>1. DOMAIN q = 1..1 /\ q[1] = m
    OBVIOUS
  <1>2. Unruled(q) = [n \in DOMAIN q |-> [q[n] EXCEPT !.rule = "nonzero"]]
    BY DEF Unruled, Running!Mapped
  <1> HIDE DEF q
  <1>3. [n \in 1..1 |-> [q[n] EXCEPT !.rule = "nonzero"]] = [n \in 1..1 |-> x]
    <2>1. \A n \in 1..1 : [q[n] EXCEPT !.rule = "nonzero"] = x
      <3> TAKE n \in 1..1
      <3>1. n = 1
        OBVIOUS
      <3> QED
        BY <1>1, <3>1
    <2> HIDE DEF x
    <2> QED
      BY <2>1, Zenon
  <1> HIDE DEF x
  <1>4. [n \in 1..1 |-> x] = <<x>>
    OBVIOUS
  <1>5. Unruled(<<>>) = <<>>
    <2> DEFINE e == <<>>
    <2>1. DOMAIN e = {}
      OBVIOUS
    <2>2. Unruled(e) = [n \in DOMAIN e |-> [e[n] EXCEPT !.rule = "nonzero"]]
      BY DEF Unruled, Running!Mapped
    <2> HIDE DEF e
    <2>3. Unruled(e) = [n \in {} |-> [e[n] EXCEPT !.rule = "nonzero"]]
      BY <2>1, <2>2, Zenon
    <2>4. [n \in {} |-> [e[n] EXCEPT !.rule = "nonzero"]] = <<>>
      OBVIOUS
    <2> QED
      BY <2>3, <2>4 DEF e
  <1> QED
    BY <1>1, <1>2, <1>3, <1>4, <1>5 DEF q, x

LEMMA RuleKept ==
    ASSUME NEW m, m.rule = "nonzero", m = [k \in DOMAIN m |-> m[k]]
    PROVE  [m EXCEPT !.rule = "nonzero"] = m
  OBVIOUS

LEMMA UnruledFill ==
    ASSUME NEW area, NEW col, NEW rule, NEW clip
    PROVE  [FillMark(area, col, rule, clip) EXCEPT !.rule = "nonzero"]
               = FillMark(area, col, "nonzero", clip)
  BY DEF FillMark, Mark

LEMMA UnruledStroke ==
    ASSUME NEW area, NEW col, NEW pen, NEW clip
    PROVE  [StrokeMark(area, col, pen, clip) EXCEPT !.rule = "nonzero"] = StrokeMark(area, col, pen, clip)
  <1> DEFINE m == StrokeMark(area, col, pen, clip)
  <1>1. m.rule = "nonzero"
    BY DEF StrokeMark, Mark
  <1>2. m = [k \in DOMAIN m |-> m[k]]
    BY DEF StrokeMark
  <1> HIDE DEF m
  <1>3. [m EXCEPT !.rule = "nonzero"] = m
    BY <1>1, <1>2, RuleKept
  <1> QED
    BY <1>3 DEF m

LEMMA UnruledText ==
    ASSUME NEW text, NEW col, NEW clip
    PROVE  [TextMark(text, col, clip) EXCEPT !.rule = "nonzero"] = TextMark(text, col, clip)
  <1> DEFINE m == TextMark(text, col, clip)
  <1>1. m.rule = "nonzero"
    BY DEF TextMark, Mark
  <1>2. m = [k \in DOMAIN m |-> m[k]]
    BY DEF TextMark
  <1> HIDE DEF m
  <1>3. [m EXCEPT !.rule = "nonzero"] = m
    BY <1>1, <1>2, RuleKept
  <1> QED
    BY <1>3 DEF m

LEMMA UnruledImage ==
    ASSUME NEW area, NEW look, NEW smooth, NEW clip
    PROVE  [ImageMark(area, look, smooth, clip) EXCEPT !.rule = "nonzero"] = ImageMark(area, look, smooth, clip)
  <1> DEFINE m == ImageMark(area, look, smooth, clip)
  <1>1. m.rule = "nonzero"
    BY DEF ImageMark, Mark
  <1>2. m = [k \in DOMAIN m |-> m[k]]
    BY DEF ImageMark
  <1> HIDE DEF m
  <1>3. [m EXCEPT !.rule = "nonzero"] = m
    BY <1>1, <1>2, RuleKept
  <1> QED
    BY <1>3 DEF m

(* A state of cairo between and within draw calls, where nothing is saved  *)
(* and coordinates are as they are: its path, its marks and its clip.      *)
InState(s, p, m, b) ==
    \E t, a, col, i, n : s = St(p, t, <<>>, m, a, Gs(b, col, i, n, Identity))

(* Between draw calls there may be a path left.                            *)
Ready(s, m, b) == \E p : IsSeq(p) /\ InState(s, p, m, b)

LEMMA SeqAppend ==
    ASSUME NEW q, IsSeq(q), NEW x
    PROVE  \E U : q \in Seq(U) /\ x \in U
  <1>1. PICK S : q \in Seq(S)
    BY DEF IsSeq
  <1> DEFINE U == S \cup {x}
  <1>2. q \in Seq(U)
    <2>1. \A n \in 1..Len(q) : q[n] \in U
      BY <1>1, ElementOfSeq
    <2> HIDE DEF U
    <2>2. Len(q) \in Nat /\ q = [n \in 1..Len(q) |-> q[n]]
      BY <1>1
    <2> QED
      BY <2>1, <2>2
  <1>3. x \in U
    OBVIOUS
  <1> HIDE DEF U
  <1> QED
    BY <1>2, <1>3

LEMMA AppendJoins ==
    ASSUME NEW q, IsSeq(q), NEW x
    PROVE  /\ q \o <<x>> = Append(q, x) /\ q \o <<>> = q /\ <<>> \o q = q
           /\ IsSeq(Append(q, x)) /\ Last(Append(q, x)) = x
  <1>1. PICK U : q \in Seq(U) /\ x \in U
    BY SeqAppend
  <1> DEFINE r == Append(q, x)
  <1>2. r \in Seq(U) /\ Len(r) = Len(q) + 1 /\ r[Len(q) + 1] = x
    BY <1>1, AppendProperties
  <1>3. q \o <<x>> = r
    BY <1>1
  <1>4. q \o <<>> = q /\ <<>> \o q = q
    BY <1>1, EmptyConcat
  <1> HIDE DEF r
  <1>5. Last(r) = x
    BY <1>2 DEF Last
  <1>6. IsSeq(r)
    BY <1>2 DEF IsSeq
  <1> QED
    BY <1>3, <1>4, <1>5, <1>6 DEF r

(* Fill and stroke.                                                        *)
FillCalls(col) ==
    IF Transparent(col) THEN <<>> ELSE <<SetColor(col), Do("fill_preserve")>>
StrokeCalls(line) ==
    IF Transparent(line.col) \/ line.lty = BLANK THEN <<>>
    ELSE <<SetLinetype(line), SetColor(line.col), Do("stroke")>>

LEMMA FillRuns ==
    ASSUME NEW s, NEW p, NEW m, NEW b, InState(s, p, m, b), IsSeq(m), NEW col, NEW rule
    PROVE  /\ IsSeq(FillCalls(col))
           /\ InState(Runs(s, FillCalls(col)), p,
                      m \o Unruled(Seen(FillMark(p, col, rule, b))), b)
  <1> DEFINE f == FillMark(p, col, rule, b)
             c == FillCalls(col)
             v == Unruled(Seen(f))
             g == FillMark(p, col, "nonzero", b)
  <1>1. f.do = "fill" /\ f.col = col
    BY MarkFields
  <1>2. [f EXCEPT !.rule = "nonzero"] = g
    BY UnruledFill
  <1> HIDE DEF f, g
  <1>3. CASE Transparent(col)
    <2>1. Seen(f) = <<>> /\ c = <<>>
      BY <1>1, <1>3 DEF Seen, FillCalls
    <2>2. v = <<>>
      BY <2>1, UnruledOne
    <2> HIDE DEF c, v
    <2>3. m \o v = m
      BY <2>2, AppendJoins
    <2>4. IsSeq(c) /\ Runs(s, c) = s
      BY <2>1, RunsNone
    <2> QED
      BY <2>3, <2>4 DEF c, v, f
  <1>4. CASE ~Transparent(col)
    <2>1. Seen(f) = <<f>> /\ c = <<SetColor(col), Do("fill_preserve")>>
      BY <1>1, <1>4 DEF Seen, FillCalls
    <2>2. v = <<g>>
      BY <1>2, <2>1, UnruledOne
    <2>3. PICK t, a, cl, i, n : s = St(p, t, <<>>, m, a, Gs(b, cl, i, n, Identity))
      BY DEF InState
    <2> HIDE DEF c, v
    <2>4. m \o v = Append(m, g)
      BY <2>2, AppendJoins
    <2>5. IsSeq(c) /\ Runs(s, c) = Run(Run(s, SetColor(col)), Do("fill_preserve"))
      BY <2>1, RunsTwo
    <2>6. Run(s, SetColor(col)) = St(p, t, <<>>, m, a, Gs(b, col, NoImage, n, Identity))
      BY <2>3, RunSet
    <2>7. Run(St(p, t, <<>>, m, a, Gs(b, col, NoImage, n, Identity)), Do("fill_preserve"))
             = St(p, t, <<>>, Append(m, g), a, Gs(b, col, NoImage, n, Identity))
      BY RunPaint DEF g
    <2>8. Runs(s, c) = St(p, t, <<>>, m \o v, a, Gs(b, col, NoImage, n, Identity))
      BY <2>4, <2>5, <2>6, <2>7
    <2>9. InState(Runs(s, c), p, m \o v, b)
      BY <2>8 DEF InState
    <2> QED
      BY <2>5, <2>9 DEF c, v, f
  <1> QED
    BY <1>3, <1>4

LEMMA StrokeRuns ==
    ASSUME NEW s, NEW p, NEW m, NEW b, InState(s, p, m, b), IsSeq(m), IsSeq(p),
           NEW line \in Line
    PROVE  /\ IsSeq(StrokeCalls(line))
           /\ Ready(Runs(s, StrokeCalls(line)),
                    m \o Unruled(Seen(StrokeMark(p, line.col, AskedPen(line), b))), b)
  <1> DEFINE f == StrokeMark(p, line.col, AskedPen(line), b)
             c == StrokeCalls(line)
             v == Unruled(Seen(f))
  <1>1. f.do = "stroke" /\ f.col = line.col
    BY MarkFields
  <1>2. [f EXCEPT !.rule = "nonzero"] = f
    BY UnruledStroke
  <1>0. line.lty \in LineType /\ (line.lty = BLANK => Transparent(line.col))
    BY DEF Line
  <1> HIDE DEF f
  <1>3. CASE Transparent(line.col)
    <2>1. Seen(f) = <<>> /\ c = <<>>
      BY <1>1, <1>3 DEF Seen, StrokeCalls
    <2>2. v = <<>>
      BY <2>1, UnruledOne
    <2> HIDE DEF c, v
    <2>3. m \o v = m
      BY <2>2, AppendJoins
    <2>4. IsSeq(c) /\ Runs(s, c) = s
      BY <2>1, RunsNone
    <2>5. Ready(Runs(s, c), m \o v, b)
      BY <2>3, <2>4 DEF Ready
    <2> QED
      BY <2>4, <2>5 DEF c, v, f
  <1>4. CASE ~Transparent(line.col)
    <2> DEFINE pen == AskedPen(line)
               col == line.col
    <2>1. Seen(f) = <<f>> /\ c = <<SetLinetype(line), SetColor(col), Do("stroke")>>
      BY <1>0, <1>1, <1>4 DEF Seen, StrokeCalls
    <2>2. v = <<f>>
      BY <1>2, <2>1, UnruledOne
    <2>3. PICK t, a, cl, i, n : s = St(p, t, <<>>, m, a, Gs(b, cl, i, n, Identity))
      BY DEF InState
    <2>10. SetLinetype(line) = Call("linetype", pen)
      BY <1>0, <1>4, CairoDashes DEF SetLinetype, AskedPen
    <2>11. f = StrokeMark(p, col, pen, b)
      BY DEF f
    <2> HIDE DEF c, v, pen, col
    <2>4. m \o v = Append(m, f)
      BY <2>2, AppendJoins
    <2>5. /\ IsSeq(c)
          /\ Runs(s, c) = Run(Run(Run(s, Call("linetype", pen)), SetColor(col)), Do("stroke"))
      BY <2>1, <2>10, RunsThree
    <2>6. Run(s, Call("linetype", pen)) = St(p, t, <<>>, m, a, Gs(b, cl, i, pen, Identity))
      BY <2>3, RunSet
    <2>7. Run(St(p, t, <<>>, m, a, Gs(b, cl, i, pen, Identity)), SetColor(col))
             = St(p, t, <<>>, m, a, Gs(b, col, NoImage, pen, Identity))
      BY RunSet
    <2>8. Run(St(p, t, <<>>, m, a, Gs(b, col, NoImage, pen, Identity)), Do("stroke"))
             = St(<<>>, 0, <<>>, Append(m, f), a, Gs(b, col, NoImage, pen, Identity))
      BY <2>11, RunPaint
    <2>9. Runs(s, c) = St(<<>>, 0, <<>>, m \o v, a, Gs(b, col, NoImage, pen, Identity))
      BY <2>4, <2>5, <2>6, <2>7, <2>8
    <2>12. InState(Runs(s, c), <<>>, m \o v, b)
      BY <2>9 DEF InState
    <2>13. Ready(Runs(s, c), m \o v, b)
      BY <2>12, RunsNone DEF Ready
    <2> QED
      BY <2>5, <2>13 DEF c, v, f
  <1> QED
    BY <1>3, <1>4

LEMMA UnruledSeen ==
    ASSUME NEW x, NEW y
    PROVE  /\ Unruled(Seen(x) \o Seen(y)) = Unruled(Seen(x)) \o Unruled(Seen(y))
           /\ IsSeq(Unruled(Seen(x))) /\ IsSeq(Unruled(Seen(y)))
  <1> DEFINE S == {x, y}
             T == {[z EXCEPT !.rule = "nonzero"] : z \in S}
  <1>1. x \in S /\ y \in S /\ \A z \in S : [z EXCEPT !.rule = "nonzero"] \in T
    OBVIOUS
  <1> HIDE DEF S, T
  <1>2. Seen(x) \in Seq(S) /\ Seen(y) \in Seq(S)
    BY <1>1, SeenTyped
  <1>3. Unruled(Seen(x)) \in Seq(T) /\ Unruled(Seen(y)) \in Seq(T)
    BY <1>1, <1>2, Running!MappedSequence DEF Unruled
  <1>4. Unruled(Seen(x) \o Seen(y)) = Unruled(Seen(x)) \o Unruled(Seen(y))
    BY <1>1, <1>2, Running!MappedConcat DEF Unruled
  <1> QED
    BY <1>3, <1>4 DEF IsSeq

Joins(p, q, r) == (p \o q) \o r = p \o (q \o r) /\ IsSeq(p \o q)

LEMMA SeqConcat ==
    ASSUME NEW p, IsSeq(p), NEW q, IsSeq(q), NEW r, IsSeq(r)
    PROVE  Joins(p, q, r)
  <1>1. PICK A, B, C : p \in Seq(A) /\ q \in Seq(B) /\ r \in Seq(C)
    BY DEF IsSeq
  <1> DEFINE U == A \cup B \cup C
  <1>2. ASSUME NEW S, S \subseteq U, NEW x \in Seq(S) PROVE x \in Seq(U)
    <2>1. \A n \in 1..Len(x) : x[n] \in U
      BY <1>2, ElementOfSeq
    <2> HIDE DEF U
    <2>2. Len(x) \in Nat /\ x = [n \in 1..Len(x) |-> x[n]]
      BY <1>2
    <2> QED
      BY <2>1, <2>2
  <1>3. A \subseteq U /\ B \subseteq U /\ C \subseteq U
    OBVIOUS
  <1> HIDE DEF U
  <1>4. p \in Seq(U) /\ q \in Seq(U) /\ r \in Seq(U)
    BY <1>1, <1>2, <1>3
  <1>5. p \o q \in Seq(U)
    BY <1>4
  <1> QED
    BY <1>4, <1>5, ConcatConcat DEF IsSeq, Joins

LEMMA PaintRuns ==
    ASSUME NEW s, NEW p, NEW m, NEW b, InState(s, p, m, b), IsSeq(m), IsSeq(p),
           NEW dc, dc.line \in Line, NEW rule
    PROVE  /\ IsSeq(FillAndStroke(dc))
           /\ Ready(Runs(s, FillAndStroke(dc)),
                    m \o Unruled(Visible(Paint(p, dc.fill, rule, dc.line.col,
                                               AskedPen(dc.line), b))), b)
  <1> DEFINE col == dc.fill
             line == dc.line
             x == FillMark(p, col, rule, b)
             y == StrokeMark(p, line.col, AskedPen(line), b)
             c == FillCalls(col)
             d == StrokeCalls(line)
             s1 == Runs(s, c)
             u == Unruled(Seen(x))
             v == Unruled(Seen(y))
  <1>1. FillAndStroke(dc) = c \o d
    BY DEF FillAndStroke, FillCalls, StrokeCalls
  <1>2. IsSeq(c) /\ InState(s1, p, m \o u, b)
    BY FillRuns
  <1>3. Unruled(Seen(x) \o Seen(y)) = u \o v /\ IsSeq(u) /\ IsSeq(v)
    BY UnruledSeen
  <1>4. Visible(<<x, y>>) = Seen(x) \o Seen(y)
    BY VisibleTwo
  <1>5. Paint(p, dc.fill, rule, dc.line.col, AskedPen(dc.line), b) = <<x, y>>
    BY DEF Paint
  <1>12. v = Unruled(Seen(StrokeMark(p, line.col, AskedPen(line), b))) /\ line \in Line
    OBVIOUS
  <1> HIDE DEF x, y, u, v, s1, c
  <1>13. IsSeq(m) /\ IsSeq(u) /\ IsSeq(v)
    BY <1>3
  <1>6. (m \o u) \o v = m \o (u \o v) /\ IsSeq(m \o u)
    <2>1. Joins(m, u, v)
      BY <1>13, SeqConcat
    <2> QED
      BY <2>1 DEF Joins
  <1> DEFINE mu == m \o u
  <1>7. InState(s1, p, mu, b) /\ IsSeq(mu)
    BY <1>2, <1>6
  <1> HIDE DEF mu, d, line, col
  <1>8. IsSeq(d) /\ Ready(Runs(s1, d), mu \o v, b)
    BY <1>7, <1>12, StrokeRuns DEF d
  <1>9. IsSeq(c \o d) /\ Runs(s, c \o d) = Runs(s1, d)
    BY <1>2, <1>8, RunsConcat DEF s1
  <1>10. mu \o v = m \o Unruled(Seen(x) \o Seen(y))
    BY <1>3, <1>6 DEF mu
  <1> QED
    BY <1>1, <1>4, <1>5, <1>8, <1>9, <1>10

(* Path commands.                                                          *)
LEMMA LineOn ==
    ASSUME NEW q \in Seq(Point), NEW x \in Point
    PROVE  Trace(<<Subpath("open", q)>>, LineTo(x)) = <<Subpath("open", Append(q, x))>>
  <1> DEFINE o == Subpath("open", q)
             t == <<o>>
             r == Append(q, x)
  <1>1. Trace(t, LineTo(x)) = [t EXCEPT ![Len(t)].pts = Append(@, x)]
    BY DEF Trace, LineTo
  <1>2. o.pts = q /\ [o EXCEPT !.pts = r] = Subpath("open", r)
    <2> HIDE DEF r
    <2> QED
      BY DEF Subpath
  <1> HIDE DEF o
  <1>3. Len(t) = 1 /\ t[1] = o /\ t \in Seq({o})
    OBVIOUS
  <1>4. [t EXCEPT ![1] = [o EXCEPT !.pts = r]] = <<[o EXCEPT !.pts = r]>>
    <2> DEFINE e == [o EXCEPT !.pts = r]
    <2> HIDE DEF e
    <2> QED
      OBVIOUS
  <1>5. [t EXCEPT ![Len(t)].pts = Append(@, x)] = [t EXCEPT ![1] = [o EXCEPT !.pts = r]]
    BY <1>2, <1>3, Zenon
  <1> QED
    BY <1>1, <1>2, <1>4, <1>5 DEF o

LEMMA ClosedUp ==
    ASSUME NEW q
    PROVE  Trace(<<Subpath("open", q)>>, ClosePath) = <<Subpath("closed", q)>>
  <1> DEFINE o == Subpath("open", q)
             t == <<o>>
             e == [o EXCEPT !.shape = "closed"]
  <1>1. Trace(t, ClosePath) = [t EXCEPT ![Len(t)].shape = "closed"]
    BY DEF Trace, ClosePath
  <1>2. e = Subpath("closed", q)
    BY DEF Subpath
  <1> HIDE DEF o
  <1>3. Len(t) = 1 /\ t[1] = o /\ t \in Seq({o})
    OBVIOUS
  <1>4. [t EXCEPT ![Len(t)].shape = "closed"] = [t EXCEPT ![1] = e]
    BY <1>3, Zenon
  <1> HIDE DEF e
  <1>5. [t EXCEPT ![1] = e] = <<e>>
    OBVIOUS
  <1> QED
    BY <1>1, <1>2, <1>4, <1>5 DEF o

PolyLines(points) == [n \in 1..Len(points) - 1 |-> LineTo(points[n + 1])]

(* From the first point on.                                                *)
LEMMA PolyRuns ==
    ASSUME NEW points \in Points, NEW v, NEW m, NEW a, NEW g
    PROVE  /\ IsSeq(PolyLines(points)) /\ points[1] \in Point
           /\ Runs(St(<<Subpath("open", <<points[1]>>)>>, 0, v, m, a, g), PolyLines(points))
                 = St(<<Subpath("open", points)>>, 0, v, m, a, g)
  <1> DEFINE N == Len(points)
             q == PolyLines(points)
             P(k) == SubSeq(points, 1, k)
             f == [k \in 1..N |-> St(<<Subpath("open", P(k))>>, 0, v, m, a, g)]
  <1>1. /\ points \in Seq(Point) /\ N \in Nat \ {0} /\ N - 1 \in Nat
        /\ \A k \in 1..N : points[k] \in Point
    BY DEF Points
  <1>2. DOMAIN q = 1..(N - 1) /\ \A k \in 1..(N - 1) : q[k] = LineTo(points[k + 1])
    BY DEF PolyLines
  <1>3. IsSeq(q)
    <2>1. \A k \in 1..(N - 1) : LineTo(points[k + 1]) \in Cmd
      <3> TAKE k \in 1..(N - 1)
      <3>1. k + 1 \in 1..N
        BY <1>1
      <3> QED
        BY <1>1, <3>1, CommandsTyped
    <2>2. q = [k \in 1..(N - 1) |-> LineTo(points[k + 1])]
      BY DEF PolyLines
    <2> HIDE DEF q, N
    <2>3. q \in Seq(Cmd)
      BY <1>1, <2>1, <2>2
    <2> QED
      BY <2>3 DEF IsSeq
  <1>4. P(1) = <<points[1]>> /\ P(N) = points
    <2>1. P(N) = points
      BY <1>1
    <2>2. P(0) = <<>> /\ P(0 + 1) = Append(P(0), points[0 + 1]) /\ 0 + 1 = 1
      BY <1>1, FirstAppend
    <2> DEFINE x == points[1]
    <2> HIDE DEF P, x
    <2>3. Append(<<>>, x) = <<x>>
      OBVIOUS
    <2>4. P(1) = Append(P(0), x)
      BY <2>2 DEF x
    <2>5. P(1) = <<x>>
      BY <2>2, <2>3, <2>4
    <2> QED
      BY <2>1, <2>5 DEF x
  <1>5. \A k \in 1..(N - 1) : f[k + 1] = Run(f[k], q[k])
    <2> SUFFICES ASSUME NEW k \in 1..(N - 1) PROVE f[k + 1] = Run(f[k], q[k])
      OBVIOUS
    <2> DEFINE x == points[k + 1]
               t == <<Subpath("open", P(k))>>
    <2>1. k \in 1..N /\ k + 1 \in 1..N /\ k \in Nat /\ k < N
      BY <1>1
    <2>2. x \in Point /\ LineTo(x) \in Cmd
      BY <1>1, <2>1, CommandsTyped
    <2>3. P(k) \in Seq(Point) /\ P(k + 1) = Append(P(k), x)
      BY <1>1, <2>1, FirstAppend
    <2>4. f[k] = St(t, 0, v, m, a, g) /\ f[k + 1] = St(<<Subpath("open", P(k + 1))>>, 0, v, m, a, g)
      BY <2>1
    <2>5. q[k] = LineTo(x)
      BY <1>2
    <2> HIDE DEF x, P, f, q, t
    <2>6. Run(f[k], q[k]) = St(Trace(t, LineTo(x)), 0, v, m, a, g)
      BY <2>2, <2>4, <2>5, RunCommand
    <2>7. Trace(t, LineTo(x)) = <<Subpath("open", P(k + 1))>>
      BY <2>2, <2>3, LineOn DEF t
    <2> QED
      BY <2>4, <2>6, <2>7
  <1>6. f[1] = St(<<Subpath("open", P(1))>>, 0, v, m, a, g)
        /\ f[N] = St(<<Subpath("open", P(N))>>, 0, v, m, a, g)
    BY <1>1
  <1> HIDE DEF q, f, P, N
  <1>7. Runs(f[1], q) = f[(N - 1) + 1] /\ (N - 1) + 1 = N
    BY <1>1, <1>2, <1>5, RunsThrough
  <1> QED
    BY <1>1, <1>3, <1>4, <1>6, <1>7 DEF q, N

(* The commands of a path.                                                 *)
LEMMA CommandsRun ==
    ASSUME NEW p, NEW v, NEW m, NEW a, NEW g, NEW cmds \in Seq(Cmd)
    PROVE  /\ IsSeq(cmds)
           /\ Runs(St(p, 0, v, m, a, g), cmds) = St(Traced(p, cmds), 0, v, m, a, g)
  <1> DEFINE N == Len(cmds)
             P(k) == SubSeq(cmds, 1, k)
             T(k) == Traced(p, P(k))
             f == [k \in 1..(N + 1) |-> St(T(k - 1), 0, v, m, a, g)]
  <1>1. N \in Nat /\ DOMAIN cmds = 1..N /\ \A k \in 1..N : cmds[k] \in Cmd
    OBVIOUS
  <1>2. \A k \in 1..N : f[k + 1] = Run(f[k], cmds[k])
    <2> SUFFICES ASSUME NEW k \in 1..N PROVE f[k + 1] = Run(f[k], cmds[k])
      OBVIOUS
    <2> DEFINE j == k - 1
               x == cmds[k]
    <2>1. j \in Nat /\ j < N /\ j + 1 = k /\ k \in 1..(N + 1) /\ k + 1 \in 1..(N + 1)
          /\ (k + 1) - 1 = k
      BY <1>1
    <2>2. x \in Cmd
      BY <1>1
    <2>3. P(j) \in Seq(Cmd) /\ P(j + 1) = Append(P(j), cmds[j + 1])
      BY <2>1, FirstAppend
    <2>4. f[k] = St(T(j), 0, v, m, a, g) /\ f[k + 1] = St(T(k), 0, v, m, a, g)
      BY <2>1
    <2> HIDE DEF f, P, j
    <2>5. P(k) = Append(P(j), x)
      BY <2>1, <2>3
    <2> HIDE DEF x
    <2>6. Tracing!Fold(p, Append(P(j), x)) = Trace(Tracing!Fold(p, P(j)), x)
      BY <2>2, <2>3, Tracing!FoldAppend
    <2>7. T(k) = Trace(T(j), x)
      BY <2>5, <2>6, TraceFold
    <2> HIDE DEF T
    <2>8. Run(f[k], x) = St(Trace(T(j), x), 0, v, m, a, g)
      BY <2>2, <2>4, RunCommand
    <2> QED
      BY <2>4, <2>7, <2>8 DEF x
  <1>3. P(0) = <<>> /\ P(N) = cmds
    BY <1>1
  <1>4. T(0) = p
    <2>1. T(0) = Tracing!Fold(p, P(0))
      BY TraceFold
    <2> HIDE DEF T, P
    <2> QED
      BY <1>3, <2>1, Tracing!FoldEmpty
  <1>5. f[1] = St(T(0), 0, v, m, a, g) /\ f[N + 1] = St(T(N), 0, v, m, a, g)
    <2>1. 1 \in 1..(N + 1) /\ N + 1 \in 1..(N + 1) /\ 1 - 1 = 0 /\ (N + 1) - 1 = N
      BY <1>1
    <2> HIDE DEF T, N
    <2> QED
      BY <2>1
  <1>6. T(N) = Traced(p, cmds)
    BY <1>3
  <1> HIDE DEF f, T, P, N
  <1>7. Runs(f[1], cmds) = f[N + 1]
    BY <1>1, <1>2, RunsThrough
  <1>8. IsSeq(cmds)
    BY DEF IsSeq
  <1> QED
    BY <1>4, <1>5, <1>6, <1>7, <1>8

(* Draw calls.                                                             *)
LEMMA PathStarts ==
    ASSUME NEW s, NEW m, NEW b, Ready(s, m, b)
    PROVE  \E a, col, i, n :
              Run(s, Do("new_path")) = St(<<>>, 0, <<>>, m, a, Gs(b, col, i, n, Identity))
  <1>1. PICK p, t, a, col, i, n : s = St(p, t, <<>>, m, a, Gs(b, col, i, n, Identity))
    BY DEF Ready, InState
  <1> DEFINE g == Gs(b, col, i, n, Identity)
             w == <<>>
  <1> HIDE DEF g, w
  <1>2. Run(St(p, t, w, m, a, g), Do("new_path")) = St(<<>>, 0, w, m, a, g)
    BY RunPath
  <1> QED
    BY <1>1, <1>2 DEF g, w

Outline(dc) ==
    CASE dc.kind = "polygon" ->
             <<Do("new_path"), MoveTo(dc.points[1])>> \o PolyLines(dc.points) \o <<ClosePath>>
      [] dc.kind = "rect" -> <<Do("new_path"), Call("rectangle", dc.rect)>>
      [] dc.kind = "circle" ->
             <<Do("new_path"),
               Call("arc", <<dc.pos, <<IF dc.radius > 1 THEN dc.radius ELSE 1>>>>)>>
      [] dc.kind = "path" -> <<Do("new_path")>> \o PathCommands(dc.points, dc.nper)

Outlined == {"polygon", "rect", "circle", "path"}

(* A call that is no circle, or one that is not too small for cairo.       *)
IsDot(call) == call.kind = "circle" => call.radius >= 1

(* Cairo is told the same of a small circle and of the least one.          *)
LEMMA DotCall ==
    ASSUME NEW call \in RCall
    PROVE  /\ AsDot(call) \in RCall /\ IsDot(AsDot(call))
           /\ CairoVisit(DrawCall(AsDot(call))) = CairoVisit(DrawCall(call))
  <1>1. CASE call.kind # "circle"
    BY <1>1 DEF AsDot, IsDot
  <1>2. CASE call.kind = "circle"
    <2> DEFINE C == [kind : {"circle"}, line : Line, fill : Color, pos : Point, radius : Nat]
               r == IF call.radius > 1 THEN call.radius ELSE 1
               d == [call EXCEPT !.radius = r]
    <2>1. call \in C
      BY <1>2 DEF RCall, ShapeCall, PathCall, TextCall, RasterCall
    <2>2. AsDot(call) = d
      BY <1>2 DEF AsDot
    <2>3. r \in Nat /\ r >= 1 /\ (IF r > 1 THEN r ELSE 1) = r
      BY <2>1
    <2> HIDE DEF r
    <2>4. /\ d \in C /\ d.kind = "circle" /\ d.line = call.line /\ d.fill = call.fill
          /\ d.pos = call.pos /\ d.radius = r
      BY <2>1, <2>3
    <2>5. d \in RCall
      BY <2>4 DEF RCall, ShapeCall
    <2> HIDE DEF d
    <2>6. DrawCall(d) = d /\ DrawCall(call) = call
      BY <1>2, <2>4, SameDrawCall
    <2>7. FillAndStroke(d) = FillAndStroke(call)
      BY <2>4 DEF FillAndStroke
    <2>8. /\ CairoVisit(d) = <<Do("new_path"), Call("arc", <<call.pos, <<r>>>>)>>
                               \o FillAndStroke(d)
          /\ CairoVisit(call) = <<Do("new_path"), Call("arc", <<call.pos, <<r>>>>)>>
                                  \o FillAndStroke(call)
      <3>1. CairoVisit(d)
              = <<Do("new_path"),
                  Call("arc", <<d.pos, <<IF d.radius > 1 THEN d.radius ELSE 1>>>>)>>
                \o FillAndStroke(d)
        BY <2>4 DEF CairoVisit
      <3>2. CairoVisit(call)
              = <<Do("new_path"),
                  Call("arc", <<call.pos, <<IF call.radius > 1 THEN call.radius ELSE 1>>>>)>>
                \o FillAndStroke(call)
        BY <1>2 DEF CairoVisit
      <3>3. (IF d.radius > 1 THEN d.radius ELSE 1) = r
            /\ (IF call.radius > 1 THEN call.radius ELSE 1) = r
        BY <2>3, <2>4 DEF r
      <3> QED
        BY <2>4, <3>1, <3>2, <3>3
    <2> QED
      BY <2>2, <2>4, <2>5, <2>6, <2>7, <2>8, <2>3 DEF IsDot
  <1> QED
    BY <1>1, <1>2

LEMMA VisitOutline ==
    ASSUME NEW dc, dc.kind \in Outlined
    PROVE  CairoVisit(dc) = Outline(dc) \o FillAndStroke(dc)
  <1>1. CASE dc.kind = "polygon"
    BY <1>1 DEF CairoVisit, VisitPolygon, Outline, PolyLines
  <1>2. CASE dc.kind = "rect"
    BY <1>2 DEF CairoVisit, Outline
  <1>3. CASE dc.kind = "circle"
    BY <1>3 DEF CairoVisit, Outline
  <1>4. CASE dc.kind = "path"
    BY <1>4 DEF CairoVisit, Outline
  <1> QED
    BY <1>1, <1>2, <1>3, <1>4 DEF Outlined

LEMMA OutlinePolygon ==
    ASSUME NEW s, NEW m, NEW b, Ready(s, m, b), NEW points \in Points,
           NEW dc, dc.kind = "polygon", dc.points = points
    PROVE  /\ IsSeq(Outline(dc))
           /\ InState(Runs(s, Outline(dc)), <<Subpath("closed", points)>>, m, b)
  <1>1. PICK a, col, i, n :
            Run(s, Do("new_path")) = St(<<>>, 0, <<>>, m, a, Gs(b, col, i, n, Identity))
    BY PathStarts
  <1> DEFINE g == Gs(b, col, i, n, Identity)
             w == <<>>
             x == points[1]
             A == <<Do("new_path"), MoveTo(x)>>
             L == PolyLines(points)
             Z == <<ClosePath>>
             o == Subpath("open", points)
             t0 == St(<<>>, 0, w, m, a, g)
             t1 == St(<<Subpath("open", <<x>>)>>, 0, w, m, a, g)
             t2 == St(<<o>>, 0, w, m, a, g)
             t3 == St(<<Subpath("closed", points)>>, 0, w, m, a, g)
  <1>2. Outline(dc) = (A \o L) \o Z
    BY DEF Outline
  <1>3. Run(s, Do("new_path")) = t0
    BY <1>1
  <1> HIDE DEF g, w
  <1>4. x \in Point /\ IsSeq(L) /\ Runs(t1, L) = t2
    BY PolyRuns
  <1>5. MoveTo(x) \in Cmd /\ ClosePath \in Cmd
    BY <1>4, CommandsTyped
  <1>6. Run(t0, MoveTo(x)) = t1
    <2> DEFINE e == <<>>
    <2>1. Run(St(e, 0, w, m, a, g), MoveTo(x)) = St(Trace(e, MoveTo(x)), 0, w, m, a, g)
      BY <1>5, RunCommand
    <2>2. Trace(e, MoveTo(x)) = Append(e, Subpath("open", <<x>>))
      BY TraceMove
    <2> DEFINE y == Subpath("open", <<x>>)
    <2> HIDE DEF y
    <2>3. Append(e, y) = <<y>>
      OBVIOUS
    <2> QED
      BY <2>1, <2>2, <2>3 DEF y
  <1>7. Run(t2, ClosePath) = t3
    <2>1. Run(t2, ClosePath) = St(Trace(<<o>>, ClosePath), 0, w, m, a, g)
      BY <1>5, RunCommand
    <2> QED
      BY <2>1, ClosedUp
  <1> HIDE DEF t0, t1, t2, x, L
  <1>8. IsSeq(A) /\ Runs(s, A) = t1
    BY <1>3, <1>6, RunsTwo
  <1>9. IsSeq(Z) /\ Runs(t2, Z) = t3
    BY <1>7, RunsOne
  <1> HIDE DEF A, Z, t3
  <1>10. IsSeq(A \o L) /\ Runs(s, A \o L) = t2
    BY <1>4, <1>8, RunsConcat
  <1> DEFINE B == A \o L
  <1> HIDE DEF B
  <1>11. IsSeq(B \o Z) /\ Runs(s, B \o Z) = t3
    BY <1>9, <1>10, RunsConcat DEF B
  <1>12. InState(t3, <<Subpath("closed", points)>>, m, b)
    BY DEF InState, t3, g, w
  <1> QED
    BY <1>2, <1>11, <1>12 DEF B

LEMMA OutlineOne ==
    ASSUME NEW s, NEW m, NEW b, Ready(s, m, b)
    PROVE  /\ \A r : LET c == <<Do("new_path"), Call("rectangle", r)>>
                     IN  IsSeq(c) /\ InState(Runs(s, c), <<InFrame(Identity, r)>>, m, b)
           /\ \A r : LET c == <<Do("new_path"), Call("arc", r)>>
                     IN  IsSeq(c) /\ InState(Runs(s, c), <<Subpath("circle", r)>>, m, b)
  <1>1. PICK a, col, i, n :
            Run(s, Do("new_path")) = St(<<>>, 0, <<>>, m, a, Gs(b, col, i, n, Identity))
    BY PathStarts
  <1> DEFINE g == Gs(b, col, i, n, Identity)
             w == <<>>
             e == <<>>
  <1>2. Run(s, Do("new_path")) = St(e, 0, w, m, a, g)
    BY <1>1
  <1>3. g.ctm = Identity
    BY DEF Gs
  <1>4. \A x : Append(e, x) = <<x>>
    OBVIOUS
  <1>5. \A x : InState(St(<<x>>, 0, w, m, a, g), <<x>>, m, b)
    BY DEF InState
  <1> HIDE DEF g, w, e
  <1>6. ASSUME NEW r
        PROVE  LET c == <<Do("new_path"), Call("rectangle", r)>>
               IN  IsSeq(c) /\ InState(Runs(s, c), <<InFrame(Identity, r)>>, m, b)
    <2> DEFINE c == <<Do("new_path"), Call("rectangle", r)>>
    <2>1. IsSeq(c) /\ Runs(s, c) = Run(Run(s, Do("new_path")), Call("rectangle", r))
      BY RunsTwo
    <2>2. Run(St(e, 0, w, m, a, g), Call("rectangle", r))
            = St(Append(e, InFrame(g.ctm, r)), 0, w, m, a, g)
      BY RunPath
    <2> HIDE DEF c
    <2>4. Runs(s, c) = St(<<InFrame(Identity, r)>>, 0, w, m, a, g)
      BY <1>2, <1>3, <1>4, <2>1, <2>2
    <2> QED
      BY <1>5, <2>1, <2>4 DEF c
  <1>7. ASSUME NEW r
        PROVE  LET c == <<Do("new_path"), Call("arc", r)>>
               IN  IsSeq(c) /\ InState(Runs(s, c), <<Subpath("circle", r)>>, m, b)
    <2> DEFINE c == <<Do("new_path"), Call("arc", r)>>
    <2>1. IsSeq(c) /\ Runs(s, c) = Run(Run(s, Do("new_path")), Call("arc", r))
      BY RunsTwo
    <2>2. Run(St(e, 0, w, m, a, g), Call("arc", r))
            = St(Append(e, Subpath("circle", r)), 0, w, m, a, g)
      BY RunPath
    <2> HIDE DEF c
    <2>4. Runs(s, c) = St(<<Subpath("circle", r)>>, 0, w, m, a, g)
      BY <1>2, <1>4, <2>1, <2>2
    <2> QED
      BY <1>5, <2>1, <2>4 DEF c
  <1> QED
    BY <1>6, <1>7

LEMMA OutlinePath ==
    ASSUME NEW s, NEW m, NEW b, Ready(s, m, b), NEW dc, dc.kind = "path",
           dc.nper \in Seq(Nat \ {0, 1}), dc.points \in Seq(Point),
           Len(dc.points) = SumSeq(dc.nper)
    PROVE  /\ IsSeq(Outline(dc)) /\ IsSeq(Split(dc.points, dc.nper))
           /\ InState(Runs(s, Outline(dc)), Split(dc.points, dc.nper), m, b)
  <1>1. PICK a, col, i, n :
            Run(s, Do("new_path")) = St(<<>>, 0, <<>>, m, a, Gs(b, col, i, n, Identity))
    BY PathStarts
  <1> DEFINE g == Gs(b, col, i, n, Identity)
             w == <<>>
             e == <<>>
             A == <<Do("new_path")>>
             C == PathCommands(dc.points, dc.nper)
             q == Split(dc.points, dc.nper)
             t0 == St(e, 0, w, m, a, g)
             t1 == St(q, 0, w, m, a, g)
  <1>2. Outline(dc) = A \o C
    BY DEF Outline
  <1>3. Run(s, Do("new_path")) = t0
    BY <1>1
  <1>4. C \in Seq(Cmd) /\ Traced(e, C) = q /\ q \in Seq(Subpaths)
    BY PathTraced
  <1>5. InState(t1, q, m, b) /\ IsSeq(q)
    BY <1>4 DEF InState, IsSeq
  <1> HIDE DEF g, w, e, C, q
  <1>6. IsSeq(C) /\ Runs(t0, C) = t1
    BY <1>4, CommandsRun
  <1>7. IsSeq(A) /\ Runs(s, A) = t0
    BY <1>3, RunsOne
  <1> HIDE DEF A, t0, t1
  <1>8. IsSeq(A \o C) /\ Runs(s, A \o C) = t1
    BY <1>6, <1>7, RunsConcat
  <1> QED
    BY <1>2, <1>5, <1>8 DEF q

LEMMA OutlineRuns ==
    ASSUME NEW call \in RCall, IsDot(call), call.kind \in Outlined, NEW s, NEW m, NEW b,
           Ready(s, m, b)
    PROVE  LET c == Outline(DrawCall(call)) IN
           /\ IsSeq(c) /\ IsSeq(AskedArea(call))
           /\ InState(Runs(s, c), AskedArea(call), m, b)
  <1> DEFINE dc == DrawCall(call)
             c == Outline(dc)
  <1>0. \A x : IsSeq(<<x>>)
    BY RunsOne, Zenon
  <1>1. CASE call.kind = "polygon"
    <2>1. dc = call /\ call.points \in Points
      BY <1>1, SameDrawCall, CallKinds
    <2>2. AskedArea(call) = <<Subpath("closed", call.points)>>
      BY <1>1 DEF AskedArea
    <2> HIDE DEF dc
    <2>3. IsSeq(c) /\ InState(Runs(s, c), <<Subpath("closed", call.points)>>, m, b)
      BY <1>1, <2>1, OutlinePolygon
    <2> QED
      BY <1>0, <2>2, <2>3 DEF dc
  <1>2. CASE call.kind = "rect"
    <2> DEFINE r == dc.rect
    <2>1. dc.kind = "rect" /\ r \in Corners4 /\ r[3] >= 0 /\ r[4] >= 0
      BY <1>2, RectDrawCall
    <2>2. AskedArea(call) = <<BoxOf(r)>>
      BY <1>2, RectDrawCall DEF AskedArea
    <2> HIDE DEF dc
    <2>3. c = <<Do("new_path"), Call("rectangle", r)>>
      BY <2>1 DEF Outline
    <2> HIDE DEF r, c
    <2>5. InFrame(Identity, r) = BoxOf(r)
      BY <2>1, InIdentity
    <2>4. IsSeq(c) /\ InState(Runs(s, c), <<BoxOf(r)>>, m, b)
      BY <2>3, <2>5, OutlineOne
    <2> QED
      BY <1>0, <2>2, <2>4 DEF dc, c
  <1>3. CASE call.kind = "circle"
    <2> DEFINE r == <<call.pos, <<call.radius>>>>
    <2>1. dc = call
      BY <1>3, SameDrawCall
    <2>2. AskedArea(call) = <<Subpath("circle", r)>>
      BY <1>3 DEF AskedArea
    <2> HIDE DEF dc
    <2>3. c = <<Do("new_path"), Call("arc", r)>>
      <3>1. c = <<Do("new_path"), Call("arc", <<call.pos, <<IF call.radius > 1 THEN call.radius
                                                             ELSE 1>>>>)>>
        BY <1>3, <2>1 DEF Outline
      <3>2. (IF call.radius > 1 THEN call.radius ELSE 1) = call.radius
        BY <1>3, CallKinds DEF IsDot
      <3> QED
        BY <3>1, <3>2
    <2> HIDE DEF r, c
    <2>4. IsSeq(c) /\ InState(Runs(s, c), <<Subpath("circle", r)>>, m, b)
      BY <2>3, OutlineOne
    <2> QED
      BY <1>0, <2>2, <2>4 DEF dc, c
  <1>4. CASE call.kind = "path"
    <2>1. /\ dc = call /\ call.nper \in Seq(Nat \ {0, 1}) /\ call.points \in Seq(Point)
          /\ Len(call.points) = SumSeq(call.nper)
      BY <1>4, SameDrawCall, CallKinds
    <2>2. AskedArea(call) = Split(call.points, call.nper)
      BY <1>4 DEF AskedArea
    <2> HIDE DEF dc
    <2>3. /\ IsSeq(c) /\ IsSeq(Split(call.points, call.nper))
          /\ InState(Runs(s, c), Split(call.points, call.nper), m, b)
      BY <1>4, <2>1, OutlinePath
    <2> QED
      BY <2>2, <2>3 DEF dc
  <1> QED
    BY <1>1, <1>2, <1>3, <1>4 DEF Outlined

(* What a visit shows.                                                     *)
Shows(call, s, m, clip) ==
    LET c == CairoVisit(DrawCall(call)) IN
    /\ IsSeq(c)
    /\ Ready(Runs(s, c), m \o Unruled(Visible(AskedMarks(call, clip))), {clip})

LEMMA NothingShown ==
    ASSUME NEW call, NEW s, NEW m, NEW clip, Ready(s, m, {clip}), IsSeq(m),
           CairoVisit(DrawCall(call)) = <<>>, Visible(AskedMarks(call, clip)) = <<>>
    PROVE  Shows(call, s, m, clip)
  <1> DEFINE c == CairoVisit(DrawCall(call))
             v == Unruled(Visible(AskedMarks(call, clip)))
  <1>1. v = <<>>
    BY UnruledOne
  <1>2. c = <<>>
    OBVIOUS
  <1> HIDE DEF c, v
  <1>3. m \o v = m
    BY <1>1, AppendJoins
  <1>4. IsSeq(c) /\ Runs(s, c) = s
    BY <1>2, RunsNone
  <1> QED
    BY <1>3, <1>4 DEF Shows, c, v

LEMMA OutlinedShows ==
    ASSUME NEW call \in RCall, IsDot(call), call.kind \in Outlined, NEW s, NEW m, NEW clip,
           Ready(s, m, {clip}), IsSeq(m)
    PROVE  Shows(call, s, m, clip)
  <1> DEFINE dc == DrawCall(call)
             b == {clip}
             c == Outline(dc)
             d == FillAndStroke(dc)
             area == AskedArea(call)
             s1 == Runs(s, c)
             v == Unruled(Visible(AskedMarks(call, clip)))
  <1>0. call.kind \in Shapes /\ call.kind \notin {"line", "polyline"}
    BY DEF Outlined, Shapes
  <1>1. /\ dc.kind \in Outlined /\ dc.line = call.line /\ dc.line \in Line
        /\ dc.fill = AskedFill(call)
    BY <1>0, ShapeDrawCall DEF AskedFill
  <1>2. AskedMarks(call, clip)
           = Paint(area, dc.fill, AskedRule(call), dc.line.col, AskedPen(dc.line), b)
    BY <1>0, <1>1, ShapeAsked
  <1>3. CairoVisit(dc) = c \o d
    BY <1>1, VisitOutline
  <1>4. IsSeq(c) /\ IsSeq(area) /\ InState(s1, area, m, b)
    BY OutlineRuns
  <1>8. v = Unruled(Visible(Paint(area, dc.fill, AskedRule(call), dc.line.col,
                                  AskedPen(dc.line), b)))
    BY <1>2
  <1>9. d = FillAndStroke(dc)
    OBVIOUS
  <1> HIDE DEF dc, b, c, d, area, s1, v
  <1>5. IsSeq(d) /\ Ready(Runs(s1, d), m \o v, b)
    BY <1>1, <1>4, <1>8, <1>9, PaintRuns
  <1>6. IsSeq(c \o d) /\ Runs(s, c \o d) = Runs(s1, d)
    BY <1>4, <1>5, RunsConcat DEF s1
  <1>7. IsSeq(CairoVisit(dc)) /\ Ready(Runs(s, CairoVisit(dc)), m \o v, b)
    BY <1>3, <1>5, <1>6
  <1> QED
    BY <1>7 DEF Shows, dc, v, b

LEMMA LineCalls ==
    ASSUME NEW points \in Points, NEW line \in Line, NEW dc, dc.points = points, dc.line = line,
           ~Transparent(line.col), NEW s, NEW m, NEW b, Ready(s, m, b), IsSeq(m)
    PROVE  LET c == VisitLine(dc)
               y == StrokeMark(<<Subpath("open", points)>>, line.col, AskedPen(line), b) IN
           IsSeq(c) /\ Ready(Runs(s, c), m \o <<y>>, b)
  <1>1. PICK a, cl, i, n :
            Run(s, Do("new_path")) = St(<<>>, 0, <<>>, m, a, Gs(b, cl, i, n, Identity))
    BY PathStarts
  <1> DEFINE w == <<>>
             e == <<>>
             x == points[1]
             col == line.col
             pen == AskedPen(line)
             area == <<Subpath("open", points)>>
             y == StrokeMark(area, col, pen, b)
             A == <<Do("new_path"), SetColor(col), Call("linetype", pen), MoveTo(x)>>
             L == PolyLines(points)
             Z == <<Do("stroke")>>
             g == Gs(b, col, NoImage, pen, Identity)
             t0 == St(e, 0, w, m, a, Gs(b, cl, i, n, Identity))
             t1 == St(e, 0, w, m, a, Gs(b, col, NoImage, n, Identity))
             t2 == St(e, 0, w, m, a, g)
             t3 == St(<<Subpath("open", <<x>>)>>, 0, w, m, a, g)
             t4 == St(area, 0, w, m, a, g)
             t5 == St(e, 0, w, Append(m, y), a, g)
  <1>2. Run(s, Do("new_path")) = t0
    BY <1>1
  <1>3. line.lty \in LineType /\ line.lty # BLANK
    BY DEF Line
  <1>4. SetLinetype(line) = Call("linetype", pen)
    BY <1>3, CairoDashes DEF SetLinetype, AskedPen
  <1>5. VisitLine(dc) = (A \o L) \o Z
    BY <1>4 DEF VisitLine, PolyLines
  <1> HIDE DEF w, e
  <1>6. Run(t0, SetColor(col)) = t1
    BY RunSet
  <1>7. Run(t1, Call("linetype", pen)) = t2
    BY RunSet
  <1>8. x \in Point /\ IsSeq(L) /\ Runs(t3, L) = t4
    <2> HIDE DEF g, area, t3, t4, w
    <2>1. Runs(St(<<Subpath("open", <<points[1]>>)>>, 0, w, m, a, g), PolyLines(points))
             = St(<<Subpath("open", points)>>, 0, w, m, a, g)
      BY PolyRuns
    <2> QED
      BY <2>1, PolyRuns DEF t3, t4, area
  <1>9. MoveTo(x) \in Cmd
    BY <1>8, CommandsTyped
  <1>10. Run(t2, MoveTo(x)) = t3
    <2> HIDE DEF g
    <2>1. Run(t2, MoveTo(x)) = St(Trace(e, MoveTo(x)), 0, w, m, a, g)
      BY <1>9, RunCommand
    <2>2. Trace(e, MoveTo(x)) = Append(e, Subpath("open", <<x>>))
      BY TraceMove
    <2> DEFINE o == Subpath("open", <<x>>)
    <2> HIDE DEF o
    <2>3. Append(e, o) = <<o>>
      BY DEF e
    <2> QED
      BY <2>1, <2>2, <2>3 DEF o
  <1>11. Run(t4, Do("stroke")) = t5
    <2> HIDE DEF area, pen, col
    <2>1. Run(t4, Do("stroke"))
             = St(<<>>, 0, w, Append(m, StrokeMark(area, col, pen, b)), a, g)
      BY RunPaint DEF g
    <2> QED
      BY <2>1 DEF e
  <1>12. m \o <<y>> = Append(m, y)
    BY AppendJoins
  <1>13. InState(t5, e, m \o <<y>>, b)
    BY <1>12, Zenon DEF InState, g, w
  <1>14. IsSeq(e)
    BY RunsNone DEF e
  <1> HIDE DEF t0, t1, t2, t3, t4, t5, x, col, pen, L, y, area, g
  <1>15. IsSeq(A) /\ Runs(s, A) = t3
    BY <1>2, <1>6, <1>7, <1>10, RunsFour
  <1>16. IsSeq(Z) /\ Runs(t4, Z) = t5
    BY <1>11, RunsOne
  <1> HIDE DEF A, Z
  <1>17. IsSeq(A \o L) /\ Runs(s, A \o L) = t4
    BY <1>8, <1>15, RunsConcat
  <1> DEFINE B == A \o L
  <1> HIDE DEF B
  <1>18. IsSeq(B \o Z) /\ Runs(s, B \o Z) = t5
    BY <1>16, <1>17, RunsConcat DEF B
  <1>19. Ready(t5, m \o <<y>>, b)
    BY <1>13, <1>14 DEF Ready
  <1>20. IsSeq(VisitLine(dc)) /\ Ready(Runs(s, VisitLine(dc)), m \o <<y>>, b)
    BY <1>5, <1>18, <1>19 DEF B
  <1> QED
    BY <1>20 DEF y, area, col, pen

LEMMA LineShows ==
    ASSUME NEW call \in RCall, call.kind \in {"line", "polyline"}, NEW s, NEW m, NEW clip,
           Ready(s, m, {clip}), IsSeq(m)
    PROVE  Shows(call, s, m, clip)
  <1> DEFINE line == call.line
             b == {clip}
             area == <<Subpath("open", call.points)>>
             x == FillMark(area, NoColor, "nonzero", b)
             y == StrokeMark(area, line.col, AskedPen(line), b)
             v == Unruled(Visible(AskedMarks(call, clip)))
  <1>1. DrawCall(call) = call /\ call.line \in Line /\ call.points \in Points
    BY SameDrawCall, CallKinds
  <1>2. AskedMarks(call, clip) = <<x, y>>
    BY DEF AskedMarks, AskedArea, Paint
  <1>3. /\ x.do = "fill" /\ x.col = NoColor /\ y.do = "stroke" /\ y.col = line.col
        /\ Transparent(NoColor)
    BY MarkFields DEF Transparent, NoColor
  <1>10. [y EXCEPT !.rule = "nonzero"] = y
    BY UnruledStroke
  <1>11. y = StrokeMark(<<Subpath("open", call.points)>>, line.col, AskedPen(line), b)
    OBVIOUS
  <1> HIDE DEF x, y, area, b
  <1>4. Seen(x) = <<>> /\ Seen(y) = IF Transparent(line.col) THEN <<>> ELSE <<y>>
    BY <1>3 DEF Seen
  <1>5. Visible(AskedMarks(call, clip)) = IF Transparent(line.col) THEN <<>> ELSE <<y>>
    <2>1. Visible(<<x, y>>) = Seen(x) \o Seen(y)
      BY VisibleTwo
    <2>2. <<>> \o Seen(y) = Seen(y)
      <3>1. IsSeq(Seen(y))
        BY <1>4, RunsNone, RunsOne
      <3> QED
        BY <3>1, AppendJoins
    <2> QED
      BY <1>2, <1>4, <2>1, <2>2
  <1>6. CairoVisit(call) = VisitLine(call)
    BY DEF CairoVisit
  <1>7. CASE Transparent(line.col)
    <2>1. VisitLine(call) = <<>>
      BY <1>7 DEF VisitLine
    <2> QED
      BY <1>1, <1>5, <1>6, <1>7, <2>1, NothingShown
  <1>8. CASE ~Transparent(line.col)
    <2>1. v = <<y>>
      BY <1>5, <1>8, <1>10, UnruledOne
    <2>2. IsSeq(VisitLine(call)) /\ Ready(Runs(s, VisitLine(call)), m \o <<y>>, b)
      <3>1. Ready(s, m, b)
        BY DEF b
      <3> QED
        BY <1>1, <1>8, <1>11, <3>1, LineCalls
    <2> HIDE DEF v
    <2>3. IsSeq(CairoVisit(call)) /\ Ready(Runs(s, CairoVisit(call)), m \o v, b)
      BY <1>6, <2>1, <2>2
    <2> QED
      BY <1>1, <2>3 DEF Shows, v, b
  <1> QED
    BY <1>7, <1>8

LEMMA Turned ==
    ASSUME NEW x \in Int
    PROVE  /\ [Identity EXCEPT !.rot = x].rot = x
           /\ x = 0 => [Identity EXCEPT !.rot = -x] = Identity
  <1>1. -x = 0 - x
    OBVIOUS
  <1>2. ASSUME x = 0 PROVE -x = 0
    <2>1. x - x = 0
      OBVIOUS
    <2> QED
      BY <1>1, <1>2, <2>1, Zenon
  <1> QED
    BY <1>1 DEF Identity

(* The calls of a text that may be turned and shifted.                     *)
TurnCalls(rot) == IF rot # 0 THEN <<Call("rotate", -rot)>> ELSE <<>>
ShiftCalls(hadj) == IF hadj # 0 THEN <<Call("shift", hadj)>> ELSE <<>>

LEMMA TurnRuns ==
    ASSUME NEW rot \in Int, NEW hadj, NEW p, NEW v, NEW m, NEW a, NEW b, NEW col, NEW i, NEW n
    PROVE  LET f == [Identity EXCEPT !.rot = -rot]
               c == TurnCalls(rot)
               d == ShiftCalls(hadj) IN
           /\ IsSeq(c) /\ IsSeq(d)
           /\ Runs(St(p, 0, v, m, a, Gs(b, col, i, n, Identity)), c)
                 = St(p, 0, v, m, a, Gs(b, col, i, n, f))
           /\ Runs(St(p, 0, v, m, a, Gs(b, col, i, n, f)), d)
                 = St(p, hadj, v, m, a, Gs(b, col, i, n, f))
  <1> DEFINE f == [Identity EXCEPT !.rot = -rot]
             c == TurnCalls(rot)
             d == ShiftCalls(hadj)
             t0 == St(p, 0, v, m, a, Gs(b, col, i, n, Identity))
             t1 == St(p, 0, v, m, a, Gs(b, col, i, n, f))
             t2 == St(p, hadj, v, m, a, Gs(b, col, i, n, f))
  <1>1. IsSeq(c) /\ Runs(t0, c) = t1
    <2>1. CASE rot = 0
      <3>3. c = <<>>
        BY <2>1 DEF TurnCalls
      <3> HIDE DEF c, f
      <3>2. f = Identity
        BY <2>1, Turned DEF f
      <3> QED
        BY <3>3, <3>2, RunsNone
    <2>2. CASE rot # 0
      <3> DEFINE x == -rot
      <3>1. c = <<Call("rotate", x)>> /\ x \in Int
        BY <2>2 DEF TurnCalls
      <3> HIDE DEF x, c
      <3>2. Run(t0, Call("rotate", x)) = St(p, 0, v, m, a, Gs(b, col, i, n, [Identity EXCEPT !.rot = x]))
        BY <3>1, RunRotate
      <3>3. [Identity EXCEPT !.rot = x] = f
        BY DEF x
      <3> HIDE DEF t0, f
      <3>4. Run(t0, Call("rotate", x)) = t1
        BY <3>2, <3>3
      <3> HIDE DEF t1
      <3> QED
        BY <3>1, <3>4, RunsOne
    <2> QED
      BY <2>1, <2>2
  <1> HIDE DEF f
  <1>2. IsSeq(d) /\ Runs(t1, d) = t2
    <2>1. CASE hadj = 0
      <3>1. d = <<>> /\ t2 = t1
        BY <2>1 DEF ShiftCalls
      <3> HIDE DEF t1, t2, d
      <3> QED
        BY <3>1, RunsNone
    <2>2. CASE hadj # 0
      <3>1. d = <<Call("shift", hadj)>>
        BY <2>2 DEF ShiftCalls
      <3>2. Run(t1, Call("shift", hadj)) = t2
        BY RunSet
      <3> HIDE DEF t1, t2, d
      <3> QED
        BY <3>1, <3>2, RunsOne
    <2> QED
      BY <2>1, <2>2
  <1> QED
    BY <1>1, <1>2 DEF f

LEMMA TextCalls ==
    ASSUME NEW dc, ~Transparent(dc.col), dc.rot \in Int, dc.at \in Point,
           NEW s, NEW m, NEW b, Ready(s, m, b), IsSeq(m)
    PROVE  LET c == VisitText(dc)
               y == TextMark(TextRecord(dc), dc.col, b) IN
           IsSeq(c) /\ Ready(Runs(s, c), m \o <<y>>, b)
  <1>1. PICK p : IsSeq(p) /\ InState(s, p, m, b)
    BY DEF Ready
  <1>2. PICK t, a, cl, i, n : s = St(p, t, <<>>, m, a, Gs(b, cl, i, n, Identity))
    BY <1>1 DEF InState
  <1> DEFINE w == <<>>
             x == dc.at
             col == dc.col
             rot == dc.rot
             hadj == dc.hadj
             o == Subpath("open", <<x>>)
             q == Append(p, o)
             f == [Identity EXCEPT !.rot = -rot]
             g == Gs(b, cl, i, n, Identity)
             h == Gs(b, cl, i, n, f)
             k == Gs(b, col, NoImage, n, f)
             v == Append(w, g)
             y == TextMark(TextRecord(dc), col, b)
             A == <<Do("save"), MoveTo(x)>>
             R == TurnCalls(rot)
             H == ShiftCalls(hadj)
             Z == <<SetColor(col), Call("show_text", dc.str), Do("restore")>>
             t1 == St(p, t, v, m, a, g)
             t2 == St(q, 0, v, m, a, g)
             t3 == St(q, 0, v, m, a, h)
             t4 == St(q, hadj, v, m, a, h)
             t5 == St(q, hadj, v, m, a, k)
             t6 == St(q, hadj, v, Append(m, y), a, k)
             t7 == St(q, hadj, w, Append(m, y), a, g)
  <1>3. VisitText(dc) = ((A \o R) \o H) \o Z
    BY DEF VisitText, TurnCalls, ShiftCalls
  <1>4. s = St(p, t, w, m, a, g)
    BY <1>2
  <1>5. Last(v) = g /\ Front(v) = w
    <2>1. v = <<g>>
      BY DEF w
    <2> HIDE DEF v, g
    <2>2. Len(v) = 1 /\ v[1] = g
      BY <2>1
    <2>3. Last(v) = g
      BY <2>2 DEF Last
    <2>4. Front(v) = SubSeq(v, 1, 0)
      BY <2>2 DEF Front
    <2>5. SubSeq(v, 1, 0) = <<>>
      <3>1. v \in Seq({g})
        BY <2>1
      <3> QED
        BY <3>1
    <2> QED
      BY <2>3, <2>4, <2>5 DEF w
  <1>6. Last(q) = o /\ IsSeq(q) /\ o.pts[1] = x
    <2>1. o.pts = <<x>>
      BY DEF Subpath
    <2> HIDE DEF o
    <2>2. Last(q) = o /\ IsSeq(q)
      BY <1>1, AppendJoins
    <2> QED
      BY <2>1, <2>2
  <1>7. Run(s, Do("save")) = t1
    <2> HIDE DEF w
    <2> QED
      BY <1>4, RunSaved
  <1>8. Run(t1, MoveTo(x)) = t2
    <2>1. MoveTo(x) \in Cmd
      BY CommandsTyped
    <2> HIDE DEF v, g, x
    <2>2. Run(t1, MoveTo(x)) = St(Trace(p, MoveTo(x)), 0, v, m, a, g)
      BY <2>1, RunCommand
    <2> QED
      BY <2>2, TraceMove
  <1>9. IsSeq(R) /\ IsSeq(H) /\ Runs(t2, R) = t3 /\ Runs(t3, H) = t4
    <2> HIDE DEF v, q, hadj
    <2>1. rot \in Int
      OBVIOUS
    <2> HIDE DEF rot
    <2> QED
      BY <2>1, TurnRuns
  <1>10. Run(t4, SetColor(col)) = t5
    <2> HIDE DEF v, q, f, col, hadj
    <2> QED
      BY RunSet
  <1>11. Run(t5, Call("show_text", dc.str)) = t6
    <2>1. f.rot = -rot
      BY Turned
    <2>2. -f.rot = rot
      BY <2>1
    <2> HIDE DEF v, q, f, col, hadj, w, rot
    <2>3. Run(t5, Call("show_text", dc.str))
            = St(q, hadj, v,
                 Append(m, TextMark([str |-> dc.str, at |-> Last(q).pts[1], hadj |-> hadj,
                                     rot |-> -f.rot], col, b)), a, k)
      BY RunShown
    <2>4. y = TextMark([str |-> dc.str, at |-> Last(q).pts[1], hadj |-> hadj,
                        rot |-> -f.rot], col, b)
      <3>1. Last(q).pts[1] = dc.at
        BY <1>6
      <3> QED
        BY <2>2, <3>1 DEF TextRecord, hadj, rot
    <2> HIDE DEF y, k
    <2> QED
      BY <2>3, <2>4
  <1>12. Run(t6, Do("restore")) = t7
    <2> DEFINE mm == Append(m, y)
    <2> HIDE DEF v, q, f, col, hadj, w, g, mm
    <2>1. Run(St(q, hadj, v, mm, a, Gs(b, col, NoImage, n, f)), Do("restore"))
             = St(q, hadj, Front(v), mm, a, Last(v))
      BY RunRestored, Zenon
    <2> QED
      BY <1>5, <2>1 DEF mm
  <1>13. m \o <<y>> = Append(m, y)
    BY AppendJoins
  <1>14. InState(t7, q, m \o <<y>>, b)
    <2> HIDE DEF q, hadj, y
    <2> QED
      BY <1>13, Zenon DEF InState, g, w
  <1> DEFINE str == dc.str
  <1> HIDE DEF t1, t2, t3, t4, t5, t6, t7, x, col, R, H, y, q, str
  <1>15. IsSeq(A) /\ Runs(s, A) = t2
    BY <1>7, <1>8, RunsTwo
  <1>16. IsSeq(Z) /\ Runs(t4, Z) = t7
    BY <1>10, <1>11, <1>12, RunsThree DEF str
  <1> HIDE DEF A, Z
  <1>17. IsSeq(A \o R) /\ Runs(s, A \o R) = t3
    BY <1>9, <1>15, RunsConcat
  <1> DEFINE B == A \o R
  <1>18. IsSeq(B) /\ Runs(s, B) = t3
    BY <1>17
  <1> HIDE DEF B
  <1>19. IsSeq(B \o H) /\ Runs(s, B \o H) = t4
    BY <1>9, <1>18, RunsConcat
  <1> DEFINE C == B \o H
  <1>20. IsSeq(C) /\ Runs(s, C) = t4
    BY <1>19
  <1> HIDE DEF C
  <1>21. IsSeq(C \o Z) /\ Runs(s, C \o Z) = t7
    BY <1>16, <1>20, RunsConcat
  <1>22. Ready(t7, m \o <<y>>, b)
    BY <1>6, <1>14 DEF Ready
  <1>23. IsSeq(VisitText(dc)) /\ Ready(Runs(s, VisitText(dc)), m \o <<y>>, b)
    BY <1>3, <1>21, <1>22 DEF B, C
  <1> QED
    BY <1>23 DEF y, col

LEMMA TextShows ==
    ASSUME NEW call \in RCall, call.kind = "text", NEW s, NEW m, NEW clip,
           Ready(s, m, {clip}), IsSeq(m)
    PROVE  Shows(call, s, m, clip)
  <1> DEFINE b == {clip}
             y == TextMark(TextRecord(call), call.col, b)
             v == Unruled(Visible(AskedMarks(call, clip)))
  <1>1. DrawCall(call) = call /\ call.rot \in Int /\ call.at \in Point
    BY SameDrawCall, CallKinds
  <1>2. AskedMarks(call, clip) = <<y>>
    BY TextAskedMarks
  <1>3. y.do = "text" /\ y.col = call.col
    BY MarkFields
  <1>4. [y EXCEPT !.rule = "nonzero"] = y
    BY UnruledText
  <1>5. Ready(s, m, b)
    OBVIOUS
  <1>6. y = TextMark(TextRecord(call), call.col, b)
    OBVIOUS
  <1> HIDE DEF y, b
  <1>7. Visible(AskedMarks(call, clip)) = IF Transparent(call.col) THEN <<>> ELSE <<y>>
    BY <1>2, <1>3, VisibleOne DEF Seen
  <1>8. CairoVisit(call) = VisitText(call)
    BY DEF CairoVisit
  <1>9. CASE Transparent(call.col)
    <2>1. VisitText(call) = <<>>
      BY <1>9 DEF VisitText
    <2> QED
      BY <1>1, <1>7, <1>8, <1>9, <2>1, NothingShown
  <1>10. CASE ~Transparent(call.col)
    <2>1. v = <<y>>
      BY <1>4, <1>7, <1>10, UnruledOne
    <2>2. IsSeq(VisitText(call)) /\ Ready(Runs(s, VisitText(call)), m \o <<y>>, b)
      BY <1>1, <1>5, <1>6, <1>10, TextCalls
    <2> HIDE DEF v
    <2>3. IsSeq(CairoVisit(call)) /\ Ready(Runs(s, CairoVisit(call)), m \o v, b)
      BY <1>8, <2>1, <2>2
    <2> QED
      BY <1>1, <2>3 DEF Shows, v, b
  <1> QED
    BY <1>9, <1>10

LEMMA JoinFours ==
    ASSUME NEW a, NEW b, NEW c, NEW d, NEW e, NEW f, NEW g, NEW h
    PROVE  <<a, b, c, d>> \o <<e, f, g, h>> = <<a, b, c, d, e, f, g, h>>
  <1> DEFINE S == {a, b, c, d, e, f, g, h}
             p == <<a, b, c, d>>
             q == <<e, f, g, h>>
             r == <<a, b, c, d, e, f, g, h>>
  <1>1. p \in Seq(S) /\ Len(p) = 4 /\ p[1] = a /\ p[2] = b /\ p[3] = c /\ p[4] = d
    OBVIOUS
  <1>2. q \in Seq(S) /\ Len(q) = 4 /\ q[1] = e /\ q[2] = f /\ q[3] = g /\ q[4] = h
    OBVIOUS
  <1>3. /\ r \in Seq(S) /\ Len(r) = 8 /\ r[1] = a /\ r[2] = b /\ r[3] = c /\ r[4] = d
        /\ r[5] = e /\ r[6] = f /\ r[7] = g /\ r[8] = h
    OBVIOUS
  <1> HIDE DEF p, q, r, S
  <1> DEFINE j == p \o q
  <1>4. /\ j \in Seq(S) /\ Len(j) = Len(p) + Len(q)
        /\ \A k \in 1..(Len(p) + Len(q)) : j[k] = IF k <= Len(p) THEN p[k] ELSE q[k - Len(p)]
    BY <1>1, <1>2, ConcatProperties
  <1>5. \A k \in 1..8 : j[k] = IF k <= 4 THEN p[k] ELSE q[k - 4]
    BY <1>1, <1>2, <1>4
  <1> HIDE DEF j
  <1>6. /\ j[1] = a /\ j[2] = b /\ j[3] = c /\ j[4] = d
        /\ j[5] = e /\ j[6] = f /\ j[7] = g /\ j[8] = h
        /\ Len(j) = 8
    BY <1>1, <1>2, <1>4, <1>5
  <1>7. \A k \in 1..8 : j[k] = r[k]
    <2>1. \A k \in 1..8 : k = 1 \/ k = 2 \/ k = 3 \/ k = 4 \/ k = 5 \/ k = 6 \/ k = 7 \/ k = 8
      OBVIOUS
    <2> QED
      BY <1>3, <1>6, <2>1
  <1>8. j = r
    BY <1>3, <1>4, <1>6, <1>7, SameSequence
  <1> QED
    BY <1>8 DEF j, p, q, r

LEMMA RunsEight ==
    ASSUME NEW c1, NEW c2, NEW c3, NEW c4, NEW c5, NEW c6, NEW c7, NEW c8,
           NEW s1, NEW s2, NEW s3, NEW s4, NEW s5, NEW s6, NEW s7, NEW s8, NEW s9,
           s2 = Run(s1, c1), s3 = Run(s2, c2), s4 = Run(s3, c3), s5 = Run(s4, c4),
           s6 = Run(s5, c5), s7 = Run(s6, c6), s8 = Run(s7, c7), s9 = Run(s8, c8)
    PROVE  /\ IsSeq(<<c1, c2, c3, c4, c5, c6, c7, c8>>)
           /\ Runs(s1, <<c1, c2, c3, c4, c5, c6, c7, c8>>) = s9
  <1> DEFINE p == <<c1, c2, c3, c4>>
             q == <<c5, c6, c7, c8>>
  <1>1. p \o q = <<c1, c2, c3, c4, c5, c6, c7, c8>>
    BY JoinFours
  <1>2. IsSeq(p) /\ Runs(s1, p) = s5
    BY RunsFour
  <1>3. IsSeq(q) /\ Runs(s5, q) = s9
    BY RunsFour
  <1> HIDE DEF p, q
  <1>4. IsSeq(p \o q) /\ Runs(s1, p \o q) = Runs(Runs(s1, p), q)
    BY <1>2, <1>3, RunsConcat
  <1> QED
    BY <1>1, <1>2, <1>3, <1>4

LEMMA RunRectangle ==
    ASSUME NEW p, NEW t, NEW v, NEW m, NEW a, NEW g, NEW r
    PROVE  Run(St(p, t, v, m, a, g), Call("rectangle", r))
             = St(Append(p, InFrame(g.ctm, r)), t, v, m, a, g)
  BY RunPath

(* An image covers its place, and nothing else is painted.                 *)
LEMMA RasterCalls ==
    ASSUME NEW dc, NEW r \in Corners4, dc.rect = r, r[3] >= 0, r[4] >= 0,
           dc.w \in Nat \ {0}, dc.h \in Nat \ {0},
           NEW s, NEW m, NEW clip, Ready(s, m, {clip}), IsSeq(m)
    PROVE  LET c == VisitRaster(dc)
               y == ImageMark(<<BoxOf(r)>>, Look(dc.w, dc.h, dc.pixels), dc.interpolate,
                              {clip, BoxOf(r)}) IN
           IsSeq(c) /\ Ready(Runs(s, c), m \o <<y>>, {clip})
  <1>1. PICK p : IsSeq(p) /\ InState(s, p, m, {clip})
    BY DEF Ready
  <1>2. PICK t, a, cl, i, n : s = St(p, t, <<>>, m, a, Gs({clip}, cl, i, n, Identity))
    BY <1>1 DEF InState
  <1> DEFINE b == {clip}
             w == <<>>
             e == <<>>
             frame == [rect |-> r, w |-> dc.w, h |-> dc.h]
             f == [rot |-> 0] ++ frame
             look == Look(dc.w, dc.h, dc.pixels)
             image == [look |-> look, smooth |-> dc.interpolate]
             unit == <<0, 0, dc.w, dc.h>>
             o == BoxOf(r)
             area == <<o>>
             both == {clip, o}
             y == ImageMark(area, look, dc.interpolate, both)
             g == Gs(b, cl, i, n, Identity)
             v == Append(w, g)
             s1 == St(p, t, w, m, a, g)
             s2 == St(p, t, v, m, a, g)
             s3 == St(p, t, v, m, a, Gs(b, cl, i, n, f))
             s4 == St(p, t, v, m, a, Gs(b, NoColor, image, n, f))
             s5 == St(e, 0, v, m, a, Gs(b, NoColor, image, n, f))
             s6 == St(area, 0, v, m, a, Gs(b, NoColor, image, n, f))
             s7 == St(e, 0, v, m, area, Gs(both, NoColor, image, n, f))
             s8 == St(e, 0, v, Append(m, y), area, Gs(both, NoColor, image, n, f))
             s9 == St(e, 0, w, Append(m, y), area, g)
  <1>3. VisitRaster(dc)
          = <<Do("save"), Call("frame", frame), Call("surface", image), Do("new_path"),
              Call("rectangle", unit), Do("clip"), Do("paint"), Do("restore")>>
    BY DEF VisitRaster
  <1>4. f.rect = r /\ f.w = dc.w /\ f.h = dc.h /\ f.rot = 0
    <2> DEFINE z == [rot |-> 0]
    <2>1. DOMAIN z = {"rot"} /\ z.rot = 0
      OBVIOUS
    <2>2. DOMAIN frame = {"rect", "w", "h"} /\ frame.rect = r /\ frame.w = dc.w /\ frame.h = dc.h
      OBVIOUS
    <2> HIDE DEF z, frame
    <2>3. /\ (z ++ frame).rect = r /\ (z ++ frame).w = dc.w /\ (z ++ frame).h = dc.h
          /\ (z ++ frame).rot = 0
      BY <2>1, <2>2 DEF ++
    <2> QED
      BY <2>3 DEF z
  <1>5. image.look = look /\ image.smooth = dc.interpolate
    OBVIOUS
  <1>6. Last(v) = g /\ Front(v) = w
    <2>1. v = <<g>>
      BY DEF w
    <2> HIDE DEF v, g
    <2>2. Len(v) = 1 /\ v[1] = g
      BY <2>1
    <2>3. Last(v) = g
      BY <2>2 DEF Last
    <2>4. Front(v) = SubSeq(v, 1, 0)
      BY <2>2 DEF Front
    <2>5. SubSeq(v, 1, 0) = <<>>
      <3>1. v \in Seq({g})
        BY <2>1
      <3> QED
        BY <3>1
    <2> QED
      BY <2>3, <2>4, <2>5 DEF w
  <1> HIDE DEF f, look, image, v, w, frame, b
  <1>7. s1 = s
    BY <1>2 DEF w, b
  <1>8. s2 = Run(s1, Do("save"))
    BY RunSaved DEF v
  <1>9. s3 = Run(s2, Call("frame", frame))
    BY RunSet DEF f
  <1>10. s4 = Run(s3, Call("surface", image))
    BY RunSet
  <1>11. s5 = Run(s4, Do("new_path"))
    BY RunPath DEF e
  <1>12. s6 = Run(s5, Call("rectangle", unit))
    <2> DEFINE h == Gs(b, NoColor, image, n, f)
    <2>1. h.ctm = f
      BY DEF Gs
    <2>2. InFrame(f, unit) = o
      BY <1>4, InImage
    <2>3. Append(e, o) = area
      <3> HIDE DEF o
      <3> QED
        OBVIOUS
    <2> HIDE DEF h, unit, o, area, e
    <2>4. Run(St(e, 0, v, m, a, h), Call("rectangle", unit))
            = St(Append(e, InFrame(h.ctm, unit)), 0, v, m, a, h)
      BY RunRectangle
    <2> QED
      BY <2>1, <2>2, <2>3, <2>4 DEF h
  <1>13. s7 = Run(s6, Do("clip"))
    <2>1. b \cup {area[k] : k \in DOMAIN area} = both
      <3> HIDE DEF o
      <3>1. DOMAIN area = {1} /\ area[1] = o
        OBVIOUS
      <3> HIDE DEF area
      <3>2. {area[k] : k \in DOMAIN area} = {o}
        BY <3>1
      <3> QED
        BY <3>2 DEF b
    <2> HIDE DEF area, both
    <2>2. Run(s6, Do("clip"))
            = St(<<>>, 0, v, m, area,
                 Gs(b \cup {area[k] : k \in DOMAIN area}, NoColor, image, n, f))
      BY RunClipped
    <2> QED
      BY <2>1, <2>2, Zenon DEF e
  <1>14. s8 = Run(s7, Do("paint"))
    <2> HIDE DEF area, both
    <2>1. Run(s7, Do("paint"))
            = St(e, 0, v, Append(m, ImageMark(area, image.look, image.smooth, both)), area,
                 Gs(both, NoColor, image, n, f))
      BY RunPaint
    <2> QED
      BY <1>5, <2>1
  <1>15. s9 = Run(s8, Do("restore"))
    <2> DEFINE mm == Append(m, y)
    <2> HIDE DEF area, both, mm, g
    <2>1. Run(St(e, 0, v, mm, area, Gs(both, NoColor, image, n, f)), Do("restore"))
            = St(e, 0, Front(v), mm, area, Last(v))
      BY RunRestored
    <2> QED
      BY <1>6, <2>1 DEF mm
  <1>16. m \o <<y>> = Append(m, y)
    BY AppendJoins
  <1>17. Ready(s9, m \o <<y>>, b)
    <2>1. InState(s9, e, m \o <<y>>, b)
      <3> HIDE DEF y, area
      <3> QED
        BY <1>16, Zenon DEF InState, g, w
    <2>2. IsSeq(e)
      BY RunsNone DEF e
    <2> HIDE DEF e, s9, y
    <2> QED
      BY <2>1, <2>2 DEF Ready
  <1> HIDE DEF s1, s2, s3, s4, s5, s6, s7, s8, s9, y, unit
  <1>18. IsSeq(VisitRaster(dc)) /\ Runs(s, VisitRaster(dc)) = s9
    <2> DEFINE q == <<Do("save"), Call("frame", frame), Call("surface", image), Do("new_path"),
                      Call("rectangle", unit), Do("clip"), Do("paint"), Do("restore")>>
    <2>1. IsSeq(q) /\ Runs(s1, q) = s9
      BY <1>8, <1>9, <1>10, <1>11, <1>12, <1>13, <1>14, <1>15, RunsEight
    <2> HIDE DEF q
    <2>2. VisitRaster(dc) = q
      BY <1>3 DEF q
    <2> QED
      BY <1>7, <2>1, <2>2
  <1>19. IsSeq(VisitRaster(dc)) /\ Ready(Runs(s, VisitRaster(dc)), m \o <<y>>, b)
    BY <1>17, <1>18
  <1> QED
    BY <1>19 DEF y, b, look

LEMMA RasterShows ==
    ASSUME NEW call \in RCall, call.kind = "raster", NEW s, NEW m, NEW clip,
           Ready(s, m, {clip}), IsSeq(m)
    PROVE  Shows(call, s, m, clip)
  <1> DEFINE dc == DrawCall(call)
             r == dc.rect
             o == BoxOf(r)
             look == Look(call.w, call.h, call.pixels)
             y == ImageMark(<<o>>, look, call.interpolate, {clip, o})
             v == Unruled(Visible(AskedMarks(call, clip)))
  <1>1. /\ dc.kind = "raster" /\ dc.w = call.w /\ dc.h = call.h
        /\ dc.pixels = call.pixels /\ dc.interpolate = call.interpolate
        /\ r \in Corners4 /\ r[3] \in Nat /\ r[4] \in Nat
        /\ call.w \in Nat \ {0} /\ call.h \in Nat \ {0}
        /\ AskedArea(call) = <<o>>
    BY RasterDrawCall
  <1>2. AskedMarks(call, clip) = <<y>>
    <2> DEFINE area == <<o>>
    <2>1. area[1] = o
      OBVIOUS
    <2> HIDE DEF area, o
    <2>2. AskedArea(call) = area
      BY <1>1 DEF area
    <2>3. AskedMarks(call, clip)
            = <<ImageMark(area, Look(call.w, call.h, call.pixels), call.interpolate,
                          {clip, area[1]})>>
      BY <2>2 DEF AskedMarks
    <2> QED
      BY <2>1, <2>3 DEF area
  <1>3. y.do = "image"
    BY MarkFields
  <1>4. [y EXCEPT !.rule = "nonzero"] = y
    BY UnruledImage
  <1> HIDE DEF y
  <1>5. Visible(AskedMarks(call, clip)) = <<y>>
    BY <1>2, <1>3, VisibleOne DEF Seen
  <1>6. v = <<y>>
    BY <1>4, <1>5, UnruledOne
  <1>7. CairoVisit(dc) = VisitRaster(dc)
    <2> HIDE DEF dc
    <2> QED
      BY <1>1 DEF CairoVisit
  <1> HIDE DEF dc, v
  <1>8. IsSeq(VisitRaster(dc)) /\ Ready(Runs(s, VisitRaster(dc)), m \o <<y>>, {clip})
    <2>1. r[3] >= 0 /\ r[4] >= 0 /\ dc.w \in Nat \ {0} /\ dc.h \in Nat \ {0}
      BY <1>1
    <2> HIDE DEF o
    <2>2. y = ImageMark(<<BoxOf(r)>>, Look(dc.w, dc.h, dc.pixels), dc.interpolate, {clip, BoxOf(r)})
      BY <1>1 DEF y, o
    <2> HIDE DEF r
    <2>3. r \in Corners4 /\ dc.rect = r
      BY <1>1 DEF r
    <2> QED
      BY <2>1, <2>2, <2>3, RasterCalls
  <1>9. IsSeq(CairoVisit(dc)) /\ Ready(Runs(s, CairoVisit(dc)), m \o v, {clip})
    BY <1>6, <1>7, <1>8
  <1> QED
    BY <1>9 DEF Shows, dc, v

(* Whatever R draws, its calls show it.                                    *)
LEMMA VisitShows ==
    ASSUME NEW call \in RCall, IsDot(call), NEW s, NEW m, NEW clip, Ready(s, m, {clip}),
           IsSeq(m)
    PROVE  Shows(call, s, m, clip)
  <1>1. call.kind \in Shapes \/ call.kind = "text" \/ call.kind = "raster"
    BY CallKinds DEF Shapes
  <1>2. call.kind \in Shapes => call.kind \in Outlined \/ call.kind \in {"line", "polyline"}
    BY DEF Shapes, Outlined
  <1> QED
    BY <1>1, <1>2, OutlinedShows, LineShows, TextShows, RasterShows

(* Clipping and the background.                                            *)
ClipCalls(r) == <<Do("new_path"), Call("rectangle", r), Do("clip")>>

LEMMA ClipRuns ==
    ASSUME NEW s, NEW m, Ready(s, m, {}), NEW r
    PROVE  IsSeq(ClipCalls(r)) /\ Ready(Runs(s, ClipCalls(r)), m, {InFrame(Identity, r)})
  <1> DEFINE np == Do("new_path")
             re == Call("rectangle", r)
             cl == Do("clip")
             o == InFrame(Identity, r)
             area == <<o>>
             none == {}
             v == <<>>
             s2 == Run(Run(s, np), re)
             q == <<np, re, cl>>
  <1>1. InState(s2, area, m, none)
    <2>1. Runs(s, <<np, re>>) = s2
      BY RunsTwo
    <2> HIDE DEF s2, area
    <2>2. InState(Runs(s, <<np, re>>), area, m, none)
      BY OutlineOne DEF area
    <2> QED
      BY <2>1, <2>2
  <1>2. PICK t, a, col, i, n : s2 = St(area, t, v, m, a, Gs(none, col, i, n, Identity))
    BY <1>1 DEF InState
  <1>3. IsSeq(q) /\ Runs(s, q) = Run(s2, cl)
    BY RunsThree
  <1>4. {area[k] : k \in DOMAIN area} = {o}
    <2> HIDE DEF o
    <2>1. DOMAIN area = {1} /\ area[1] = o
      OBVIOUS
    <2> HIDE DEF area
    <2> QED
      BY <2>1
  <1> HIDE DEF area, s2, q
  <1>5. none \cup {area[k] : k \in DOMAIN area} = {o}
    BY <1>4
  <1>6. Run(St(area, t, v, m, a, Gs(none, col, i, n, Identity)), cl)
          = St(<<>>, 0, v, m, area, Gs(none \cup {area[k] : k \in DOMAIN area}, col, i, n, Identity))
    <2> HIDE DEF none, v
    <2> QED
      BY RunClipped DEF cl
  <1>7. Run(s2, cl) = St(<<>>, 0, v, m, area, Gs({o}, col, i, n, Identity))
    BY <1>2, <1>5, <1>6, Zenon
  <1>8. InState(Run(s2, cl), <<>>, m, {o})
    BY <1>7, Zenon DEF InState, v
  <1>9. Ready(Run(s2, cl), m, {o})
    BY <1>8, RunsNone DEF Ready
  <1> QED
    BY <1>3, <1>9 DEF q, ClipCalls

LEMMA ResetRuns ==
    ASSUME NEW s, NEW m, NEW b, Ready(s, m, b)
    PROVE  Ready(Run(s, Do("reset_clip")), m, {})
  <1>1. PICK p : IsSeq(p) /\ InState(s, p, m, b)
    BY DEF Ready
  <1>2. PICK t, a, col, i, n : s = St(p, t, <<>>, m, a, Gs(b, col, i, n, Identity))
    BY <1>1 DEF InState
  <1> DEFINE v == <<>>
             none == {}
             c == Do("reset_clip")
  <1>3. s = St(p, t, v, m, a, Gs(b, col, i, n, Identity))
    BY <1>2
  <1>4. Run(St(p, t, v, m, a, Gs(b, col, i, n, Identity)), c)
          = St(p, t, v, m, a, Gs(none, col, i, n, Identity))
    <2> HIDE DEF v
    <2> QED
      BY RunSet
  <1> HIDE DEF c
  <1>5. Run(s, c) = St(p, t, <<>>, m, a, Gs({}, col, i, n, Identity))
    BY <1>3, <1>4
  <1>6. InState(Run(s, c), p, m, {})
    BY <1>5, Zenon DEF InState
  <1> QED
    BY <1>1, <1>6 DEF Ready, c

LEMMA ReclipRuns ==
    ASSUME NEW s, NEW m, NEW b, Ready(s, m, b), NEW r
    PROVE  LET c == <<Do("reset_clip")>> \o ClipCalls(r)
           IN  IsSeq(c) /\ Ready(Runs(s, c), m, {InFrame(Identity, r)})
  <1> DEFINE p == <<Do("reset_clip")>>
             q == ClipCalls(r)
             s1 == Run(s, Do("reset_clip"))
  <1>1. IsSeq(p) /\ Runs(s, p) = s1
    BY RunsOne
  <1>2. Ready(s1, m, {})
    BY ResetRuns
  <1> HIDE DEF p, s1
  <1>3. IsSeq(q) /\ Ready(Runs(s1, q), m, {InFrame(Identity, r)})
    BY <1>2, ClipRuns
  <1> HIDE DEF q
  <1>4. IsSeq(p \o q) /\ Runs(s, p \o q) = Runs(Runs(s, p), q)
    BY <1>1, <1>3, RunsConcat
  <1>5. IsSeq(p \o q) /\ Ready(Runs(s, p \o q), m, {InFrame(Identity, r)})
    BY <1>1, <1>3, <1>4
  <1> QED
    BY <1>5 DEF p, q

BackgroundCalls(size, col) ==
    IF Transparent(col) THEN <<>>
    ELSE <<Do("new_path"), Call("rectangle", <<0, 0>> \o size), SetColor(col), Do("fill")>>

LEMMA SizeCorners ==
    ASSUME NEW size \in Size
    PROVE  InFrame(Identity, <<0, 0>> \o size) = Box(0, 0, size[1], size[2])
  <1>1. size = <<size[1], size[2]>> /\ size[1] \in Nat /\ size[2] \in Nat
    BY DEF Size
  <1>2. <<0, 0>> \o size = <<0, 0, size[1], size[2]>>
    BY <1>1, JoinPairs
  <1> DEFINE r == <<0, 0, size[1], size[2]>>
  <1>3. r \in Corners4 /\ r[1] = 0 /\ r[2] = 0 /\ r[3] = size[1] /\ r[4] = size[2]
    BY <1>1 DEF Corners4
  <1>4. 0 + size[1] = size[1] /\ 0 + size[2] = size[2]
    BY <1>1
  <1>5. BoxOf(r) = Box(0, 0, size[1], size[2])
    BY <1>1, <1>4 DEF BoxOf
  <1> HIDE DEF r
  <1>6. InFrame(Identity, r) = BoxOf(r)
    BY <1>1, <1>3, InIdentity
  <1> QED
    BY <1>2, <1>5, <1>6 DEF r

LEMMA BackgroundRuns ==
    ASSUME NEW s, NEW m, Ready(s, m, {}), IsSeq(m), NEW size \in Size, NEW col
    PROVE  /\ IsSeq(BackgroundCalls(size, col))
           /\ Ready(Runs(s, BackgroundCalls(size, col)),
                    m \o Unruled(Visible(<<Background(size, col)>>)), {})
  <1> DEFINE f == Background(size, col)
             c == BackgroundCalls(size, col)
             v == Unruled(Visible(<<f>>))
             r == <<0, 0>> \o size
             o == InFrame(Identity, r)
             area == <<o>>
             none == {}
  <1>1. o = Box(0, 0, size[1], size[2])
    BY SizeCorners
  <1> HIDE DEF r, o
  <1>2. f = FillMark(area, col, "nonzero", none)
    BY <1>1 DEF Background
  <1>3. f.do = "fill" /\ f.col = col
    <2> HIDE DEF area, none, f
    <2> QED
      BY <1>2, MarkFields
  <1>4. [f EXCEPT !.rule = "nonzero"] = f
    <2> HIDE DEF area, none, f
    <2> QED
      BY <1>2, UnruledFill
  <1> HIDE DEF f
  <1>5. Visible(<<f>>) = Seen(f)
    BY VisibleOne
  <1>6. CASE Transparent(col)
    <2>1. Seen(f) = <<>> /\ c = <<>>
      BY <1>3, <1>6 DEF Seen, BackgroundCalls
    <2>2. v = <<>>
      BY <1>5, <2>1, UnruledOne
    <2> HIDE DEF c, v
    <2>3. m \o v = m
      BY <2>2, AppendJoins
    <2>4. IsSeq(c) /\ Runs(s, c) = s
      BY <2>1, RunsNone
    <2> QED
      BY <2>3, <2>4 DEF c, v, f
  <1>7. CASE ~Transparent(col)
    <2> DEFINE np == Do("new_path")
               re == Call("rectangle", r)
               set == SetColor(col)
               paint == Do("fill")
               s2 == Run(Run(s, np), re)
               w == <<>>
               ff == FillMark(area, col, "nonzero", none)
    <2>1. Seen(f) = <<f>> /\ c = <<np, re, set, paint>>
      BY <1>3, <1>7 DEF Seen, BackgroundCalls, r
    <2>2. v = <<f>>
      BY <1>4, <1>5, <2>1, UnruledOne
    <2> HIDE DEF c, v
    <2>3. m \o v = Append(m, f)
      BY <2>2, AppendJoins
    <2>4. InState(s2, area, m, none)
      <3>1. Runs(s, <<np, re>>) = s2
        BY RunsTwo
      <3> HIDE DEF s2, area
      <3>2. InState(Runs(s, <<np, re>>), area, m, none)
        BY <1>1, OutlineOne DEF area, o
      <3> QED
        BY <3>1, <3>2
    <2>5. PICK t, a, cl, i, n : s2 = St(area, t, w, m, a, Gs(none, cl, i, n, Identity))
      BY <2>4 DEF InState
    <2>6. IsSeq(c) /\ Runs(s, c) = Run(Run(s2, set), paint)
      <3> HIDE DEF np, re, set, paint
      <3> QED
        BY <2>1, RunsFour DEF s2
    <2> HIDE DEF area, none, s2
    <2>7. Run(St(area, t, w, m, a, Gs(none, cl, i, n, Identity)), set)
            = St(area, t, w, m, a, Gs(none, col, NoImage, n, Identity))
      <3> HIDE DEF w
      <3> QED
        BY RunSet
    <2>8. Run(St(area, t, w, m, a, Gs(none, col, NoImage, n, Identity)), paint)
            = St(<<>>, 0, w, Append(m, ff), a, Gs(none, col, NoImage, n, Identity))
      <3> HIDE DEF w
      <3> QED
        BY RunPaint
    <2> HIDE DEF set, paint, ff
    <2>9. Runs(s, c) = St(<<>>, 0, w, m \o v, a, Gs(none, col, NoImage, n, Identity))
      BY <1>2, <2>3, <2>5, <2>6, <2>7, <2>8, Zenon DEF ff
    <2>10. InState(Runs(s, c), <<>>, m \o v, none)
      BY <2>9, Zenon DEF InState, w
    <2>11. Ready(Runs(s, c), m \o v, none)
      BY <2>10, RunsNone DEF Ready
    <2> QED
      BY <2>6, <2>11 DEF c, v, f, none
  <1> QED
    BY <1>6, <1>7

----------------------------------------------------------------------------
(* A page on cairo.                                                        *)

Calling == INSTANCE SequenceLemmas WITH Op <- CairoStep, Image <- LAMBDA x : x

LEMMA CallingFold ==
    ASSUME NEW base, NEW q
    PROVE  FoldLeft(CairoStep, base, q) = Calling!Fold(base, q)
  BY DEF FoldLeft, MapThenFoldSet, Max, Calling!Fold, Calling!Largest

LEMMA CommonSet ==
    ASSUME NEW N, NEW m, \A n \in 1..N : IsSeq(m[n])
    PROVE  \E S : \A n \in 1..N : m[n] \in Seq(S)
  <1> DEFINE S == {m[t[1]][t[2]] : t \in (1..N) \X Nat}
  <1>1. ASSUME NEW n \in 1..N PROVE m[n] \in Seq(S)
    <2>1. PICK A : m[n] \in Seq(A)
      BY DEF IsSeq
    <2> DEFINE q == m[n]
               R == {q[k] : k \in Nat}
    <2>2. q \in Seq(R)
      <3>1. q \in Seq(A)
        BY <2>1
      <3> HIDE DEF q
      <3>2. \A k \in 1..Len(q) : q[k] \in R
        BY <3>1
      <3> HIDE DEF R
      <3>3. Len(q) \in Nat /\ q = [k \in 1..Len(q) |-> q[k]]
        BY <3>1
      <3> QED
        BY <3>2, <3>3
    <2>3. \A x \in R : x \in S
      <3> SUFFICES ASSUME NEW k \in Nat PROVE m[n][k] \in S
        OBVIOUS
      <3> DEFINE t == <<n, k>>
      <3>1. t \in (1..N) \X Nat /\ t[1] = n /\ t[2] = k
        OBVIOUS
      <3> HIDE DEF t
      <3> QED
        BY <3>1
    <2> HIDE DEF q, R, S
    <2> QED
      BY <2>2, <2>3, ElementOfSeq DEF q
  <1> HIDE DEF S
  <1> QED
    BY <1>1

LEMMA UnruledSequence == ASSUME NEW q, IsSeq(q) PROVE IsSeq(Unruled(q))
  <1>1. PICK S : q \in Seq(S)
    BY DEF IsSeq
  <1> DEFINE T == {[x EXCEPT !.rule = "nonzero"] : x \in S}
  <1>2. \A x \in S : [x EXCEPT !.rule = "nonzero"] \in T
    OBVIOUS
  <1> HIDE DEF T
  <1>3. Unruled(q) \in Seq(T)
    BY <1>1, <1>2, Running!MappedSequence DEF Unruled
  <1> QED
    BY <1>3 DEF IsSeq

LEMMA UnruledConcat ==
    ASSUME NEW p, IsSeq(p), NEW q, IsSeq(q)
    PROVE  Unruled(p \o q) = Unruled(p) \o Unruled(q)
  <1> DEFINE m == [n \in 1..2 |-> IF n = 1 THEN p ELSE q]
  <1>1. m[1] = p /\ m[2] = q /\ \A n \in 1..2 : IsSeq(m[n])
    OBVIOUS
  <1> HIDE DEF m
  <1>2. PICK S : \A n \in 1..2 : m[n] \in Seq(S)
    BY <1>1, CommonSet
  <1>3. p \in Seq(S) /\ q \in Seq(S)
    BY <1>1, <1>2
  <1> DEFINE T == {[x EXCEPT !.rule = "nonzero"] : x \in S}
  <1>4. \A x \in S : [x EXCEPT !.rule = "nonzero"] \in T
    OBVIOUS
  <1> HIDE DEF T
  <1> QED
    BY <1>3, <1>4, Running!MappedConcat DEF Unruled

(* Sequences that come one after the other.                                *)
LEMMA FlattenNext ==
    ASSUME NEW m, NEW N \in Nat, \A k \in 1..N : IsSeq(m[k]), NEW n \in Nat, n + 1 <= N
    PROVE  /\ FlattenSeq([k \in 1..(n + 1) |-> m[k]])
                = FlattenSeq([k \in 1..n |-> m[k]]) \o m[n + 1]
           /\ IsSeq(FlattenSeq([k \in 1..n |-> m[k]]))
  <1>1. PICK S : \A k \in 1..N : m[k] \in Seq(S)
    BY CommonSet
  <1>2. \A k \in 1..(n + 1) : m[k] \in Seq(S)
    BY <1>1
  <1>3. /\ FlattenSeq([k \in 1..(n + 1) |-> m[k]])
             = FlattenSeq([k \in 1..n |-> m[k]]) \o m[n + 1]
        /\ FlattenSeq([k \in 1..n |-> m[k]]) \in Seq(S)
    BY <1>2, FlattenSeqPrefix
  <1> QED
    BY <1>3 DEF IsSeq

LEMMA FlattenNone == ASSUME NEW m PROVE FlattenSeq([k \in 1..0 |-> m[k]]) = <<>>
  <1>1. [k \in 1..0 |-> m[k]] = <<>>
    OBVIOUS
  <1> QED
    BY <1>1, FlattenSeqEmpty, Zenon

LEMMA UnruledFlatten ==
    ASSUME NEW m, NEW N \in Nat, \A k \in 1..N : IsSeq(m[k])
    PROVE  /\ Unruled(FlattenSeq([k \in 1..N |-> m[k]]))
                = FlattenSeq([k \in 1..N |-> Unruled(m[k])])
           /\ IsSeq(FlattenSeq([k \in 1..N |-> m[k]]))
  <1> DEFINE F(n) == FlattenSeq([k \in 1..n |-> m[k]])
             v == [k \in 1..N |-> Unruled(m[k])]
             V(n) == FlattenSeq([k \in 1..n |-> v[k]])
             T == {n \in Nat : n <= N => Unruled(F(n)) = V(n) /\ IsSeq(F(n))}
  <1>1. 0 \in T
    <2>1. F(0) = <<>> /\ V(0) = <<>>
      <3>1. FlattenSeq([k \in 1..0 |-> m[k]]) = <<>>
        BY FlattenNone
      <3> HIDE DEF v
      <3>2. FlattenSeq([k \in 1..0 |-> v[k]]) = <<>>
        BY FlattenNone
      <3> QED
        BY <3>1, <3>2
    <2>2. Unruled(<<>>) = <<>>
      BY UnruledOne
    <2>3. IsSeq(<<>>)
      BY RunsNone
    <2> HIDE DEF F, V
    <2> QED
      BY <2>1, <2>2, <2>3
  <1>2. ASSUME NEW n \in Nat, n \in T PROVE n + 1 \in T
    <2> SUFFICES ASSUME n + 1 <= N PROVE Unruled(F(n + 1)) = V(n + 1) /\ IsSeq(F(n + 1))
      OBVIOUS
    <2>1. n + 1 \in 1..N /\ n <= N
      OBVIOUS
    <2>2. \A k \in 1..N : IsSeq(v[k])
      BY UnruledSequence
    <2>3. v[n + 1] = Unruled(m[n + 1])
      BY <2>1
    <2> HIDE DEF v
    <2>4. F(n + 1) = F(n) \o m[n + 1] /\ IsSeq(F(n))
      BY FlattenNext
    <2>5. V(n + 1) = V(n) \o v[n + 1]
      BY <2>2, FlattenNext
    <2> HIDE DEF F, V
    <2>6. Unruled(F(n)) = V(n)
      BY <1>2, <2>1
    <2>7. IsSeq(m[n + 1])
      BY <2>1
    <2> DEFINE x == m[n + 1]
               f == F(n)
    <2>8. IsSeq(x) /\ IsSeq(f)
      BY <2>4, <2>7
    <2> HIDE DEF x, f
    <2>9. Unruled(f \o x) = Unruled(f) \o Unruled(x)
      BY <2>8, UnruledConcat
    <2>10. IsSeq(f \o x)
      BY <2>8, RunsConcat
    <2> QED
      BY <2>3, <2>4, <2>5, <2>6, <2>9, <2>10 DEF x, f
  <1> HIDE DEF T
  <1>3. Nat \subseteq T
    BY <1>1, <1>2, SetInduction
  <1>4. Unruled(F(N)) = V(N) /\ IsSeq(F(N))
    BY <1>3 DEF T
  <1>5. V(N) = FlattenSeq([k \in 1..N |-> Unruled(m[k])])
    <2>1. [k \in 1..N |-> v[k]] = [k \in 1..N |-> Unruled(m[k])]
      OBVIOUS
    <2> HIDE DEF v
    <2> QED
      BY <2>1, Zenon
  <1> HIDE DEF V
  <1> QED
    BY <1>4, <1>5

(* A turn of the loop.                                                     *)
StepMeets(s, acc, m, b, call, e, r, o) ==
    /\ IsSeq(acc.calls) /\ IsSeq(m) /\ Ready(Runs(s, acc.calls), m, {b})
    /\ call \in RCall /\ IsDot(call) /\ e.visit = CairoVisit(DrawCall(call))
    /\ e.clipTo = ClipCalls(r) /\ o = InFrame(Identity, r) /\ (e.clip = acc.last => o = b)

StepShows(s, acc, m, call, e, o) ==
    LET a == CairoStep(acc, e)
        u == Unruled(Visible(AskedMarks(call, o)))
    IN  /\ a.last = e.clip /\ IsSeq(a.calls)
        /\ Ready(Runs(s, a.calls), m \o u, {o}) /\ IsSeq(m \o u) /\ IsSeq(u)

LEMMA CairoStepShows ==
    ASSUME NEW s, NEW acc, NEW m, NEW b, NEW call, NEW e, NEW r, NEW o,
           StepMeets(s, acc, m, b, call, e, r, o)
    PROVE  StepShows(s, acc, m, call, e, o)
  <1> USE DEF StepMeets
  <1> DEFINE a == CairoStep(acc, e)
             u == Unruled(Visible(AskedMarks(call, o)))
             c == acc.calls
             d == IF e.clip = acc.last THEN <<>> ELSE <<Do("reset_clip")>> \o e.clipTo
             v == e.visit
             s1 == Runs(s, c)
             s2 == Runs(s1, d)
  <1>1. a.last = e.clip /\ a.calls = (c \o d) \o v
    BY DEF CairoStep
  <1>2. IsSeq(d) /\ Ready(s2, m, {o})
    <2>1. CASE e.clip = acc.last
      <3>1. d = <<>>
        BY <2>1
      <3> HIDE DEF d, s1
      <3> QED
        BY <2>1, <3>1, RunsNone DEF s1, c
    <2>2. CASE e.clip # acc.last
      <3>1. d = <<Do("reset_clip")>> \o ClipCalls(r)
        BY <2>2
      <3>2. Ready(s1, m, {b})
        OBVIOUS
      <3> HIDE DEF d, s1
      <3> QED
        BY <3>1, <3>2, ReclipRuns
    <2> QED
      BY <2>1, <2>2
  <1> HIDE DEF d, s2
  <1>3. IsSeq(v) /\ Ready(Runs(s2, v), m \o u, {o})
    <2>1. Shows(call, s2, m, o)
      BY <1>2, VisitShows
    <2> QED
      BY <2>1 DEF Shows
  <1>4. IsSeq(u)
    <2> DEFINE q == AskedMarks(call, o)
    <2>1. IsSeq(q)
      <3>1. Few(q)
        BY AskedMarksFew
      <3> HIDE DEF q
      <3> QED
        BY <3>1 DEF Few, IsSeq
    <2> HIDE DEF q
    <2>2. IsSeq(Visible(q))
      <3>1. PICK S : q \in Seq(S)
        BY <2>1 DEF IsSeq
      <3>2. <<>> \in Seq(S)
        OBVIOUS
      <3>3. Visible(q) \in Seq(S)
        BY <3>1, <3>2, VisibleConcat
      <3> QED
        BY <3>3 DEF IsSeq
    <2>3. IsSeq(Unruled(Visible(q)))
      BY <2>2, UnruledSequence
    <2> QED
      BY <2>3 DEF q
  <1> HIDE DEF u, v
  <1>5. IsSeq(m \o u)
    BY <1>4, RunsConcat
  <1>6. IsSeq(c \o d) /\ Runs(s, c \o d) = s2
    <2>1. IsSeq(c)
      OBVIOUS
    <2> HIDE DEF c
    <2> QED
      BY <1>2, <2>1, RunsConcat DEF s1, s2
  <1> DEFINE cd == c \o d
  <1>7. IsSeq(cd) /\ Runs(s, cd) = s2
    BY <1>6
  <1> HIDE DEF cd, c
  <1>8. IsSeq(cd \o v) /\ Runs(s, cd \o v) = Runs(s2, v)
    BY <1>3, <1>7, RunsConcat
  <1>9. a.calls = cd \o v
    BY <1>1 DEF cd
  <1> HIDE DEF a
  <1>10. /\ a.last = e.clip /\ IsSeq(a.calls)
         /\ Ready(Runs(s, a.calls), m \o u, {o}) /\ IsSeq(m \o u) /\ IsSeq(u)
    BY <1>1, <1>3, <1>4, <1>5, <1>8, <1>9
  <1> QED
    BY <1>10 DEF a, u, StepShows

(* The state the loop of render_page is in, between two draw calls.        *)
Walked(s, acc, m) ==
    /\ IsSeq(acc.calls) /\ acc.last \in 0..(Len(page.cps) - 1) /\ IsSeq(m)
    /\ Ready(Runs(s, acc.calls), m,
             {InFrame(Identity, RectOfClip(page.cps[acc.last + 1].rect))})

LEMMA ClipToCalls ==
    ASSUME IInv, NEW id \in 0..(Len(page.cps) - 1)
    PROVE  ClipToRect(page, id) = ClipCalls(RectOfClip(page.cps[id + 1].rect))
  <1> DEFINE m == Len(page.cps)
             cps == page.cps
  <1>1. Numbered(page) /\ cps \in Seq(CpSet) /\ m \in Nat
    BY ClipBoxes DEF PageSet
  <1>2. \A k \in 1..m : cps[k].id = k - 1
    BY <1>1 DEF Numbered
  <1> HIDE DEF cps
  <1>3. SelectInSeq(cps, LAMBDA c : c.id = id) = id + 1
    <2>1. Len(cps) = m
      BY DEF cps
    <2> HIDE DEF m
    <2> QED
      BY <1>1, <1>2, <2>1, ClipWithId DEF m
  <1> QED
    BY <1>3 DEF ClipToRect, ClipCalls, cps

(* The clip of a draw call has the place and size of R's box.              *)
LEMMA ClipRectAsked ==
    ASSUME IInv, NEW n \in 1..Len(asked)
    PROVE  LET r == RectOfClip(page.cps[page.dcs[n].clip + 1].rect)
           IN  r \in Corners4 /\ r[3] >= 0 /\ r[4] >= 0 /\ BoxOf(r) = asked[n].clip
  <1> DEFINE id == page.dcs[n].clip
             rect == page.cps[id + 1].rect
             r == RectOfClip(rect)
  <1>1. /\ page.cps \in Seq(CpSet) /\ Len(page.cps) \in Nat
        /\ id \in 0..(Len(page.cps) - 1) /\ BoxOf(r) = asked[n].clip
        /\ asked \in Seq(AskedSet)
    BY ClipBoxes DEF PageSet
  <1>2. asked[n].clip \in ABox
    <2>1. asked[n] \in AskedSet
      BY <1>1, ElementOfSeq
    <2> QED
      BY <2>1 DEF AskedSet
  <1>3. rect \in Rect
    <2>1. id + 1 \in 1..Len(page.cps)
      <3> DEFINE m == Len(page.cps)
      <3>1. m \in Nat /\ id \in 0..(m - 1)
        BY <1>1
      <3> HIDE DEF m, id
      <3>2. id + 1 \in 1..m
        BY <3>1
      <3> QED
        BY <3>2 DEF m
    <2>2. page.cps[id + 1] \in CpSet
      BY <1>1, <2>1, ElementOfSeq
    <2> QED
      BY <2>2 DEF CpSet
  <1> HIDE DEF rect, id
  <1>4. r \in Corners4
    <2>1. CASE rect \in {"rect"} \X Corners4
      BY <2>1 DEF RectOfClip
    <2>2. CASE rect \in {"full"} \X Size
      <3> DEFINE z == rect[2]
      <3>1. z \in Size /\ r = <<0, 0>> \o z
        BY <2>2 DEF RectOfClip
      <3>2. z = <<z[1], z[2]>> /\ z[1] \in Nat /\ z[2] \in Nat
        BY <3>1 DEF Size
      <3> HIDE DEF z
      <3>3. <<0, 0>> \o z = <<0, 0, z[1], z[2]>>
        BY <3>2, JoinPairs
      <3>4. <<0, 0, z[1], z[2]>> \in Corners4
        BY <3>2 DEF Corners4
      <3> QED
        BY <3>1, <3>3, <3>4
    <2> QED
      BY <1>3, <2>1, <2>2 DEF Rect
  <1>5. asked[n].clip.shape = "box"
    BY <1>2 DEF ABox
  <1> HIDE DEF r
  <1>6. r[3] >= 0 /\ r[4] >= 0
    <2>1. r[3] \in Int /\ r[4] \in Int
      BY <1>4 DEF Corners4
    <2>2. CASE r[3] < 0 \/ r[4] < 0
      <3>1. BoxOf(r) = Subpath("nothing", <<>>)
        BY <2>2 DEF BoxOf
      <3>2. BoxOf(r).shape = "nothing"
        BY <3>1 DEF Subpath
      <3> QED
        BY <1>1, <1>5, <3>2
    <2> QED
      BY <2>1, <2>2
  <1> QED
    BY <1>1, <1>4, <1>6 DEF r, rect, id

(* The box that R clipped to is what cairo clips to.                       *)
LEMMA ClipFramed ==
    ASSUME IInv, NEW n \in 1..Len(asked)
    PROVE  LET r == RectOfClip(page.cps[page.dcs[n].clip + 1].rect)
           IN  InFrame(Identity, r) = asked[n].clip
  <1> DEFINE r == RectOfClip(page.cps[page.dcs[n].clip + 1].rect)
  <1>1. r \in Corners4 /\ r[3] >= 0 /\ r[4] >= 0 /\ BoxOf(r) = asked[n].clip
    BY ClipRectAsked
  <1> HIDE DEF r
  <1>2. InFrame(Identity, r) = asked[n].clip
    BY <1>1, InIdentity
  <1> QED
    BY <1>2 DEF r

Entry(n) == [clip |-> page.dcs[n].clip, clipTo |-> ClipToRect(page, page.dcs[n].clip),
             visit |-> CairoVisit(page.dcs[n].op)]

CairoShown(n) == Unruled(Visible(AskedMarks(AsDot(asked[n].call), asked[n].clip)))

LEMMA WalkedOn ==
    ASSUME IInv, NEW s, NEW acc, NEW m, Walked(s, acc, m), NEW n \in 1..Len(asked)
    PROVE  Walked(s, CairoStep(acc, Entry(n)), m \o CairoShown(n)) /\ IsSeq(CairoShown(n))
  <1> DEFINE e == Entry(n)
             id == page.dcs[n].clip
             r == RectOfClip(page.cps[id + 1].rect)
             o == asked[n].clip
             drawn == asked[n].call
             call == AsDot(drawn)
             b == InFrame(Identity, RectOfClip(page.cps[acc.last + 1].rect))
  <1>1. /\ id \in 0..(Len(page.cps) - 1) /\ page.dcs[n].op = DrawCall(drawn)
        /\ asked \in Seq(AskedSet)
    BY ClipBoxes
  <1>2. /\ call \in RCall /\ IsDot(call)
        /\ CairoVisit(DrawCall(call)) = CairoVisit(DrawCall(drawn))
    <2>1. asked[n] \in AskedSet
      BY <1>1, ElementOfSeq
    <2>2. drawn \in RCall
      BY <2>1, RenderingAssumption DEF AskedSet
    <2> HIDE DEF drawn
    <2> QED
      BY <2>2, DotCall
  <1>3. e.clip = id /\ e.clipTo = ClipToRect(page, id) /\ e.visit = CairoVisit(DrawCall(call))
    <2>1. e.visit = CairoVisit(page.dcs[n].op)
      BY DEF Entry
    <2>2. e.visit = CairoVisit(DrawCall(drawn))
      BY <1>1, <2>1
    <2> QED
      BY <1>2, <2>2 DEF Entry
  <1>4. o = InFrame(Identity, r)
    BY ClipFramed
  <1>5. e.clipTo = ClipCalls(r)
    <2> HIDE DEF e, id
    <2> QED
      BY <1>1, <1>3, ClipToCalls DEF r
  <1>6. e.clip = acc.last => o = b
    BY <1>3, <1>4
  <1>7. IsSeq(acc.calls) /\ IsSeq(m) /\ Ready(Runs(s, acc.calls), m, {b})
    BY DEF Walked
  <1> DEFINE a == CairoStep(acc, e)
             u == Unruled(Visible(AskedMarks(call, o)))
             x == InFrame(Identity, r)
  <1> HIDE DEF e, b, o, call
  <1>8. /\ a.last = e.clip /\ IsSeq(a.calls)
        /\ Ready(Runs(s, a.calls), m \o u, {o}) /\ IsSeq(m \o u) /\ IsSeq(u)
    <2> HIDE DEF r
    <2>1. StepMeets(s, acc, m, b, call, e, r, o)
      BY <1>2, <1>3, <1>4, <1>5, <1>6, <1>7 DEF StepMeets
    <2>2. StepShows(s, acc, m, call, e, o)
      BY <2>1, CairoStepShows
    <2> QED
      BY <2>2 DEF StepShows
  <1>9. u = CairoShown(n)
    BY DEF CairoShown, o, call
  <1> HIDE DEF u, a
  <1>10. a.last = id /\ {o} = {InFrame(Identity, RectOfClip(page.cps[a.last + 1].rect))}
    <2>1. a.last = id
      BY <1>3, <1>8
    <2> HIDE DEF id
    <2> QED
      BY <1>4, <2>1
  <1>11. Walked(s, a, m \o u)
    BY <1>1, <1>8, <1>10 DEF Walked
  <1> QED
    BY <1>8, <1>9, <1>11 DEF a, e

LEMMA WalkedThrough ==
    ASSUME IInv, NEW s, NEW base, NEW m, Walked(s, base, m)
    PROVE  LET N == Len(asked) IN
           Walked(s, Calling!Fold(base, [n \in 1..N |-> Entry(n)]),
                  m \o FlattenSeq([n \in 1..N |-> CairoShown(n)]))
  <1> DEFINE N == Len(asked)
             es == [n \in 1..N |-> Entry(n)]
             u == [n \in 1..N |-> CairoShown(n)]
             E == {Entry(n) : n \in 1..N}
             At(n) == Calling!Fold(base, SubSeq(es, 1, n))
             F(n) == FlattenSeq([k \in 1..n |-> u[k]])
             P(n) == Walked(s, At(n), m \o F(n))
             T == {n \in Nat : n <= N => P(n)}
  <1>1. N \in Nat
    BY ClipBoxes
  <1>2. es \in Seq(E) /\ Len(es) = N /\ \A n \in 1..N : es[n] = Entry(n)
    <2> HIDE DEF N
    <2> QED
      BY <1>1
  <1>3. IsSeq(m)
    BY DEF Walked
  <1>4. \A n \in 1..N : u[n] = CairoShown(n) /\ IsSeq(u[n])
    BY WalkedOn
  <1> HIDE DEF u, es, E
  <1>5. 0 \in T
    <2>1. SubSeq(es, 1, 0) = <<>>
      BY <1>2
    <2>2. At(0) = base
      BY <2>1, Calling!FoldEmpty
    <2>3. F(0) = <<>>
      BY FlattenNone
    <2> HIDE DEF At, F
    <2>4. m \o F(0) = m
      BY <1>3, <2>3, AppendJoins
    <2> QED
      BY <2>2, <2>4
  <1>6. ASSUME NEW n \in Nat, n \in T PROVE n + 1 \in T
    <2> SUFFICES ASSUME n + 1 <= N PROVE P(n + 1)
      OBVIOUS
    <2>1. P(n) /\ n < Len(es) /\ n + 1 \in 1..N
      BY <1>1, <1>2, <1>6
    <2> DEFINE q == SubSeq(es, 1, n)
               e == es[n + 1]
    <2>2. q \in Seq(E) /\ e \in E /\ SubSeq(es, 1, n + 1) = Append(q, e)
      BY <1>2, <2>1, FirstAppend
    <2>3. At(n + 1) = CairoStep(At(n), e)
      <3>1. At(n) = Calling!Fold(base, q) /\ At(n + 1) = Calling!Fold(base, Append(q, e))
        BY <2>2
      <3> HIDE DEF q, e, At
      <3>2. Calling!Fold(base, Append(q, e)) = CairoStep(Calling!Fold(base, q), e)
        BY <2>2, Calling!FoldAppend
      <3> QED
        BY <3>1, <3>2
    <2>4. e = Entry(n + 1) /\ u[n + 1] = CairoShown(n + 1) /\ IsSeq(u[n + 1])
      BY <1>2, <1>4, <2>1
    <2> HIDE DEF e, q, At
    <2>5. F(n + 1) = F(n) \o u[n + 1] /\ IsSeq(F(n))
      BY <1>1, <1>4, FlattenNext
    <2> DEFINE f == F(n)
               x == u[n + 1]
    <2>6. (m \o f) \o x = m \o (f \o x)
      <3>1. IsSeq(f) /\ IsSeq(x)
        BY <2>4, <2>5
      <3> HIDE DEF f, x
      <3>2. Joins(m, f, x)
        BY <1>3, <3>1, SeqConcat
      <3> QED
        BY <3>2 DEF Joins
    <2> DEFINE acc == At(n)
               mf == m \o f
    <2>7. Walked(s, acc, mf)
      BY <2>1
    <2> HIDE DEF acc, mf
    <2>8. Walked(s, CairoStep(acc, Entry(n + 1)), mf \o CairoShown(n + 1))
      BY <2>1, <2>7, WalkedOn
    <2> HIDE DEF F
    <2> QED
      BY <2>3, <2>4, <2>5, <2>6, <2>8 DEF acc, mf, f, x
  <1> HIDE DEF T
  <1>7. Nat \subseteq T
    BY <1>5, <1>6, SetInduction
  <1>8. P(N)
    BY <1>1, <1>7 DEF T
  <1>9. SubSeq(es, 1, N) = es
    BY <1>2
  <1>10. [k \in 1..N |-> u[k]] = u
    BY DEF u
  <1>11. Walked(s, Calling!Fold(base, es), m \o FlattenSeq(u))
    BY <1>8, <1>9, <1>10
  <1> QED
    BY <1>11 DEF es, u

LEMMA StartedReady == Ready(Started, <<>>, {})
  <1>1. Started = St(<<>>, 0, <<>>, <<>>, <<>>, Gs({}, Black, NoImage, <<>>, Identity))
    BY DEF Started, St, Gs
  <1>2. InState(Started, <<>>, <<>>, {})
    BY <1>1, Zenon DEF InState
  <1>3. IsSeq(<<>>)
    BY RunsNone
  <1> QED
    BY <1>2, <1>3 DEF Ready

LEMMA ReadyMarks == ASSUME NEW s, NEW m, NEW b, Ready(s, m, b) PROVE s.marks = m
  <1>1. PICK p, t, a, col, i, n : s = St(p, t, <<>>, m, a, Gs(b, col, i, n, Identity))
    BY DEF Ready, InState
  <1> DEFINE g == Gs(b, col, i, n, Identity)
  <1>2. s = St(p, t, <<>>, m, a, g)
    BY <1>1
  <1> HIDE DEF g
  <1> QED
    BY <1>2 DEF St

LEMMA CairoCalls ==
    ASSUME IInv
    PROVE  LET N == Len(asked)
               base == [last |-> 0, calls |-> ClipToRect(page, 0)]
           IN  Cairo(page, fill)
                 = BackgroundCalls(page.size, fill)
                     \o Calling!Fold(base, [n \in 1..N |-> Entry(n)]).calls
  <1> DEFINE N == Len(asked)
             first == Head(page.cps).id
             base == [last |-> first, calls |-> ClipToRect(page, first)]
             es == [n \in DOMAIN page.dcs |-> Entry(n)]
  <1>1. DOMAIN page.dcs = 1..N
    <2>1. page \in PageSet /\ Len(page.dcs) = N
      BY ClipBoxes
    <2> DEFINE dcs == page.dcs
    <2>2. dcs \in Seq(DcSet) /\ Len(dcs) = N
      BY <2>1 DEF PageSet
    <2> HIDE DEF dcs, N
    <2>3. DOMAIN dcs = 1..N
      BY <2>2
    <2> QED
      BY <2>3 DEF dcs
  <1>2. first = 0
    <2> DEFINE cps == page.cps
    <2>1. Numbered(page) /\ cps \in Seq(CpSet) /\ Len(cps) \in Nat \ {0}
      BY ClipBoxes DEF PageSet
    <2>2. \A k \in 1..Len(cps) : cps[k].id = k - 1
      BY <2>1 DEF Numbered
    <2> HIDE DEF cps
    <2>3. Head(cps) = cps[1] /\ 1 \in 1..Len(cps) /\ 1 - 1 = 0
      BY <2>1
    <2>4. Head(cps).id = 0
      BY <2>2, <2>3
    <2> QED
      BY <2>4 DEF cps
  <1>3. Cairo(page, fill)
          = BackgroundCalls(page.size, fill) \o FoldLeft(CairoStep, base, es).calls
    BY DEF Cairo, BackgroundCalls, Entry
  <1>4. FoldLeft(CairoStep, base, es) = Calling!Fold(base, es)
    <2> HIDE DEF base, es
    <2> QED
      BY CallingFold
  <1>5. es = [n \in 1..N |-> Entry(n)]
    BY <1>1
  <1>6. base = [last |-> 0, calls |-> ClipToRect(page, 0)]
    BY <1>2
  <1> HIDE DEF base, es
  <1> QED
    BY <1>3, <1>4, <1>5, <1>6

(* The picture with no circle smaller than a dot.                          *)
Dotted == PictureOf([n \in DOMAIN asked |-> [asked[n] EXCEPT !.call = AsDot(@)]], fill)

(* What is visible of it, without its fill rules.                          *)
LEMMA UnruledPicture ==
    ASSUME IInv
    PROVE  Unruled(Dotted)
             = Unruled(Visible(<<Background(page.size, fill)>>))
                 \o FlattenSeq([n \in 1..Len(asked) |-> CairoShown(n)])
  <1> DEFINE N == Len(asked)
             f == Background(page.size, fill)
             bg == <<f>>
             k == [n \in 1..N |-> AskedMarks(AsDot(asked[n].call), asked[n].clip)]
             m == [n \in 1..N |-> Visible(k[n])]
             w == Visible(bg)
             v == FlattenSeq([n \in 1..N |-> m[n]])
  <1>1. N \in Nat /\ DOMAIN asked = 1..N
    <2>1. asked \in Seq(AskedSet)
      BY ClipBoxes
    <2> QED
      BY <2>1
  <1>2. Dotted = Visible(bg \o FlattenSeq(k))
    <2> DEFINE ds == [n \in DOMAIN asked |-> [asked[n] EXCEPT !.call = AsDot(@)]]
               j == [n \in DOMAIN ds |-> AskedMarks(ds[n].call, ds[n].clip)]
    <2>1. Dotted = Visible(bg \o FlattenSeq(j))
      BY DEF Dotted, PictureOf
    <2>2. DOMAIN ds = 1..N
      BY <1>1
    <2>3. \A n \in 1..N : ds[n].call = AsDot(asked[n].call) /\ ds[n].clip = asked[n].clip
      <3> TAKE n \in 1..N
      <3>1. asked[n] \in AskedSet
        BY <1>1, ClipBoxes, ElementOfSeq
      <3>2. ds[n] = [asked[n] EXCEPT !.call = AsDot(@)]
        BY <1>1
      <3> HIDE DEF ds
      <3> QED
        BY <3>1, <3>2 DEF AskedSet
    <2> HIDE DEF ds, bg, N
    <2>4. j = k
      BY <2>2, <2>3
    <2> QED
      BY <2>1, <2>4
  <1>3. \A n \in 1..N : Few(k[n])
    <2> TAKE n \in 1..N
    <2>1. k[n] = AskedMarks(AsDot(asked[n].call), asked[n].clip)
      OBVIOUS
    <2> HIDE DEF k
    <2> QED
      BY <2>1, AskedMarksFew
  <1>4. Few(bg) /\ IsSeq(bg)
    <2> HIDE DEF f
    <2>1. bg[1] = f
      OBVIOUS
    <2> HIDE DEF bg
    <2>2. f \in {bg[j] : j \in {1, 2}}
      BY <2>1
    <2>3. bg = <<f>>
      BY DEF bg
    <2>4. Few(bg)
      BY <2>2, <2>3 DEF Few
    <2> QED
      BY <2>4 DEF Few, IsSeq
  <1>5. k = [n \in 1..N |-> k[n]]
    OBVIOUS
  <1>6. \A n \in 1..N : m[n] = Visible(k[n]) /\ CairoShown(n) = Unruled(m[n])
    BY DEF CairoShown
  <1> HIDE DEF k, m, bg
  <1>7. Visible(bg \o FlattenSeq([n \in 1..N |-> k[n]]))
          = w \o FlattenSeq([n \in 1..N |-> Visible(k[n])])
    <2> HIDE DEF N
    <2> QED
      BY <1>1, <1>3, <1>4, VisibleOnBackground, Zenon
  <1>8. Dotted = w \o v
    <2>1. [n \in 1..N |-> Visible(k[n])] = [n \in 1..N |-> m[n]]
      BY <1>6
    <2> HIDE DEF N
    <2> QED
      BY <1>2, <1>5, <1>7, <2>1
  <1>9. \A q : IsSeq(q) => IsSeq(Visible(q))
    <2> TAKE q
    <2> HAVE IsSeq(q)
    <2>1. PICK S : q \in Seq(S)
      BY DEF IsSeq
    <2>2. <<>> \in Seq(S)
      OBVIOUS
    <2>3. Visible(q) \in Seq(S)
      BY <2>1, <2>2, VisibleConcat
    <2> QED
      BY <2>3 DEF IsSeq
  <1>10. \A n \in 1..N : IsSeq(m[n])
    <2> TAKE n \in 1..N
    <2>1. IsSeq(k[n])
      BY <1>3 DEF Few, IsSeq
    <2> QED
      BY <1>6, <1>9, <2>1
  <1>11. IsSeq(w)
    BY <1>4, <1>9
  <1>12. /\ Unruled(v) = FlattenSeq([n \in 1..N |-> Unruled(m[n])])
         /\ IsSeq(v)
    <2> HIDE DEF N
    <2> QED
      BY <1>1, <1>10, UnruledFlatten
  <1>13. [n \in 1..N |-> Unruled(m[n])] = [n \in 1..N |-> CairoShown(n)]
    BY <1>6
  <1> HIDE DEF v, w
  <1>14. Unruled(w \o v) = Unruled(w) \o Unruled(v)
    BY <1>11, <1>12, UnruledConcat
  <1> QED
    BY <1>8, <1>12, <1>13, <1>14 DEF w, bg

LEMMA CairoIsRight == ASSUME IInv PROVE CairoPaints
  <1> DEFINE N == Len(asked)
             base == [last |-> 0, calls |-> ClipToRect(page, 0)]
             bg == BackgroundCalls(page.size, fill)
             c == Calling!Fold(base, [n \in 1..N |-> Entry(n)]).calls
             s1 == Runs(Started, bg)
             w == Unruled(Visible(<<Background(page.size, fill)>>))
             v == FlattenSeq([n \in 1..N |-> CairoShown(n)])
             none == <<>>
             rect == RectOfClip(page.cps[0 + 1].rect)
  <1>1. page.size \in Size /\ 0 \in 0..(Len(page.cps) - 1)
    BY ClipBoxes DEF PageSet
  <1>2. IsSeq(bg) /\ Ready(s1, w, {})
    <2>1. Ready(Started, none, {}) /\ IsSeq(none)
      BY StartedReady, RunsNone
    <2> HIDE DEF none
    <2>2. IsSeq(bg) /\ Ready(s1, none \o w, {})
      BY <1>1, <2>1, BackgroundRuns
    <2>3. IsSeq(w)
      <3> DEFINE f == Background(page.size, fill)
      <3> HIDE DEF f
      <3>1. IsSeq(Unruled(Seen(f)))
        BY UnruledSeen
      <3>2. Visible(<<f>>) = Seen(f)
        BY VisibleOne
      <3> QED
        BY <3>1, <3>2 DEF f
    <2> HIDE DEF w
    <2>4. none \o w = w
      BY <2>3, AppendJoins DEF none
    <2> QED
      BY <2>2, <2>4
  <1>3. IsSeq(w)
    <2> DEFINE f == Background(page.size, fill)
    <2> HIDE DEF f
    <2>1. IsSeq(Unruled(Seen(f)))
      BY UnruledSeen
    <2>2. Visible(<<f>>) = Seen(f)
      BY VisibleOne
    <2> QED
      BY <2>1, <2>2 DEF f
  <1> HIDE DEF bg, s1, w
  <1>4. Walked(s1, base, w)
    <2>1. base.calls = ClipCalls(rect) /\ base.last = 0
      BY <1>1, ClipToCalls
    <2>2. IsSeq(ClipCalls(rect)) /\ Ready(Runs(s1, ClipCalls(rect)), w, {InFrame(Identity, rect)})
      <3> HIDE DEF rect
      <3> QED
        BY <1>2, ClipRuns
    <2> HIDE DEF base
    <2> QED
      BY <1>1, <1>3, <2>1, <2>2 DEF Walked
  <1> HIDE DEF base
  <1>5. Walked(s1, Calling!Fold(base, [n \in 1..N |-> Entry(n)]), w \o v)
    BY <1>4, WalkedThrough
  <1>6. IsSeq(c) /\ Runs(s1, c).marks = w \o v
    BY <1>5, ReadyMarks DEF Walked
  <1>7. Cairo(page, fill) = bg \o c
    BY CairoCalls DEF base, bg
  <1> HIDE DEF c
  <1>8. Runs(Started, bg \o c) = Runs(s1, c)
    BY <1>2, <1>6, RunsConcat DEF s1
  <1>9. CairoMarks(Cairo(page, fill)) = w \o v
    <2>1. CairoMarks(Cairo(page, fill)) = FoldLeft(Run, Started, Cairo(page, fill)).marks
      BY DEF CairoMarks
    <2>2. FoldLeft(Run, Started, Cairo(page, fill)) = Runs(Started, Cairo(page, fill))
      BY RunFold DEF Runs
    <2> QED
      BY <1>6, <1>7, <1>8, <2>1, <2>2
  <1>10. Unruled(Dotted) = w \o v
    BY UnruledPicture DEF w
  <1>11. Unruled(Dotted)
           = [n \in DOMAIN Dotted |-> [Dotted[n] EXCEPT !.rule = "nonzero"]]
    BY DEF Unruled, Running!Mapped
  <1> QED
    BY <1>9, <1>10, <1>11 DEF CairoPaints, Dotted

(* What RendererCairo has cairo paint is what R asked for, but for the     *)
(* size of small circles and the fill rule of paths: whatever is drawn,    *)
(* nothing of a path, a clip, a transformation or a source of one draw     *)
(* call reaches the next one.                                              *)
THEOREM CairoAlwaysPaints == Spec => []CairoPaints
  <1>1. IInv => CairoPaints
    BY CairoIsRight
  <1> QED
    BY <1>1, RenderingIInv, PTL

----------------------------------------------------------------------------
(* What TikZ is able to show of marks.                                     *)

Sketching == INSTANCE SequenceLemmas
    WITH Op <- TokenStep, Image <- LAMBDA m : IF m.do # "image" THEN <<m>> ELSE <<>>

Limiting == INSTANCE SequenceLemmas
    WITH Op <- CommandsStep, Image <- Limited

Undepicted(m) == IF m.do # "image" THEN <<m>> ELSE <<>>

Sketch(q) == TikzSees(Visible(q))

Told(m) == IF m.do # "image" /\ ~Transparent(m.col) THEN <<Limited(m)>> ELSE <<>>

LEMMA TikzSeesParts ==
    ASSUME NEW q
    PROVE  TikzSees(q) = Limiting!Mapped(Sketching!Flatmap(q))
  <1>1. Drawable(q) = Sketching!Flatmap(q)
    BY DEF Drawable, Selected, FlattenSeq, Sketching!Flatmap, Sketching!Flatten
  <1>2. TikzSees(q) = Limiting!Mapped(Drawable(q))
    BY DEF TikzSees, Limiting!Mapped
  <1> QED
    BY <1>1, <1>2

(* Two sequences have a set in common that their elements are in.          *)
LEMMA TwoSequences ==
    ASSUME NEW p, IsSeq(p), NEW q, IsSeq(q)
    PROVE  \E S : p \in Seq(S) /\ q \in Seq(S)
  <1> DEFINE m == [n \in 1..2 |-> IF n = 1 THEN p ELSE q]
  <1>1. m[1] = p /\ m[2] = q /\ \A n \in 1..2 : IsSeq(m[n])
    OBVIOUS
  <1> HIDE DEF m
  <1>2. PICK S : \A n \in 1..2 : m[n] \in Seq(S)
    BY <1>1, CommonSet
  <1> QED
    BY <1>1, <1>2

LEMMA TikzSeesConcat ==
    ASSUME NEW p, IsSeq(p), NEW q, IsSeq(q)
    PROVE  TikzSees(p \o q) = TikzSees(p) \o TikzSees(q) /\ IsSeq(TikzSees(p))
  <1>1. PICK S : p \in Seq(S) /\ q \in Seq(S)
    BY TwoSequences
  <1> DEFINE T == {Limited(x) : x \in S}
             a == Sketching!Flatmap(p)
             b == Sketching!Flatmap(q)
  <1>2. \A x \in S : Undepicted(x) \in Seq(S)
    <2> TAKE x \in S
    <2>1. <<x>> \in Seq(S)
      OBVIOUS
    <2>2. <<>> \in Seq(S)
      OBVIOUS
    <2> QED
      BY <2>1, <2>2 DEF Undepicted
  <1>3. Sketching!Flatmap(p \o q) = a \o b
    BY <1>1, <1>2, Sketching!FlatmapConcat DEF Undepicted
  <1>4. a \in Seq(S) /\ b \in Seq(S)
    BY <1>1, <1>2, Sketching!FlatmapSequence DEF Undepicted
  <1>5. \A x \in S : Limited(x) \in T
    OBVIOUS
  <1> HIDE DEF T, a, b
  <1>6. Limiting!Mapped(a \o b) = Limiting!Mapped(a) \o Limiting!Mapped(b)
    BY <1>4, <1>5, Limiting!MappedConcat
  <1>7. Limiting!Mapped(a) \in Seq(T)
    BY <1>4, <1>5, Limiting!MappedSequence
  <1>8. IsSeq(Limiting!Mapped(a))
    BY <1>7 DEF IsSeq
  <1> QED
    BY <1>3, <1>6, <1>8, TikzSeesParts DEF a, b

LEMMA VisibleIsSeq ==
    ASSUME NEW q, IsSeq(q)
    PROVE  IsSeq(Visible(q))
  <1>1. PICK S : q \in Seq(S)
    BY DEF IsSeq
  <1>2. <<>> \in Seq(S)
    OBVIOUS
  <1>3. Visible(q) \in Seq(S)
    BY <1>1, <1>2, VisibleConcat
  <1> QED
    BY <1>3 DEF IsSeq

LEMMA SketchConcat ==
    ASSUME NEW p, IsSeq(p), NEW q, IsSeq(q)
    PROVE  Sketch(p \o q) = Sketch(p) \o Sketch(q) /\ IsSeq(Sketch(p))
  <1>1. PICK S : p \in Seq(S) /\ q \in Seq(S)
    BY TwoSequences
  <1>2. Visible(p \o q) = Visible(p) \o Visible(q)
    BY <1>1, VisibleConcat
  <1> DEFINE a == Visible(p)
             b == Visible(q)
  <1>3. IsSeq(a) /\ IsSeq(b)
    BY VisibleIsSeq
  <1> HIDE DEF a, b
  <1>4. TikzSees(a \o b) = TikzSees(a) \o TikzSees(b) /\ IsSeq(TikzSees(a))
    BY <1>3, TikzSeesConcat
  <1> QED
    BY <1>2, <1>4 DEF a, b, Sketch

LEMMA TikzSeesNone == TikzSees(<<>>) = <<>>
  <1> DEFINE e == <<>>
  <1>1. Sketching!Flatmap(e) = e
    BY Sketching!FlatmapEmpty
  <1>2. DOMAIN e = {}
    OBVIOUS
  <1>3. Limiting!Mapped(e) = [n \in DOMAIN e |-> Limited(e[n])]
    BY DEF Limiting!Mapped
  <1> HIDE DEF e
  <1>4. [n \in DOMAIN e |-> Limited(e[n])] = [n \in {} |-> Limited(e[n])]
    BY <1>2, Zenon
  <1>5. [n \in {} |-> Limited(e[n])] = <<>>
    OBVIOUS
  <1>6. TikzSees(e) = <<>>
    BY <1>1, <1>3, <1>4, <1>5, TikzSeesParts
  <1> QED
    BY <1>6 DEF e

LEMMA TikzSeesOne ==
    ASSUME NEW m
    PROVE  TikzSees(<<m>>) = IF m.do # "image" THEN <<Limited(m)>> ELSE <<>>
  <1> DEFINE q == <<m>>
             x == Limited(m)
  <1>1. Undepicted(m) \in Seq({m})
    <2>1. <<m>> \in Seq({m})
      OBVIOUS
    <2>2. <<>> \in Seq({m})
      OBVIOUS
    <2> QED
      BY <2>1, <2>2 DEF Undepicted
  <1>2. Sketching!Flatmap(q) = Undepicted(m)
    BY <1>1, Sketching!FlatmapOne DEF Undepicted
  <1>3. CASE m.do # "image"
    <2>1. Sketching!Flatmap(q) = q
      BY <1>2, <1>3 DEF Undepicted
    <2>2. DOMAIN q = 1..1 /\ q[1] = m
      OBVIOUS
    <2>3. Limiting!Mapped(q) = [n \in DOMAIN q |-> Limited(q[n])]
      BY DEF Limiting!Mapped
    <2> HIDE DEF q
    <2>4. \A n \in 1..1 : Limited(q[n]) = x
      <3> TAKE n \in 1..1
      <3>1. n = 1
        OBVIOUS
      <3> QED
        BY <2>2, <3>1
    <2> HIDE DEF x
    <2>5. [n \in 1..1 |-> Limited(q[n])] = [n \in 1..1 |-> x]
      BY <2>4, Zenon
    <2>6. [n \in 1..1 |-> x] = <<x>>
      OBVIOUS
    <2> QED
      BY <1>3, <2>1, <2>2, <2>3, <2>5, <2>6, TikzSeesParts DEF q, x
  <1>4. CASE m.do = "image"
    <2> DEFINE e == <<>>
    <2>1. Sketching!Flatmap(q) = e
      BY <1>2, <1>4 DEF Undepicted
    <2>2. Sketching!Flatmap(e) = e
      BY Sketching!FlatmapEmpty
    <2>3. TikzSees(e) = <<>>
      BY TikzSeesNone
    <2> HIDE DEF e, q
    <2>4. TikzSees(q) = TikzSees(e)
      BY <2>1, <2>2, TikzSeesParts
    <2> QED
      BY <1>4, <2>3, <2>4 DEF q
  <1> QED
    BY <1>3, <1>4

LEMMA SketchNone == Sketch(<<>>) = <<>>
  BY VisibleEmpty, TikzSeesNone DEF Sketch

LEMMA SketchOne ==
    ASSUME NEW m
    PROVE  Sketch(<<m>>) = Told(m) /\ IsSeq(Told(m))
  <1>1. Visible(<<m>>) = Seen(m)
    BY VisibleOne
  <1> DEFINE q == <<m>>
             e == <<>>
  <1>2. ASSUME m.do = "image" \/ ~Transparent(m.col) PROVE Sketch(<<m>>) = Told(m)
    <2>1. Sketch(q) = TikzSees(q)
      BY <1>1, <1>2 DEF Seen, Sketch
    <2>2. TikzSees(q) = IF m.do # "image" THEN <<Limited(m)>> ELSE <<>>
      BY TikzSeesOne
    <2> HIDE DEF q
    <2> QED
      BY <1>2, <2>1, <2>2 DEF Told, q
  <1>3. ASSUME m.do # "image" /\ Transparent(m.col) PROVE Sketch(<<m>>) = Told(m)
    <2>1. Sketch(q) = TikzSees(e)
      BY <1>1, <1>3 DEF Seen, Sketch
    <2>2. TikzSees(e) = e
      BY TikzSeesNone
    <2>3. Told(m) = e
      BY <1>3 DEF Told
    <2> HIDE DEF q, e
    <2> QED
      BY <2>1, <2>2, <2>3 DEF q
  <1>4. IsSeq(Told(m))
    <2> DEFINE x == Limited(m)
    <2>1. IsSeq(<<x>>)
      BY RunsOne
    <2>2. IsSeq(<<>>)
      BY RunsNone
    <2> QED
      BY <2>1, <2>2 DEF Told
  <1> QED
    BY <1>2, <1>3, <1>4

LEMMA SketchTwo ==
    ASSUME NEW a, NEW b
    PROVE  Sketch(<<a, b>>) = Told(a) \o Told(b)
  <1> DEFINE p == <<a>>
             q == <<b>>
  <1>1. IsSeq(p) /\ IsSeq(q)
    BY RunsOne
  <1>2. p \o q = <<a, b>>
    <2>1. p \o q = Append(p, b)
      <3> HIDE DEF p
      <3> QED
        BY <1>1, AppendJoins
    <2> QED
      BY <2>1, JoinOne
  <1> HIDE DEF p, q
  <1>3. Sketch(p \o q) = Sketch(p) \o Sketch(q)
    BY <1>1, SketchConcat
  <1> QED
    BY <1>2, <1>3, SketchOne DEF p, q

----------------------------------------------------------------------------
(* The marks of shapes in TikZ.                                            *)

(* Colours that differ in their alpha only, but for those that cannot be   *)
(* seen.                                                                   *)
SameInk(a, b) ==
    \/ Transparent(a) /\ Transparent(b)
    \/ /\ ~Transparent(a) /\ ~Transparent(b)
       /\ [a EXCEPT !.alpha = 255] = [b EXCEPT !.alpha = 255]

(* Marks by their fields.                                                  *)
MarkOf(do, area, col, rule, pen, text, image, clip) ==
    [do |-> do, area |-> area, col |-> col, rule |-> rule, pen |-> pen, text |-> text,
     image |-> image, clip |-> clip]

LEMMA MarksOf ==
    ASSUME NEW a, NEW c, NEW r, NEW p, NEW t, NEW k
    PROVE  /\ FillMark(a, c, r, k) = MarkOf("fill", a, c, r, <<>>, NoText, NoImage, k)
           /\ StrokeMark(a, c, p, k) = MarkOf("stroke", a, c, "nonzero", p, NoText, NoImage, k)
           /\ TextMark(t, c, k) = MarkOf("text", <<>>, c, "nonzero", <<>>, t, NoImage, k)
  <1> DEFINE e == <<>>
             z == NoColor
             h == "nonzero"
             n == NoText
             i == NoImage
             none == {}
             m == MarkOf("none", e, z, h, e, n, i, none)
             f1 == MarkOf("fill", e, z, h, e, n, i, none)
             f2 == MarkOf("fill", a, z, h, e, n, i, none)
             f3 == MarkOf("fill", a, c, h, e, n, i, none)
             f4 == MarkOf("fill", a, c, r, e, n, i, none)
             s1 == MarkOf("stroke", e, z, h, e, n, i, none)
             s2 == MarkOf("stroke", a, z, h, e, n, i, none)
             s3 == MarkOf("stroke", a, c, h, e, n, i, none)
             s4 == MarkOf("stroke", a, c, h, p, n, i, none)
             t1 == MarkOf("text", e, z, h, e, n, i, none)
             t2 == MarkOf("text", e, z, h, e, t, i, none)
             t3 == MarkOf("text", e, c, h, e, t, i, none)
  <1>1. Mark = m
    BY DEF Mark, MarkOf
  <1> HIDE DEF e, z, n, i, none
  <1>2. [m EXCEPT !.do = "fill"] = f1 /\ [f1 EXCEPT !.area = a] = f2
    BY DEF MarkOf
  <1>3. [f2 EXCEPT !.col = c] = f3 /\ [f3 EXCEPT !.rule = r] = f4
    BY DEF MarkOf
  <1>4. [f4 EXCEPT !.clip = k] = MarkOf("fill", a, c, r, e, n, i, k)
    BY DEF MarkOf
  <1>5. [m EXCEPT !.do = "stroke"] = s1 /\ [s1 EXCEPT !.area = a] = s2
    BY DEF MarkOf
  <1>6. [s2 EXCEPT !.col = c] = s3 /\ [s3 EXCEPT !.pen = p] = s4
    BY DEF MarkOf
  <1>7. [s4 EXCEPT !.clip = k] = MarkOf("stroke", a, c, h, p, n, i, k)
    BY DEF MarkOf
  <1>8. [m EXCEPT !.do = "text"] = t1 /\ [t1 EXCEPT !.text = t] = t2
    BY DEF MarkOf
  <1>9. [t2 EXCEPT !.col = c] = t3
    BY DEF MarkOf
  <1>10. [t3 EXCEPT !.clip = k] = MarkOf("text", e, c, h, e, t, i, k)
    BY DEF MarkOf
  <1> HIDE DEF m, f1, f2, f3, f4, s1, s2, s3, s4, t1, t2, t3
  <1>11. FillMark(a, c, r, k) = MarkOf("fill", a, c, r, e, n, i, k)
    BY <1>1, <1>2, <1>3, <1>4 DEF FillMark
  <1>12. StrokeMark(a, c, p, k) = MarkOf("stroke", a, c, h, p, n, i, k)
    BY <1>1, <1>5, <1>6, <1>7 DEF StrokeMark
  <1>13. TextMark(t, c, k) = MarkOf("text", e, c, h, e, t, i, k)
    BY <1>1, <1>8, <1>9, <1>10 DEF TextMark
  <1> QED
    BY <1>11, <1>12, <1>13 DEF e, h, n, i

LEMMA LimitedMark ==
    ASSUME NEW d, NEW a, NEW c, NEW r, NEW p, NEW t, NEW i, NEW k
    PROVE  Limited(MarkOf(d, a, c, r, p, t, i, k))
               = MarkOf(d, a, [c EXCEPT !.alpha = 255], "nonzero", p,
                        [t EXCEPT !.rot = IF @ > 0 THEN @ ELSE 0], i, k)
  <1> DEFINE m == MarkOf(d, a, c, r, p, t, i, k)
             x == [c EXCEPT !.alpha = 255]
             y == [t EXCEPT !.rot = IF @ > 0 THEN @ ELSE 0]
             m1 == MarkOf(d, a, c, "nonzero", p, t, i, k)
             m2 == MarkOf(d, a, x, "nonzero", p, t, i, k)
             m3 == MarkOf(d, a, x, "nonzero", p, y, i, k)
  <1>1. [m EXCEPT !.rule = "nonzero"] = m1 /\ m1.col = c
    BY DEF MarkOf
  <1>2. [m1 EXCEPT !.col = x] = m2 /\ m2.text = t
    <2> HIDE DEF x
    <2> QED
      BY DEF MarkOf
  <1>3. [m2 EXCEPT !.text = y] = m3
    <2> HIDE DEF x, y
    <2> QED
      BY DEF MarkOf
  <1> HIDE DEF m, m1, m2, m3
  <1>4. [m1 EXCEPT !.col.alpha = 255] = m2
    BY <1>1, <1>2
  <1>5. [m2 EXCEPT !.text.rot = IF @ > 0 THEN @ ELSE 0] = m3
    BY <1>2, <1>3
  <1>6. Limited(m) = m3
    BY <1>1, <1>4, <1>5 DEF Limited
  <1> QED
    BY <1>6 DEF m, m3

LEMMA UprightNoText == [NoText EXCEPT !.rot = IF @ > 0 THEN @ ELSE 0] = NoText
  BY DEF NoText

LEMMA LimitedFill ==
    ASSUME NEW area, NEW col, NEW rule, NEW clip
    PROVE  Limited(FillMark(area, col, rule, clip))
               = FillMark(area, [col EXCEPT !.alpha = 255], "nonzero", clip)
  <1> DEFINE x == [col EXCEPT !.alpha = 255]
             e == <<>>
  <1>1. Limited(MarkOf("fill", area, col, rule, e, NoText, NoImage, clip))
          = MarkOf("fill", area, x, "nonzero", e,
                   [NoText EXCEPT !.rot = IF @ > 0 THEN @ ELSE 0], NoImage, clip)
    <2> HIDE DEF e
    <2> QED
      BY LimitedMark
  <1> HIDE DEF x
  <1>2. /\ FillMark(area, col, rule, clip) = MarkOf("fill", area, col, rule, e, NoText, NoImage, clip)
        /\ FillMark(area, x, "nonzero", clip)
             = MarkOf("fill", area, x, "nonzero", e, NoText, NoImage, clip)
    BY MarksOf
  <1> HIDE DEF e
  <1> QED
    BY <1>1, <1>2, UprightNoText DEF x

LEMMA LimitedStroke ==
    ASSUME NEW area, NEW col, NEW pen, NEW clip
    PROVE  Limited(StrokeMark(area, col, pen, clip))
               = StrokeMark(area, [col EXCEPT !.alpha = 255], pen, clip)
  <1> DEFINE x == [col EXCEPT !.alpha = 255]
             h == "nonzero"
  <1>1. Limited(MarkOf("stroke", area, col, h, pen, NoText, NoImage, clip))
          = MarkOf("stroke", area, x, "nonzero", pen,
                   [NoText EXCEPT !.rot = IF @ > 0 THEN @ ELSE 0], NoImage, clip)
    <2> HIDE DEF h
    <2> QED
      BY LimitedMark
  <1> HIDE DEF x
  <1>2. /\ StrokeMark(area, col, pen, clip)
             = MarkOf("stroke", area, col, "nonzero", pen, NoText, NoImage, clip)
        /\ StrokeMark(area, x, pen, clip)
             = MarkOf("stroke", area, x, "nonzero", pen, NoText, NoImage, clip)
    BY MarksOf
  <1> QED
    BY <1>1, <1>2, UprightNoText DEF x

LEMMA SketchedAlike ==
    ASSUME NEW area, NEW clips, NEW f1, NEW f2, NEW r1, NEW r2, NEW s1, NEW s2, NEW p1, NEW p2,
           SameInk(f1, f2), SameInk(s1, s2), Transparent(s2) \/ p1 = p2
    PROVE  Sketch(Paint(area, f1, r1, s1, p1, clips)) = Sketch(Paint(area, f2, r2, s2, p2, clips))
  <1> DEFINE a1 == FillMark(area, f1, r1, clips)
             a2 == FillMark(area, f2, r2, clips)
             b1 == StrokeMark(area, s1, p1, clips)
             b2 == StrokeMark(area, s2, p2, clips)
             N(c) == [c EXCEPT !.alpha = 255]
  <1>1. /\ Paint(area, f1, r1, s1, p1, clips) = <<a1, b1>>
        /\ Paint(area, f2, r2, s2, p2, clips) = <<a2, b2>>
    BY DEF Paint
  <1>2. /\ a1.do = "fill" /\ a1.col = f1 /\ a2.do = "fill" /\ a2.col = f2
        /\ b1.do = "stroke" /\ b1.col = s1 /\ b2.do = "stroke" /\ b2.col = s2
    BY MarkFields
  <1>3. /\ Limited(a1) = FillMark(area, N(f1), "nonzero", clips)
        /\ Limited(a2) = FillMark(area, N(f2), "nonzero", clips)
        /\ Limited(b1) = StrokeMark(area, N(s1), p1, clips)
        /\ Limited(b2) = StrokeMark(area, N(s2), p2, clips)
    BY LimitedFill, LimitedStroke
  <1>4. ~Transparent(f1) => N(f1) = N(f2)
    BY DEF SameInk
  <1>5. ~Transparent(s1) => N(s1) = N(s2) /\ p1 = p2
    BY DEF SameInk
  <1>6. (Transparent(f1) <=> Transparent(f2)) /\ (Transparent(s1) <=> Transparent(s2))
    BY DEF SameInk
  <1> HIDE DEF a1, a2, b1, b2, N
  <1>7. Told(a1) = Told(a2)
    BY <1>2, <1>3, <1>4, <1>6 DEF Told
  <1>8. Told(b1) = Told(b2)
    BY <1>2, <1>3, <1>5, <1>6 DEF Told
  <1> QED
    BY <1>1, <1>7, <1>8, SketchTwo

LEMMA TexDash ==
    ASSUME NEW line \in Line, ~Transparent(line.col)
    PROVE  LET a == IF line.lty \in {BLANK, SOLID} THEN <<>>
                    ELSE LET n == Max({m \in 1..8 : \A k \in 2..m : Digit(line.lty, k) # 0})
                         IN  [dash |-> [k \in 1..n |-> Digit(line.lty, k)]]
           IN  Get(a, "dash", <<>>) = DashPattern(line.lty)
  <1> DEFINE n == Max({m \in 1..8 : \A k \in 2..m : Digit(line.lty, k) # 0})
             z == [k \in 1..n |-> Digit(line.lty, k)]
  <1>1. CASE line.lty \in {BLANK, SOLID}
    <2>1. DashPattern(line.lty) = <<>>
      BY <1>1, LineParts, DashDigits
    <2> QED
      BY <1>1, <2>1 DEF Get
  <1>2. CASE line.lty \notin {BLANK, SOLID}
    <2>1. z = DashPattern(line.lty)
      BY <1>2, LineParts, DashDigits
    <2> HIDE DEF n, z
    <2>2. Get([dash |-> z], "dash", <<>>) = z
      BY DEF Get
    <2> QED
      BY <1>2, <2>1, <2>2 DEF n, z
  <1> QED
    BY <1>1, <1>2

TexProps == {"fill", "fillOpacity", "draw", "dash", "cap", "join", "limit"}

(* What options p over TikZ's defaults make of a line.                     *)
TexStrokes(p, line) ==
    /\ ~Transparent(line.col) =>
          /\ Get(p, "draw", "black") = line.col.rgb
          /\ Get(p, "dash", <<>>) = DashPattern(line.lty)
    /\ Transparent(line.col) => Get(p, "draw", "black") = "none"
    /\ Get(p, "cap", "butt") = line.lend /\ Get(p, "join", "mitre") = line.ljoin
    /\ line.ljoin = "mitre" => Get(p, "limit", 10) = line.lmitre

(* The options of a line say nothing of a fill, but for its opacity.       *)
TexUnfilled(p) ==
    /\ \A d : Get(p, "fill", d) = d
    /\ \A d : d # 0 => Get(p, "fillOpacity", d) # 0

(* What options make of an area: an opacity is never 0.                    *)
TexFills(p, fcol) ==
    /\ Transparent(fcol) => Get(p, "fill", "none") = "none"
    /\ ~Transparent(fcol) =>
          Get(p, "fill", "none") = fcol.rgb /\ Get(p, "fillOpacity", 255) # 0

LEMMA TexDrawOf ==
    ASSUME NEW line \in Line
    PROVE  LET a == IF line.col = Black THEN <<>>
                    ELSE IF Transparent(line.col) THEN [draw |-> "none"]
                    ELSE [draw |-> line.col.rgb]
                         ++ (IF Opaque(line.col) THEN <<>> ELSE [fillOpacity |-> line.col.alpha])
           IN  /\ \A x \in TexProps : \A d : x \notin {"draw", "fillOpacity"} => Get(a, x, d) = d
               /\ \A d : d # 0 => Get(a, "fillOpacity", d) # 0
               /\ ~Transparent(line.col) => Get(a, "draw", "black") = line.col.rgb
               /\ Transparent(line.col) => Get(a, "draw", "black") = "none"
  <1>0. Black.rgb = "black" /\ ~Transparent(Black)
    BY DEF Black, Transparent
  <1>1. CASE line.col = Black
    <2> DEFINE e == <<>>
    <2>1. \A x \in TexProps : \A d : Get(e, x, d) = d
      BY DEF Get, TexProps
    <2>2. "draw" \in TexProps /\ "fillOpacity" \in TexProps
      BY DEF TexProps
    <2> HIDE DEF e
    <2> QED
      BY <1>0, <1>1, <2>1, <2>2 DEF e
  <1>2. CASE line.col # Black /\ Transparent(line.col)
    <2> DEFINE a == [draw |-> "none"]
    <2>1. \A x \in TexProps : \A d : Get(a, x, d) = IF x = "draw" THEN "none" ELSE d
      BY DEF Get, TexProps
    <2>2. "draw" \in TexProps /\ "fillOpacity" \in TexProps
      BY DEF TexProps
    <2> HIDE DEF a
    <2> QED
      BY <1>2, <2>1, <2>2 DEF a
  <1>3. CASE line.col # Black /\ ~Transparent(line.col)
    <2> DEFINE a == [draw |-> line.col.rgb]
               b == IF Opaque(line.col) THEN <<>> ELSE [fillOpacity |-> line.col.alpha]
    <2>1. \A x, y : Get(a ++ b, x, y) = Get(a, x, Get(b, x, y))
      BY GetOver
    <2>2. \A x \in TexProps : \A y : Get(a, x, y) = IF x = "draw" THEN line.col.rgb ELSE y
      BY DEF Get, TexProps
    <2>3. \A x \in TexProps : \A y :
              Get(b, x, y) = IF x = "fillOpacity" /\ ~Opaque(line.col) THEN line.col.alpha ELSE y
      BY DEF Get, TexProps
    <2>4. "draw" \in TexProps /\ "fillOpacity" \in TexProps /\ line.col.alpha # 0
      BY <1>3 DEF TexProps, Transparent
    <2> HIDE DEF a, b
    <2>5. /\ \A x \in TexProps : \A d : x \notin {"draw", "fillOpacity"} => Get(a ++ b, x, d) = d
          /\ \A d : d # 0 => Get(a ++ b, "fillOpacity", d) # 0
          /\ Get(a ++ b, "draw", "black") = line.col.rgb
      BY <2>1, <2>2, <2>3, <2>4
    <2> QED
      BY <1>3, <2>5 DEF a, b
  <1> QED
    BY <1>1, <1>2, <1>3

(* tex_lineinfo, over what TikZ does when told nothing.                    *)
LEMMA TexLine ==
    ASSUME NEW line \in Line
    PROVE  TexStrokes(TexLineInfo(line), line) /\ TexUnfilled(TexLineInfo(line))
  <1> DEFINE a == IF line.col = Black THEN <<>>
                  ELSE IF Transparent(line.col) THEN [draw |-> "none"]
                  ELSE [draw |-> line.col.rgb]
                       ++ (IF Opaque(line.col) THEN <<>> ELSE [fillOpacity |-> line.col.alpha])
             b == IF line.lty \in {BLANK, SOLID} THEN <<>>
                  ELSE LET n == Max({m \in 1..8 : \A k \in 2..m : Digit(line.lty, k) # 0})
                       IN  [dash |-> [k \in 1..n |-> Digit(line.lty, k)]]
             c == IF line.lend \in {"round", "square"} THEN [cap |-> line.lend] ELSE <<>>
             e == IF line.ljoin = "mitre" THEN <<>> ELSE [join |-> line.ljoin]
             f == IF line.ljoin = "mitre" /\ line.lmitre # 10 THEN [limit |-> line.lmitre]
                  ELSE <<>>
             P(x, d) == Get(a, x, Get(b, x, Get(c, x, Get(e, x, Get(f, x, d)))))
             p == TexLineInfo(line)
             Plain6 == {"fill", "fillOpacity", "draw", "cap", "join", "limit"}
  <1>1. p = a ++ b ++ c ++ e ++ f
    BY DEF TexLineInfo
  <1>2. /\ \A x \in TexProps : \A d : x \notin {"draw", "fillOpacity"} => Get(a, x, d) = d
        /\ \A d : d # 0 => Get(a, "fillOpacity", d) # 0
        /\ ~Transparent(line.col) => Get(a, "draw", "black") = line.col.rgb
        /\ Transparent(line.col) => Get(a, "draw", "black") = "none"
    BY TexDrawOf
  <1>3. /\ ~Transparent(line.col) => Get(b, "dash", <<>>) = DashPattern(line.lty)
        /\ \A x \in Plain6 : \A d : Get(b, x, d) = d
    <2>1. ~Transparent(line.col) => Get(b, "dash", <<>>) = DashPattern(line.lty)
      BY TexDash
    <2>2. \A x \in Plain6 : \A d : Get(b, x, d) = d
      <3>1. CASE line.lty \in {BLANK, SOLID}
        BY <3>1 DEF Get
      <3>2. CASE line.lty \notin {BLANK, SOLID}
        <4> DEFINE n == Max({m \in 1..8 : \A k \in 2..m : Digit(line.lty, k) # 0})
                   z == [k \in 1..n |-> Digit(line.lty, k)]
        <4>1. b = [dash |-> z]
          BY <3>2
        <4> HIDE DEF z, b
        <4> QED
          BY <4>1 DEF Get
      <3> QED
        BY <3>1, <3>2
    <2> QED
      BY <2>1, <2>2
  <1>4. \A x \in TexProps : \A d :
            Get(c, x, d) = IF x = "cap" /\ line.lend # "butt" THEN line.lend ELSE d
    <2>1. line.lend \in {"round", "butt", "square"}
      BY LineParts
    <2> QED
      BY <2>1 DEF Get, TexProps
  <1>5. \A x \in TexProps : \A d :
            Get(e, x, d) = IF x = "join" /\ line.ljoin # "mitre" THEN line.ljoin ELSE d
    BY DEF Get, TexProps
  <1>6. \A x \in TexProps : \A d :
            Get(f, x, d) = IF x = "limit" /\ line.ljoin = "mitre" /\ line.lmitre # 10
                           THEN line.lmitre ELSE d
    BY DEF Get, TexProps
  <1>7. /\ "fill" \in TexProps /\ "fillOpacity" \in TexProps /\ "draw" \in TexProps
        /\ "dash" \in TexProps /\ "cap" \in TexProps /\ "join" \in TexProps
        /\ "limit" \in TexProps /\ Plain6 \subseteq TexProps
    BY DEF TexProps
  <1> HIDE DEF a, b, c, e, f, p
  <1>8. \A x, d : Get(p, x, d) = P(x, d)
    BY <1>1, GetFive
  <1>9. \A d : P("fill", d) = d /\ (d # 0 => P("fillOpacity", d) # 0)
    BY <1>2, <1>3, <1>4, <1>5, <1>6, <1>7
  <1>10. ~Transparent(line.col) =>
            P("draw", "black") = line.col.rgb /\ P("dash", <<>>) = DashPattern(line.lty)
    BY <1>2, <1>3, <1>4, <1>5, <1>6, <1>7
  <1>11. Transparent(line.col) => P("draw", "black") = "none"
    BY <1>2, <1>3, <1>4, <1>5, <1>6, <1>7
  <1>12. P("cap", "butt") = line.lend /\ P("join", "mitre") = line.ljoin
    BY <1>2, <1>3, <1>4, <1>5, <1>6, <1>7
  <1>13. line.ljoin = "mitre" => P("limit", 10) = line.lmitre
    BY <1>2, <1>3, <1>4, <1>5, <1>6, <1>7
  <1> HIDE DEF P
  <1> QED
    BY <1>8, <1>9, <1>10, <1>11, <1>12, <1>13 DEF TexStrokes, TexUnfilled, p

(* tex_fill_or_omit, after the options of a line.                          *)
LEMMA TexLineAndFill ==
    ASSUME NEW line \in Line, NEW fcol \in Color
    PROVE  LET p == TexLineInfo(line) ++ TexFillOrOmit(fcol)
           IN  TexStrokes(p, line) /\ TexFills(p, fcol)
  <1> DEFINE l == TexLineInfo(line)
             q == TexFillOrOmit(fcol)
             p == l ++ q
  <1>1. TexStrokes(l, line) /\ TexUnfilled(l)
    BY TexLine
  <1>2. /\ \A x \in TexProps : \A d : x \notin {"fill", "fillOpacity"} => Get(q, x, d) = d
        /\ Transparent(fcol) => \A d : Get(q, "fill", d) = d
        /\ ~Transparent(fcol) =>
              /\ \A d : Get(q, "fill", d) = fcol.rgb
              /\ Get(q, "fillOpacity", 255) # 0
    <2>1. CASE Transparent(fcol)
      <3> DEFINE e == <<>>
      <3>1. q = e
        BY <2>1 DEF TexFillOrOmit
      <3>2. \A x \in TexProps : \A d : Get(e, x, d) = d
        BY DEF Get, TexProps
      <3>3. "fill" \in TexProps
        BY DEF TexProps
      <3> HIDE DEF e, q
      <3> QED
        BY <2>1, <3>1, <3>2, <3>3
    <2>2. CASE ~Transparent(fcol)
      <3> DEFINE a == [fill |-> fcol.rgb]
                 b == IF Opaque(fcol) THEN <<>> ELSE [fillOpacity |-> fcol.alpha]
      <3>1. q = a ++ b
        BY <2>2 DEF TexFillOrOmit
      <3>2. \A x, y : Get(a ++ b, x, y) = Get(a, x, Get(b, x, y))
        BY GetOver
      <3>3. \A x \in TexProps : \A y : Get(a, x, y) = IF x = "fill" THEN fcol.rgb ELSE y
        BY DEF Get, TexProps
      <3>4. \A x \in TexProps : \A y :
                Get(b, x, y) = IF x = "fillOpacity" /\ ~Opaque(fcol) THEN fcol.alpha ELSE y
        BY DEF Get, TexProps
      <3>5. "fill" \in TexProps /\ "fillOpacity" \in TexProps /\ fcol.alpha # 0
        BY <2>2 DEF TexProps, Transparent
      <3> HIDE DEF a, b, q
      <3> QED
        BY <2>2, <3>1, <3>2, <3>3, <3>4, <3>5
    <2> QED
      BY <2>1, <2>2
  <1> HIDE DEF l, q
  <1>3. \A x, d : Get(p, x, d) = Get(l, x, Get(q, x, d))
    BY GetOver
  <1>4. /\ "draw" \in TexProps /\ "dash" \in TexProps /\ "cap" \in TexProps
        /\ "join" \in TexProps /\ "limit" \in TexProps
    BY DEF TexProps
  <1> HIDE DEF p
  <1>5. TexStrokes(p, line)
    BY <1>1, <1>2, <1>3, <1>4 DEF TexStrokes
  <1>6. TexFills(p, fcol)
    BY <1>1, <1>2, <1>3 DEF TexFills, TexUnfilled
  <1> QED
    BY <1>5, <1>6 DEF p, l, q

(* What TeX makes of a shape that is drawn with options p.                 *)
LEMMA TexShapeMarks ==
    ASSUME NEW tok, tok.t = "draw", NEW line \in Line, NEW fcol \in Color \cup {NoColor},
           TexStrokes(tok.options, line), TexFills(tok.options, fcol), NEW rule, NEW clips
    PROVE  Sketch(TokenMarks(tok, clips))
               = Sketch(Paint(tok.area, fcol, rule, line.col, AskedPen(line), clips))
  <1> DEFINE p == tok.options
             o == p ++ TikzDefaults
             f1 == ColorOf(o.fill, o.fillOpacity)
             s1 == ColorOf(o.draw, 255)
             p1 == Pen(o.dash, o.cap, o.join, o.limit)
  <1>1. TokenMarks(tok, clips) = Paint(tok.area, f1, "nonzero", s1, p1, clips)
    BY DEF TokenMarks
  <1>2. /\ o.fill = Get(p, "fill", "none") /\ o.fillOpacity = Get(p, "fillOpacity", 255)
        /\ o.draw = Get(p, "draw", "black") /\ o.dash = Get(p, "dash", <<>>)
        /\ o.cap = Get(p, "cap", "butt") /\ o.join = Get(p, "join", "mitre")
        /\ o.limit = Get(p, "limit", 10)
    <2>1. \A x \in DOMAIN TikzDefaults : o[x] = Get(p, x, TikzDefaults[x])
      BY GetOver
    <2> DEFINE q == TikzDefaults
    <2>2. /\ "fill" \in DOMAIN q /\ "fillOpacity" \in DOMAIN q /\ "draw" \in DOMAIN q
          /\ "dash" \in DOMAIN q /\ "cap" \in DOMAIN q /\ "join" \in DOMAIN q
          /\ "limit" \in DOMAIN q
      BY DEF TikzDefaults
    <2>3. /\ q.fill = "none" /\ q.fillOpacity = 255 /\ q.draw = "black" /\ q.dash = <<>>
          /\ q.cap = "butt" /\ q.join = "mitre" /\ q.limit = 10
      BY DEF TikzDefaults
    <2> HIDE DEF o, q
    <2> QED
      BY <2>1, <2>2, <2>3 DEF q
  <1> HIDE DEF o
  <1>3. Transparent(NoColor)
    BY DEF Transparent, NoColor
  <1>4. SameInk(f1, fcol)
    <2>1. CASE Transparent(fcol)
      <3>1. f1 = NoColor
        BY <1>2, <2>1 DEF TexFills, ColorOf
      <3> QED
        BY <1>3, <2>1, <3>1 DEF SameInk
    <2>2. CASE ~Transparent(fcol)
      <3> DEFINE x == fcol.rgb
                 a == fcol.alpha
                 b == o.fillOpacity
      <3>1. x # "none" /\ fcol = [rgb |-> x, alpha |-> a]
        <4>1. fcol \in Color
          BY <1>3, <2>2
        <4> QED
          BY <4>1 DEF Color
      <3>2. f1 = [rgb |-> x, alpha |-> b] /\ b # 0
        BY <1>2, <2>2, <3>1 DEF TexFills, ColorOf
      <3> HIDE DEF x, a, b, f1
      <3>3. ~Transparent(f1)
        BY <3>2 DEF Transparent
      <3>4. [f1 EXCEPT !.alpha = 255] = [rgb |-> x, alpha |-> 255]
        BY <3>2
      <3>5. [fcol EXCEPT !.alpha = 255] = [rgb |-> x, alpha |-> 255]
        BY <3>1
      <3> QED
        BY <2>2, <3>3, <3>4, <3>5 DEF SameInk
    <2> QED
      BY <2>1, <2>2
  <1>5. SameInk(s1, line.col)
    <2>1. CASE Transparent(line.col)
      <3>1. s1 = NoColor
        BY <1>2, <2>1 DEF TexStrokes, ColorOf
      <3> QED
        BY <1>3, <2>1, <3>1 DEF SameInk
    <2>2. CASE ~Transparent(line.col)
      <3> DEFINE x == line.col.rgb
                 a == line.col.alpha
                 col == line.col
      <3>1. x # "none" /\ col = [rgb |-> x, alpha |-> a]
        BY LineParts
      <3>2. s1 = [rgb |-> x, alpha |-> 255]
        BY <1>2, <2>2, <3>1 DEF TexStrokes, ColorOf
      <3>3. ~Transparent(col)
        BY <2>2
      <3> HIDE DEF x, a, s1, col
      <3>4. ~Transparent(s1)
        BY <3>2 DEF Transparent
      <3>5. [s1 EXCEPT !.alpha = 255] = [rgb |-> x, alpha |-> 255]
        BY <3>2
      <3>6. [col EXCEPT !.alpha = 255] = [rgb |-> x, alpha |-> 255]
        BY <3>1
      <3>7. SameInk(s1, col)
        BY <3>3, <3>4, <3>5, <3>6 DEF SameInk
      <3> QED
        BY <3>7 DEF col
    <2> QED
      BY <2>1, <2>2
  <1>6. Transparent(line.col) \/ p1 = AskedPen(line)
    <2> SUFFICES ASSUME ~Transparent(line.col) PROVE p1 = AskedPen(line)
      OBVIOUS
    <2>1. /\ o.dash = DashPattern(line.lty) /\ o.cap = line.lend /\ o.join = line.ljoin
          /\ line.ljoin = "mitre" => o.limit = line.lmitre
      BY <1>2 DEF TexStrokes
    <2> QED
      BY <2>1 DEF AskedPen, Pen
  <1> DEFINE pen == AskedPen(line)
             ink == line.col
  <1>7. SameInk(s1, ink) /\ (Transparent(ink) \/ p1 = pen)
    BY <1>5, <1>6
  <1> HIDE DEF f1, s1, p1, pen, ink
  <1>8. Sketch(Paint(tok.area, f1, "nonzero", s1, p1, clips))
          = Sketch(Paint(tok.area, fcol, rule, ink, pen, clips))
    BY <1>4, <1>7, SketchedAlike
  <1> QED
    BY <1>1, <1>8 DEF pen, ink

LEMMA CornersBox ==
    ASSUME NEW r \in Corners4, r[3] >= 0, r[4] >= 0
    PROVE  Corners(r) = BoxOf(r)
  BY DEF Corners, BoxOf, Corners4

LEMMA TexAreaAsked ==
    ASSUME NEW call \in RCall, call.kind \in Shapes
    PROVE  TexArea(DrawCall(call)) = AskedArea(call)
  <1> DEFINE dc == DrawCall(call)
             a == AskedArea(call)
  <1>1. dc.kind = call.kind
    BY DrawCallKind
  <1>2. CASE call.kind \in {"line", "polyline", "polygon", "circle"}
    <2>1. dc = call
      BY <1>2, SameDrawCall
    <2> HIDE DEF dc
    <2> QED
      BY <1>2, <2>1 DEF TexArea, AskedArea, dc
  <1>3. CASE call.kind = "path"
    <2>1. dc = call
      BY <1>3, SameDrawCall
    <2>2. Traced(<<>>, PathCommands(call.points, call.nper)) = Split(call.points, call.nper)
      <3>1. /\ call.nper \in Seq(Nat \ {0, 1}) /\ call.points \in Seq(Point)
            /\ Len(call.points) = SumSeq(call.nper)
        BY <1>3, CallKinds
      <3> QED
        BY <3>1, PathTraced
    <2> HIDE DEF dc
    <2> QED
      BY <1>3, <2>1, <2>2 DEF TexArea, AskedArea, dc
  <1>4. CASE call.kind = "rect"
    <2> DEFINE c == call.corners
               r == dc.rect
               rb == Box(c[1], c[2], c[3], c[4])
    <2>1. BoxOf(r) = rb /\ r \in Corners4 /\ r[3] >= 0 /\ r[4] >= 0
      BY <1>4, RectDrawCall
    <2>2. a = <<rb>>
      BY <1>4 DEF AskedArea
    <2>3. TexArea(dc) = <<Corners(r)>>
      BY <1>1, <1>4 DEF TexArea
    <2> HIDE DEF dc, c, a, r, rb
    <2>4. Corners(r) = BoxOf(r)
      BY <2>1, CornersBox
    <2> QED
      BY <2>1, <2>2, <2>3, <2>4 DEF dc, a
  <1> QED
    BY <1>2, <1>3, <1>4 DEF Shapes

(* A shape is drawn as R asked for it, as far as TikZ shows it.            *)
LEMMA TexShape ==
    ASSUME NEW call \in RCall, call.kind \in Shapes, NEW clip
    PROVE  LET tok == TikzVisit(DrawCall(call)) IN
           /\ tok.t = "draw"
           /\ Sketch(TokenMarks(tok, {clip})) = Sketch(AskedMarks(call, clip))
  <1> DEFINE dc == DrawCall(call)
             tok == TikzVisit(dc)
             fcol == AskedFill(call)
             line == call.line
             opts == IF call.kind \in {"line", "polyline"} THEN TexLineInfo(line)
                     ELSE TexLineInfo(line) ++ TexFillOrOmit(fcol)
             area == AskedArea(call)
  <1>1. /\ dc.kind = call.kind /\ dc.line = line /\ line \in Line
        /\ call.kind \notin {"line", "polyline"} => dc.fill = fcol /\ fcol \in Color
    BY ShapeDrawCall DEF AskedFill
  <1>2. TexArea(dc) = area
    BY TexAreaAsked
  <1>3. tok = [Token("draw") EXCEPT !.area = area, !.options = opts]
    <2> HIDE DEF area, dc, line, fcol
    <2>1. CASE call.kind \in {"line", "polyline"}
      BY <1>1, <1>2, <2>1 DEF TikzVisit
    <2>2. CASE call.kind \notin {"line", "polyline"}
      BY <1>1, <1>2, <2>2 DEF TikzVisit, Shapes
    <2> QED
      BY <2>1, <2>2
  <1>4. TexStrokes(opts, line) /\ TexFills(opts, fcol) /\ fcol \in Color \cup {NoColor}
    <2>1. CASE call.kind \in {"line", "polyline"}
      <3>1. TexStrokes(TexLineInfo(line), line) /\ TexUnfilled(TexLineInfo(line))
        BY <1>1, TexLine
      <3>2. fcol = NoColor /\ Transparent(NoColor)
        BY <2>1 DEF AskedFill, Transparent, NoColor
      <3> QED
        BY <2>1, <3>1, <3>2 DEF TexFills, TexUnfilled
    <2>2. CASE call.kind \notin {"line", "polyline"}
      BY <1>1, <2>2, TexLineAndFill
    <2> QED
      BY <2>1, <2>2
  <1>5. AskedMarks(call, clip)
          = Paint(area, fcol, AskedRule(call), line.col, AskedPen(line), {clip})
    BY ShapeAsked
  <1> HIDE DEF area, opts, dc, line, fcol, tok
  <1>6. tok.t = "draw" /\ tok.area = area /\ tok.options = opts
    BY <1>3 DEF Token
  <1>7. Sketch(TokenMarks(tok, {clip}))
          = Sketch(Paint(tok.area, fcol, AskedRule(call), line.col, AskedPen(line), {clip}))
    BY <1>1, <1>4, <1>6, TexShapeMarks
  <1> QED
    BY <1>5, <1>6, <1>7 DEF tok, dc

----------------------------------------------------------------------------
(* Text and images in TikZ.                                                *)

LEMMA TexTextSame ==
    ASSUME NEW S, NEW str \in Seq(S), WordEnds(str)
    PROVE  TexText(TexEscaped(str)) = str
  <1> DEFINE N == Len(str)
             K(c) == IF c \in {"&", "%", "$", "#", "_", "{", "}"} THEN "symbol"
                     ELSE IF c \in {"~", "^", "backslash"} THEN "word" ELSE "char"
             t == TexEscaped(str)
  <1>1. N \in Nat /\ DOMAIN str = 1..N /\ str = [n \in 1..N |-> str[n]]
    OBVIOUS
  <1>2. t = [n \in 1..N |-> <<K(str[n]), str[n]>>]
    BY <1>1 DEF TexEscaped
  <1>3. \A c : K(c) = "word" => c \in {"~", "^", "backslash"}
    <2> DEFINE A == {"&", "%", "$", "#", "_", "{", "}"}
               B == {"~", "^", "backslash"}
               L(c) == IF c \in A THEN "symbol" ELSE IF c \in B THEN "word" ELSE "char"
    <2>1. \A c : L(c) = K(c)
      BY Zenon
    <2> HIDE DEF A, B, K
    <2>2. \A c : L(c) = "word" => c \in B
      OBVIOUS
    <2> QED
      BY <2>1, <2>2 DEF B
  <1> HIDE DEF K
  <1>4. Len(t) = N /\ DOMAIN t = 1..N /\ \A n \in 1..N : t[n][1] = K(str[n]) /\ t[n][2] = str[n]
    <2> HIDE DEF N
    <2>1. DOMAIN [n \in 1..N |-> <<K(str[n]), str[n]>>] = 1..N
      OBVIOUS
    <2>2. Len([n \in 1..N |-> <<K(str[n]), str[n]>>]) = N
      BY <1>1
    <2>3. \A n \in 1..N : t[n] = <<K(str[n]), str[n]>>
      BY <1>2
    <2> HIDE DEF t
    <2> QED
      BY <1>2, <2>1, <2>2, <2>3
  <1> HIDE DEF t
  <1>5. ~ \E n \in 1..(Len(t) - 1) :
             t[n][1] = "word" /\ t[n + 1][1] = "char" /\ t[n + 1][2] \in Taken
    <2> SUFFICES ASSUME NEW n \in 1..(N - 1), t[n][1] = "word", t[n + 1][2] \in Taken
                 PROVE  FALSE
      BY <1>4
    <2>1. n \in 1..N /\ n + 1 \in 1..N
      BY <1>1
    <2>2. K(str[n]) = "word" /\ str[n + 1] \in Taken
      BY <1>4, <2>1
    <2> QED
      BY <1>3, <2>2 DEF WordEnds
  <1>6. TexText(t) = [n \in DOMAIN t |-> t[n][2]]
    BY <1>5 DEF TexText
  <1>7. [n \in DOMAIN t |-> t[n][2]] = str
    <2> HIDE DEF N
    <2> QED
      BY <1>1, <1>4
  <1> QED
    BY <1>6, <1>7 DEF t

(* The options of text.                                                    *)
LEMMA TexTextInk ==
    ASSUME NEW col \in Color
    PROVE  LET p == [text |-> col.rgb]
                    ++ (IF Opaque(col) THEN <<>> ELSE [textOpacity |-> col.alpha])
               o == p ++ TikzDefaults
           IN  ColorOf(o.text, o.textOpacity) = col
  <1> DEFINE a == [text |-> col.rgb]
             b == IF Opaque(col) THEN <<>> ELSE [textOpacity |-> col.alpha]
             p == a ++ b
             q == TikzDefaults
             o == p ++ q
             x == col.rgb
             y == col.alpha
  <1>1. col = [rgb |-> x, alpha |-> y] /\ x # "none"
    BY DEF Color
  <1>2. "text" \in DOMAIN a /\ a["text"] = x /\ "textOpacity" \notin DOMAIN a
    OBVIOUS
  <1>3. "textOpacity" \in DOMAIN q /\ q["textOpacity"] = 255
    BY DEF TikzDefaults
  <1>4. Get(b, "textOpacity", 255) = y
    <2>1. CASE Opaque(col)
      <3> DEFINE e == <<>>
      <3>1. "textOpacity" \notin DOMAIN e
        OBVIOUS
      <3>2. b = e
        BY <2>1
      <3> HIDE DEF b, e
      <3> QED
        BY <2>1, <3>1, <3>2 DEF Get, Opaque
    <2>2. CASE ~Opaque(col)
      <3>1. b = [textOpacity |-> y]
        BY <2>2
      <3> HIDE DEF b
      <3> QED
        BY <3>1 DEF Get
    <2> QED
      BY <2>1, <2>2
  <1> HIDE DEF a, b, q, x, y
  <1>5. "text" \in DOMAIN p /\ p["text"] = x
    BY <1>2 DEF ++
  <1>6. o["text"] = x
    <2> HIDE DEF p
    <2> QED
      BY <1>5 DEF ++
  <1>7. o["textOpacity"] = y
    <2>1. Get(p, "textOpacity", 255) = y
      <3>1. Get(p, "textOpacity", 255) = Get(a, "textOpacity", Get(b, "textOpacity", 255))
        BY GetOver
      <3> HIDE DEF p
      <3> QED
        BY <1>2, <1>4, <3>1 DEF Get
    <2> HIDE DEF p
    <2> QED
      BY <1>3, <2>1, GetOver
  <1> HIDE DEF o
  <1>8. ColorOf(o.text, o.textOpacity) = col
    BY <1>1, <1>6, <1>7 DEF ColorOf
  <1> QED
    BY <1>8 DEF o, p, a, b, q, x

LEMMA LimitedText ==
    ASSUME NEW t, NEW col, NEW clips
    PROVE  Limited(TextMark(t, col, clips))
               = TextMark([t EXCEPT !.rot = IF @ > 0 THEN @ ELSE 0],
                          [col EXCEPT !.alpha = 255], clips)
  <1> DEFINE x == [col EXCEPT !.alpha = 255]
             y == [t EXCEPT !.rot = IF @ > 0 THEN @ ELSE 0]
             h == "nonzero"
             e == <<>>
             d == "text"
  <1>1. Limited(MarkOf(d, e, col, h, e, t, NoImage, clips))
          = MarkOf(d, e, x, "nonzero", e, y, NoImage, clips)
    <2> HIDE DEF h, e, d
    <2> QED
      BY LimitedMark
  <1> HIDE DEF x, y
  <1>2. /\ TextMark(t, col, clips) = MarkOf(d, e, col, h, e, t, NoImage, clips)
        /\ TextMark(y, x, clips) = MarkOf(d, e, x, h, e, y, NoImage, clips)
    BY MarksOf
  <1> QED
    BY <1>1, <1>2 DEF x, y

(* A text is set as R asked for it, as far as TikZ shows it.               *)
LEMMA TexTextCall ==
    ASSUME NEW call \in RCall, call.kind = "text", WordEnds(call.str), NEW clip
    PROVE  LET tok == TikzVisit(DrawCall(call)) IN
           /\ tok.t = "node"
           /\ Sketch(TokenMarks(tok, {clip})) = Sketch(AskedMarks(call, clip))
  <1> DEFINE tok == TikzVisit(DrawCall(call))
             col == call.col
             p == [text |-> col.rgb]
                  ++ (IF Opaque(col) THEN <<>> ELSE [textOpacity |-> col.alpha])
             r == IF call.rot > 0 THEN call.rot ELSE 0
             x == [str |-> TexEscaped(call.str), at |-> call.at, hadj |-> call.hadj, rot |-> r]
             t1 == [str |-> call.str, at |-> call.at, hadj |-> call.hadj, rot |-> r]
             t2 == TextRecord(call)
             ink == ColorOf((p ++ TikzDefaults).text, (p ++ TikzDefaults).textOpacity)
  <1>1. call.col \in Color /\ call.str \in Text /\ call.rot \in Int
    BY CallKinds
  <1>2. DrawCall(call) = call
    BY SameDrawCall
  <1>3. tok = [Token("node") EXCEPT !.options = p, !.text = x]
    <2> HIDE DEF p
    <2> QED
      BY <1>2 DEF TikzVisit, p
  <1>4. ink = col
    BY <1>1, TexTextInk
  <1>5. TexText(TexEscaped(call.str)) = call.str
    BY <1>1, TexTextSame DEF Text
  <1> HIDE DEF p, tok
  <1>6. tok.t = "node" /\ tok.options = p /\ tok.text = x
    <2> HIDE DEF x
    <2> QED
      BY <1>3 DEF Token
  <1>7. [x EXCEPT !.str = TexText(@)] = t1
    <2> DEFINE s == TexEscaped(call.str)
    <2>1. TexText(s) = call.str
      BY <1>5
    <2> HIDE DEF s, r
    <2> QED
      BY <2>1 DEF s
  <1>8. [t1 EXCEPT !.rot = IF @ > 0 THEN @ ELSE 0] = [t2 EXCEPT !.rot = IF @ > 0 THEN @ ELSE 0]
    <2>1. t1.rot = r /\ t2.rot = call.rot
      BY DEF TextRecord
    <2>2. (IF r > 0 THEN r ELSE 0) = r
      BY <1>1
    <2> HIDE DEF r
    <2>3. [t1 EXCEPT !.rot = r] = t1
      OBVIOUS
    <2>4. [t2 EXCEPT !.rot = r] = t1
      BY DEF TextRecord
    <2> HIDE DEF t1, t2
    <2> QED
      BY <2>1, <2>2, <2>3, <2>4 DEF r
  <1> HIDE DEF x, t1, t2
  <1> DEFINE m1 == TextMark(t1, col, {clip})
             m2 == TextMark(t2, col, {clip})
  <1>9. TokenMarks(tok, {clip}) = <<m1>>
    <2>1. TokenMarks(tok, {clip}) = <<TextMark([tok.text EXCEPT !.str = TexText(@)], ink, {clip})>>
      BY <1>6 DEF TokenMarks
    <2> HIDE DEF ink
    <2> QED
      BY <1>4, <1>6, <1>7, <2>1
  <1>10. AskedMarks(call, clip) = <<m2>>
    BY TextAskedMarks DEF t2
  <1>11. m1.do = "text" /\ m1.col = col /\ m2.do = "text" /\ m2.col = col
    BY MarkFields
  <1>12. Limited(m1) = Limited(m2)
    <2> DEFINE y == [col EXCEPT !.alpha = 255]
               u1 == [t1 EXCEPT !.rot = IF @ > 0 THEN @ ELSE 0]
               u2 == [t2 EXCEPT !.rot = IF @ > 0 THEN @ ELSE 0]
               k == {clip}
    <2>1. Limited(m1) = TextMark(u1, y, k) /\ Limited(m2) = TextMark(u2, y, k)
      BY LimitedText
    <2> HIDE DEF u1, u2, y, m1, m2
    <2> QED
      BY <1>8, <2>1 DEF u1, u2
  <1> HIDE DEF m1, m2
  <1>13. Told(m1) = Told(m2)
    BY <1>11, <1>12 DEF Told
  <1> QED
    BY <1>6, <1>9, <1>10, <1>13, SketchOne DEF tok

(* An image leaves a comment, and TikZ shows nothing of it.                *)
LEMMA TexRaster ==
    ASSUME NEW call \in RCall, call.kind = "raster", NEW clip
    PROVE  TikzVisit(DrawCall(call)).t = "comment" /\ Sketch(AskedMarks(call, clip)) = <<>>
  <1> DEFINE m == AskedMarks(call, clip)[1]
             dc == DrawCall(call)
             none == <<>>
  <1>1. dc.kind = "raster"
    BY DrawCallKind
  <1> HIDE DEF dc
  <1>2. TikzVisit(dc).t = "comment"
    BY <1>1 DEF TikzVisit, Token
  <1>3. PICK x : AskedMarks(call, clip) = <<x>> /\ x.do = "image"
    <2> DEFINE area == AskedArea(call)
               look == Look(call.w, call.h, call.pixels)
               y == ImageMark(area, look, call.interpolate, {clip, area[1]})
    <2>1. AskedMarks(call, clip) = <<y>>
      BY DEF AskedMarks
    <2>2. y.do = "image"
      BY MarkFields
    <2> HIDE DEF y
    <2> QED
      BY <2>1, <2>2
  <1>4. Told(x) = none
    BY <1>3 DEF Told
  <1> HIDE DEF none
  <1>5. Sketch(AskedMarks(call, clip)) = none
    BY <1>3, <1>4, SketchOne
  <1> QED
    BY <1>2, <1>5 DEF dc, none

----------------------------------------------------------------------------
(* What TeX reads, token by token.                                         *)

On == TRUE
Off == FALSE

Tx(c, scopes, clips, m) == [comment |-> c, scopes |-> scopes, clips |-> clips, marks |-> m]

ClipToken(o) == [Token("clip") EXCEPT !.area = <<o>>]

LEMMA TxComment ==
    ASSUME NEW c, NEW r, NEW k, NEW m, NEW x
    PROVE  [Tx(c, r, k, m) EXCEPT !.comment = x] = Tx(x, r, k, m)
  BY DEF Tx

LEMMA TxScopes ==
    ASSUME NEW c, NEW r, NEW k, NEW m, NEW x
    PROVE  [Tx(c, r, k, m) EXCEPT !.scopes = x] = Tx(c, x, k, m)
  BY DEF Tx

LEMMA TxClips ==
    ASSUME NEW c, NEW r, NEW k, NEW m, NEW x
    PROVE  [Tx(c, r, k, m) EXCEPT !.clips = x] = Tx(c, r, x, m)
  BY DEF Tx

LEMMA TxMarks ==
    ASSUME NEW c, NEW r, NEW k, NEW m, NEW x
    PROVE  [Tx(c, r, k, m) EXCEPT !.marks = x] = Tx(c, r, k, x)
  BY DEF Tx

LEMMA TxParts ==
    ASSUME NEW c, NEW r, NEW k, NEW m
    PROVE  /\ Tx(c, r, k, m).comment = c /\ Tx(c, r, k, m).scopes = r
           /\ Tx(c, r, k, m).clips = k /\ Tx(c, r, k, m).marks = m
  BY DEF Tx

LEMMA TexNewline ==
    ASSUME NEW c, NEW r, NEW k, NEW m
    PROVE  TokenStep(Tx(c, r, k, m), Token("newline")) = Tx(Off, r, k, m)
  <1> DEFINE s == Tx(c, r, k, m)
             tok == Token("newline")
  <1>1. tok.t = "newline"
    BY DEF Token
  <1>2. [s EXCEPT !.comment = Off] = Tx(Off, r, k, m)
    BY TxComment
  <1> HIDE DEF s, tok
  <1>3. TokenStep(s, tok) = [s EXCEPT !.comment = Off]
    BY <1>1 DEF TokenStep, On, Off
  <1> QED
    BY <1>2, <1>3 DEF s, tok

LEMMA TexBegin ==
    ASSUME NEW r, NEW k, NEW m
    PROVE  TokenStep(Tx(Off, r, k, m), Token("begin")) = Tx(Off, Append(r, k), k, m)
  <1> DEFINE s == Tx(Off, r, k, m)
             tok == Token("begin")
             x == Append(r, k)
  <1>1. tok.t = "begin"
    BY DEF Token
  <1>2. s.comment = Off /\ s.scopes = r /\ s.clips = k
    BY TxParts
  <1>3. [s EXCEPT !.scopes = x] = Tx(Off, x, k, m)
    <2> HIDE DEF x
    <2> QED
      BY TxScopes
  <1> HIDE DEF s, tok
  <1>4. TokenStep(s, tok) = [s EXCEPT !.scopes = x]
    BY <1>1, <1>2 DEF TokenStep, On, Off
  <1> QED
    BY <1>3, <1>4 DEF s, tok

LEMMA TexEnd ==
    ASSUME NEW r, NEW k, NEW m
    PROVE  TokenStep(Tx(Off, r, k, m), Token("end")) = Tx(Off, Front(r), Last(r), m)
  <1> DEFINE s == Tx(Off, r, k, m)
             tok == Token("end")
             x == Last(r)
             y == Front(r)
             v == Tx(Off, r, x, m)
  <1>1. tok.t = "end"
    BY DEF Token
  <1>2. s.comment = Off /\ s.scopes = r
    BY TxParts
  <1>3. [s EXCEPT !.clips = x] = v /\ v.scopes = r
    BY TxClips, TxParts
  <1>4. [v EXCEPT !.scopes = y] = Tx(Off, y, x, m)
    <2> HIDE DEF x, y
    <2> QED
      BY TxScopes
  <1> HIDE DEF s, tok, v
  <1>5. TokenStep(s, tok) = [s EXCEPT !.clips = Last(s.scopes), !.scopes = Front(@)]
    BY <1>1, <1>2 DEF TokenStep, On, Off
  <1> HIDE DEF x, y
  <1>6. TokenStep(s, tok) = [v EXCEPT !.scopes = y]
    BY <1>2, <1>3, <1>5 DEF x, y
  <1> QED
    BY <1>4, <1>6 DEF s, tok, x, y

LEMMA TexClip ==
    ASSUME NEW r, NEW k, NEW m, NEW o
    PROVE  TokenStep(Tx(Off, r, k, m), ClipToken(o)) = Tx(Off, r, k \cup {o}, m)
  <1> DEFINE s == Tx(Off, r, k, m)
             tok == ClipToken(o)
             x == k \cup {o}
             q == <<o>>
  <1>1. q[1] = o
    OBVIOUS
  <1> HIDE DEF q
  <1>2. tok = [Token("clip") EXCEPT !.area = q]
    BY DEF q, ClipToken
  <1> HIDE DEF tok
  <1>3. tok.t = "clip" /\ tok.area[1] = o
    BY <1>1, <1>2 DEF Token
  <1>4. s.comment = Off /\ s.clips = k
    BY TxParts
  <1>5. [s EXCEPT !.clips = x] = Tx(Off, r, x, m)
    <2> HIDE DEF x
    <2> QED
      BY TxClips
  <1> HIDE DEF s
  <1>6. TokenStep(s, tok) = [s EXCEPT !.clips = x]
    BY <1>3, <1>4 DEF TokenStep, On, Off
  <1> QED
    BY <1>5, <1>6 DEF s, tok

LEMMA TexComment ==
    ASSUME NEW r, NEW k, NEW m, NEW tok, tok.t = "comment"
    PROVE  TokenStep(Tx(Off, r, k, m), tok) = Tx(On, r, k, m)
  <1> DEFINE s == Tx(Off, r, k, m)
  <1>1. s.comment = Off
    BY TxParts
  <1>2. [s EXCEPT !.comment = On] = Tx(On, r, k, m)
    BY TxComment
  <1> HIDE DEF s
  <1>3. TokenStep(s, tok) = [s EXCEPT !.comment = On]
    BY <1>1 DEF TokenStep, On, Off
  <1> QED
    BY <1>2, <1>3 DEF s

LEMMA TexDrawn ==
    ASSUME NEW r, NEW k, NEW m, NEW tok, tok.t \in {"draw", "node"}
    PROVE  TokenStep(Tx(Off, r, k, m), tok) = Tx(Off, r, k, m \o TokenMarks(tok, k))
  <1> DEFINE s == Tx(Off, r, k, m)
             x == m \o TokenMarks(tok, k)
  <1>1. s.comment = Off /\ s.clips = k /\ s.marks = m
    BY TxParts
  <1>2. [s EXCEPT !.marks = x] = Tx(Off, r, k, x)
    <2> HIDE DEF x
    <2> QED
      BY TxMarks
  <1> HIDE DEF s
  <1>3. TokenStep(s, tok) = [s EXCEPT !.marks = x]
    BY <1>1 DEF TokenStep, On, Off
  <1> QED
    BY <1>2, <1>3 DEF s

(* Tokens in a row.                                                        *)
Reads(s, q) == Sketching!Fold(s, q)

LEMMA ReadsConcat ==
    ASSUME NEW s, NEW p, IsSeq(p), NEW q, IsSeq(q)
    PROVE  IsSeq(p \o q) /\ Reads(s, p \o q) = Reads(Reads(s, p), q)
  <1>1. PICK S : p \in Seq(S) /\ q \in Seq(S)
    BY TwoSequences
  <1>2. p \o q \in Seq(S)
    BY <1>1
  <1> QED
    BY <1>1, <1>2, Sketching!FoldConcat DEF Reads, IsSeq

LEMMA ReadsNone == ASSUME NEW s PROVE Reads(s, <<>>) = s
  BY Sketching!FoldEmpty DEF Reads

LEMMA ReadsOne == ASSUME NEW s, NEW c PROVE Reads(s, <<c>>) = TokenStep(s, c)
  BY Sketching!FoldOne DEF Reads

LEMMA ReadsTwo ==
    ASSUME NEW s, NEW a, NEW b
    PROVE  IsSeq(<<a, b>>) /\ Reads(s, <<a, b>>) = TokenStep(TokenStep(s, a), b)
  <1> DEFINE p == <<a>>
             q == <<b>>
  <1>1. IsSeq(p) /\ IsSeq(q)
    BY RunsOne
  <1>2. p \o q = <<a, b>>
    <2>1. p \o q = Append(p, b)
      <3> HIDE DEF p
      <3> QED
        BY <1>1, AppendJoins
    <2> QED
      BY <2>1, JoinOne
  <1>3. Reads(s, p) = TokenStep(s, a) /\ Reads(TokenStep(s, a), q) = TokenStep(TokenStep(s, a), b)
    BY ReadsOne
  <1> HIDE DEF p, q
  <1>4. IsSeq(p \o q) /\ Reads(s, p \o q) = Reads(Reads(s, p), q)
    BY <1>1, ReadsConcat
  <1> QED
    BY <1>2, <1>3, <1>4

(* Between draw calls one scope is open, clipped to a box; nothing else is *)
(* left of what was drawn, but for a comment.                              *)
Outside(s, m) == \E k : IsSeq(k) /\ s = Tx(Off, <<>>, {}, k) /\ Sketch(k) = m
InScope(s, c, m, b) == \E k : IsSeq(k) /\ s = Tx(c, <<{}>>, {b}, k) /\ Sketch(k) = m

TexScope(o) == <<Token("begin"), ClipToken(o), Token("newline")>>

LEMMA TexScopeJoins ==
    ASSUME NEW o
    PROVE  /\ TexScope(o) = <<Token("begin")>> \o <<ClipToken(o), Token("newline")>>
           /\ IsSeq(TexScope(o))
  <1> DEFINE a == Token("begin")
             b == ClipToken(o)
             c == Token("newline")
             p == <<a>>
             q == <<b, c>>
             r == <<a, b, c>>
             S == {a, b, c}
  <1> HIDE DEF a, b, c
  <1>1. p \o q = r
    <2>1. /\ p \in Seq(S) /\ Len(p) = 1 /\ p[1] = a
          /\ q \in Seq(S) /\ Len(q) = 2 /\ q[1] = b /\ q[2] = c
          /\ r \in Seq(S) /\ Len(r) = 3 /\ r[1] = a /\ r[2] = b /\ r[3] = c
      OBVIOUS
    <2> HIDE DEF p, q, r, S
    <2>2. /\ p \o q \in Seq(S) /\ Len(p \o q) = Len(p) + Len(q)
          /\ \A n \in 1..(Len(p) + Len(q)) :
                (p \o q)[n] = IF n <= Len(p) THEN p[n] ELSE q[n - Len(p)]
      BY <2>1, ConcatProperties
    <2>3. \A n \in 1..3 : (p \o q)[n] = r[n]
      <3> TAKE n \in 1..3
      <3>1. n = 1 \/ n = 2 \/ n = 3
        OBVIOUS
      <3> QED
        BY <2>1, <2>2, <3>1
    <2> QED
      BY <2>1, <2>2, <2>3, SameSequence
  <1>2. IsSeq(p) /\ IsSeq(q)
    BY RunsOne, ReadsTwo
  <1> HIDE DEF p, q
  <1>3. IsSeq(p \o q)
    BY <1>2, ReadsConcat
  <1> QED
    BY <1>1, <1>3 DEF TexScope, p, q, r, a, b, c

LEMMA ScopeOpens ==
    ASSUME NEW s, NEW m, Outside(s, m), NEW o
    PROVE  InScope(Reads(s, TexScope(o)), Off, m, o)
  <1>1. PICK k : IsSeq(k) /\ s = Tx(Off, <<>>, {}, k) /\ Sketch(k) = m
    BY DEF Outside
  <1> DEFINE e == <<>>
             z == {}
             r == <<z>>
             s1 == Tx(Off, r, z, k)
             s2 == Tx(Off, r, {o}, k)
             p == <<Token("begin")>>
             q == <<ClipToken(o), Token("newline")>>
  <1>2. Append(e, z) = r
    OBVIOUS
  <1>3. z \cup {o} = {o}
    OBVIOUS
  <1>4. s = Tx(Off, e, z, k)
    BY <1>1
  <1> HIDE DEF e, r, z
  <1>5. TokenStep(s, Token("begin")) = s1
    BY <1>2, <1>4, TexBegin
  <1>6. TokenStep(s1, ClipToken(o)) = s2
    <2>1. TokenStep(s1, ClipToken(o)) = Tx(Off, r, z \cup {o}, k)
      BY TexClip
    <2> QED
      BY <1>3, <2>1
  <1>7. TokenStep(s2, Token("newline")) = s2
    BY TexNewline
  <1>8. Reads(s, p) = s1
    BY <1>5, ReadsOne
  <1>9. Reads(s1, q) = s2 /\ IsSeq(q)
    <2> DEFINE a == ClipToken(o)
               b == Token("newline")
    <2>1. TokenStep(TokenStep(s1, a), b) = s2
      BY <1>6, <1>7
    <2>2. q = <<a, b>>
      OBVIOUS
    <2> HIDE DEF a, b, s1, s2, q
    <2>3. IsSeq(<<a, b>>) /\ Reads(s1, <<a, b>>) = TokenStep(TokenStep(s1, a), b)
      BY ReadsTwo
    <2> QED
      BY <2>1, <2>2, <2>3
  <1>10. IsSeq(p)
    BY RunsOne
  <1>11. TexScope(o) = p \o q
    BY TexScopeJoins
  <1> HIDE DEF s1, s2, p, q
  <1>12. Reads(s, p \o q) = s2
    BY <1>8, <1>9, <1>10, ReadsConcat
  <1>13. InScope(s2, Off, m, o)
    BY <1>1 DEF InScope, s2, r, z
  <1> QED
    BY <1>11, <1>12, <1>13

LEMMA LineEnds ==
    ASSUME NEW s, NEW c, NEW m, NEW b, InScope(s, c, m, b)
    PROVE  InScope(TokenStep(s, Token("newline")), Off, m, b)
  <1>1. PICK k : IsSeq(k) /\ s = Tx(c, <<{}>>, {b}, k) /\ Sketch(k) = m
    BY DEF InScope
  <1> DEFINE r == <<{}>>
             z == {b}
  <1>2. s = Tx(c, r, z, k)
    BY <1>1
  <1> HIDE DEF r, z
  <1>3. TokenStep(s, Token("newline")) = Tx(Off, r, z, k)
    BY <1>2, TexNewline
  <1> QED
    BY <1>1, <1>3 DEF InScope, r, z

LEMMA ScopeCloses ==
    ASSUME NEW s, NEW m, NEW b, InScope(s, Off, m, b)
    PROVE  Outside(TokenStep(s, Token("end")), m)
  <1>1. PICK k : IsSeq(k) /\ s = Tx(Off, <<{}>>, {b}, k) /\ Sketch(k) = m
    BY DEF InScope
  <1> DEFINE r == <<{}>>
             z == {b}
             x == {}
             e == <<>>
  <1>2. s = Tx(Off, r, z, k)
    BY <1>1
  <1>3. Front(r) = e /\ Last(r) = x
    <2>1. Len(r) = 1 /\ r[1] = x /\ r \in Seq({x})
      OBVIOUS
    <2> HIDE DEF r, x
    <2>2. Last(r) = x
      BY <2>1 DEF Last
    <2>3. Front(r) = SubSeq(r, 1, 0)
      BY <2>1 DEF Front
    <2>4. SubSeq(r, 1, 0) = <<>>
      BY <2>1
    <2> QED
      BY <2>2, <2>3, <2>4
  <1> HIDE DEF r, z, e, x
  <1>4. TokenStep(s, Token("end")) = Tx(Off, e, x, k)
    <2>1. TokenStep(s, Token("end")) = Tx(Off, Front(r), Last(r), k)
      BY <1>2, TexEnd
    <2> QED
      BY <1>3, <2>1
  <1> QED
    BY <1>1, <1>4 DEF Outside, e, x

(* The clip changes between two draw calls.                                *)
LEMMA ScopeChanges ==
    ASSUME NEW s, NEW m, NEW b, InScope(s, Off, m, b), NEW o
    PROVE  /\ IsSeq(<<Token("end")>> \o TexScope(o))
           /\ InScope(Reads(s, <<Token("end")>> \o TexScope(o)), Off, m, o)
  <1> DEFINE p == <<Token("end")>>
             q == TexScope(o)
             s1 == TokenStep(s, Token("end"))
  <1>1. IsSeq(p) /\ IsSeq(q)
    BY RunsOne, TexScopeJoins
  <1>2. Reads(s, p) = s1
    BY ReadsOne
  <1>3. Outside(s1, m)
    BY ScopeCloses
  <1> HIDE DEF p, s1
  <1>4. InScope(Reads(s1, q), Off, m, o)
    BY <1>3, ScopeOpens
  <1> HIDE DEF q
  <1>5. IsSeq(p \o q) /\ Reads(s, p \o q) = Reads(s1, q)
    BY <1>1, <1>2, ReadsConcat
  <1> QED
    BY <1>4, <1>5 DEF p, q

----------------------------------------------------------------------------
(* A page in TikZ.                                                         *)

LEMMA TokenMarksSeq == ASSUME NEW tok, NEW clips PROVE IsSeq(TokenMarks(tok, clips))
  <1>1. (\E a : TokenMarks(tok, clips) = <<a>>) \/ (\E a, b : TokenMarks(tok, clips) = <<a, b>>)
    BY DEF TokenMarks, Paint
  <1> DEFINE q == TokenMarks(tok, clips)
  <1>2. ASSUME NEW a, q = <<a>> PROVE IsSeq(q)
    <2> HIDE DEF q
    <2> QED
      BY <1>2, RunsOne
  <1>3. ASSUME NEW a, NEW b, q = <<a, b>> PROVE IsSeq(q)
    <2> HIDE DEF q
    <2> QED
      BY <1>3, ReadsTwo
  <1> HIDE DEF q
  <1>4. (\E a : q = <<a>>) \/ (\E a, b : q = <<a, b>>)
    BY <1>1 DEF q
  <1>5. IsSeq(q)
    BY <1>2, <1>3, <1>4
  <1> QED
    BY <1>5 DEF q

LEMMA SketchAsked ==
    ASSUME NEW call, NEW o
    PROVE  IsSeq(Sketch(AskedMarks(call, o)))
  <1> DEFINE q == AskedMarks(call, o)
  <1>1. Few(q)
    BY AskedMarksFew
  <1> HIDE DEF q
  <1>2. IsSeq(q)
    BY <1>1 DEF Few, IsSeq
  <1>3. IsSeq(Sketch(q))
    BY <1>2, SketchConcat
  <1> QED
    BY <1>3 DEF q

(* A visit tells what R asked for.                                         *)
VisitTells(call, s, m, o) ==
    LET u == Sketch(AskedMarks(call, o))
    IN  /\ IsSeq(u) /\ IsSeq(m \o u)
        /\ \E c : InScope(TokenStep(s, TikzVisit(DrawCall(call))), c, m \o u, o)

LEMMA TexVisit ==
    ASSUME WordsEnd, NEW call \in Calls, NEW s, NEW m, NEW o, IsSeq(m), InScope(s, Off, m, o)
    PROVE  VisitTells(call, s, m, o)
  <1> DEFINE u == Sketch(AskedMarks(call, o))
             tok == TikzVisit(DrawCall(call))
             r == <<{}>>
             z == {o}
  <1>1. PICK k : IsSeq(k) /\ s = Tx(Off, r, z, k) /\ Sketch(k) = m
    BY DEF InScope
  <1>2. IsSeq(u)
    BY SketchAsked
  <1>3. call \in RCall /\ (call.kind \in Shapes \/ call.kind = "text" \/ call.kind = "raster")
    BY CallsOfR
  <1>4. CASE call.kind = "raster"
    <2> DEFINE none == <<>>
    <2>1. tok.t = "comment" /\ u = none
      BY <1>3, <1>4, TexRaster
    <2> HIDE DEF tok, r, z, none
    <2>2. TokenStep(s, tok) = Tx(On, r, z, k)
      BY <1>1, <2>1, TexComment
    <2>3. m \o none = m
      BY AppendJoins DEF none
    <2>4. InScope(TokenStep(s, tok), On, m, o)
      BY <1>1, <2>2 DEF InScope, r, z
    <2> HIDE DEF u
    <2>5. IsSeq(u) /\ IsSeq(m \o u) /\ \E c : InScope(TokenStep(s, tok), c, m \o u, o)
      BY <1>2, <2>1, <2>3, <2>4
    <2> QED
      BY <2>5 DEF VisitTells, u, tok
  <1>5. CASE call.kind \in Shapes \/ call.kind = "text"
    <2> DEFINE x == TokenMarks(tok, z)
    <2>1. tok.t \in {"draw", "node"} /\ Sketch(x) = u
      <3>1. CASE call.kind \in Shapes
        BY <1>3, <3>1, TexShape
      <3>2. CASE call.kind = "text"
        <4>1. WordEnds(call.str)
          BY <3>2 DEF WordsEnd
        <4> QED
          BY <1>3, <3>2, <4>1, TexTextCall
      <3> QED
        BY <1>5, <3>1, <3>2
    <2>2. IsSeq(x)
      BY TokenMarksSeq
    <2> HIDE DEF tok, r, z, u
    <2>3. TokenStep(s, tok) = Tx(Off, r, z, k \o x)
      BY <1>1, <2>1, TexDrawn
    <2> HIDE DEF x
    <2>4. Sketch(k \o x) = m \o u /\ IsSeq(k \o x)
      BY <1>1, <2>1, <2>2, SketchConcat, ReadsConcat
    <2>5. InScope(TokenStep(s, tok), Off, m \o u, o)
      BY <2>3, <2>4 DEF InScope, r, z
    <2>6. IsSeq(m \o u)
      BY <1>2, ReadsConcat
    <2>7. IsSeq(u) /\ IsSeq(m \o u) /\ \E c : InScope(TokenStep(s, tok), c, m \o u, o)
      BY <1>2, <2>5, <2>6
    <2> QED
      BY <2>7 DEF VisitTells, u, tok
  <1> QED
    BY <1>3, <1>4, <1>5

(* A turn of the loop.                                                     *)
TurnMeets(s, acc, m, b, call, e, o) ==
    /\ IsSeq(acc.tokens) /\ IsSeq(m)
    /\ \E c : InScope(Reads(s, acc.tokens), c, m, b) /\ (acc.first => c = Off)
    /\ call \in Calls /\ e.visit = TikzVisit(DrawCall(call))
    /\ e.clipTo = TexScope(o) /\ (e.clip = acc.last => o = b)

TurnTells(s, acc, m, call, e, o) ==
    LET a == CommandsStep(acc, e)
        u == Sketch(AskedMarks(call, o))
    IN  /\ a.last = e.clip /\ ~a.first /\ IsSeq(a.tokens) /\ IsSeq(u) /\ IsSeq(m \o u)
        /\ \E c : InScope(Reads(s, a.tokens), c, m \o u, o)

LEMMA CommandsStepTells ==
    ASSUME WordsEnd, NEW s, NEW acc, NEW m, NEW b, NEW call, NEW e, NEW o,
           TurnMeets(s, acc, m, b, call, e, o)
    PROVE  TurnTells(s, acc, m, call, e, o)
  <1> USE DEF TurnMeets
  <1> DEFINE a == CommandsStep(acc, e)
             u == Sketch(AskedMarks(call, o))
             p == acc.tokens
             nl == IF acc.first THEN <<>> ELSE <<Token("newline")>>
             re == IF e.clip = acc.last THEN <<>> ELSE <<Token("end")>> \o e.clipTo
             v == <<e.visit>>
             s1 == Reads(s, p)
             s2 == Reads(s1, nl)
             s3 == Reads(s2, re)
             s4 == Reads(s3, v)
  <1>1. a.last = e.clip /\ ~a.first /\ a.tokens = ((p \o nl) \o re) \o v
    BY DEF CommandsStep
  <1>2. PICK c : InScope(s1, c, m, b) /\ (acc.first => c = Off)
    OBVIOUS
  <1>3. IsSeq(nl) /\ InScope(s2, Off, m, b)
    <2>1. CASE acc.first
      <3> DEFINE none == <<>>
      <3>1. nl = none
        BY <2>1
      <3>2. IsSeq(none) /\ Reads(s1, none) = s1
        BY RunsNone, ReadsNone
      <3> HIDE DEF nl, none, s1
      <3> QED
        BY <1>2, <2>1, <3>1, <3>2
    <2>2. CASE ~acc.first
      <3> DEFINE t == Token("newline")
                 q == <<t>>
      <3>1. nl = q
        BY <2>2
      <3> HIDE DEF t
      <3>2. IsSeq(q) /\ Reads(s1, q) = TokenStep(s1, t)
        BY RunsOne, ReadsOne
      <3> HIDE DEF nl, q, s1
      <3>3. InScope(TokenStep(s1, t), Off, m, b)
        BY <1>2, LineEnds DEF t
      <3> QED
        BY <3>1, <3>2, <3>3
    <2> QED
      BY <2>1, <2>2
  <1> HIDE DEF nl, s2
  <1>4. IsSeq(re) /\ InScope(s3, Off, m, o)
    <2>1. CASE e.clip = acc.last
      <3> DEFINE none == <<>>
      <3>1. re = none /\ o = b
        BY <2>1
      <3>2. IsSeq(none) /\ Reads(s2, none) = s2
        BY RunsNone, ReadsNone
      <3> HIDE DEF re, none
      <3> QED
        BY <1>3, <3>1, <3>2
    <2>2. CASE e.clip # acc.last
      <3> DEFINE q == <<Token("end")>> \o TexScope(o)
      <3>1. re = q
        BY <2>2
      <3>2. IsSeq(q) /\ InScope(Reads(s2, q), Off, m, o)
        BY <1>3, ScopeChanges
      <3> HIDE DEF re, q
      <3> QED
        BY <3>1, <3>2
    <2> QED
      BY <2>1, <2>2
  <1> HIDE DEF re, s3
  <1>5. /\ IsSeq(u) /\ IsSeq(m \o u) /\ IsSeq(v)
        /\ \E d : InScope(s4, d, m \o u, o)
    <2>1. VisitTells(call, s3, m, o)
      BY <1>4, TexVisit
    <2> DEFINE t == e.visit
    <2>2. s4 = TokenStep(s3, t) /\ IsSeq(v)
      BY ReadsOne, RunsOne
    <2>3. t = TikzVisit(DrawCall(call))
      OBVIOUS
    <2> HIDE DEF t, s4, v
    <2> QED
      BY <2>1, <2>2, <2>3 DEF VisitTells
  <1>6. s4 = Reads(s, ((p \o nl) \o re) \o v) /\ IsSeq(((p \o nl) \o re) \o v)
    <2> DEFINE pn == p \o nl
               pr == pn \o re
    <2>1. IsSeq(p)
      OBVIOUS
    <2> HIDE DEF p, v
    <2>2. IsSeq(pn) /\ Reads(s, pn) = s2
      BY <1>3, <2>1, ReadsConcat DEF s1, s2
    <2> HIDE DEF pn
    <2>3. IsSeq(pr) /\ Reads(s, pr) = s3
      BY <1>4, <2>2, ReadsConcat DEF s3
    <2> HIDE DEF pr
    <2>4. IsSeq(pr \o v) /\ Reads(s, pr \o v) = s4
      BY <1>5, <2>3, ReadsConcat
    <2> QED
      BY <2>4 DEF pr, pn
  <1> HIDE DEF u, s4, v, p, a
  <1>7. /\ a.last = e.clip /\ ~a.first /\ IsSeq(a.tokens) /\ IsSeq(u) /\ IsSeq(m \o u)
        /\ \E d : InScope(Reads(s, a.tokens), d, m \o u, o)
    BY <1>1, <1>5, <1>6
  <1> QED
    BY <1>7 DEF a, u, TurnTells

(* The state the loop of page is in, between two draw calls.               *)
CornersOfId(id) == Corners(RectOfClip(page.cps[id + 1].rect))

Sketched(s, acc, m) ==
    /\ IsSeq(acc.tokens) /\ acc.last \in 0..(Len(page.cps) - 1) /\ IsSeq(m)
    /\ \E c : InScope(Reads(s, acc.tokens), c, m, CornersOfId(acc.last)) /\ (acc.first => c = Off)

LEMMA TexClipTo ==
    ASSUME IInv, NEW id \in 0..(Len(page.cps) - 1)
    PROVE  ClipTo(page, id) = TexScope(CornersOfId(id))
  <1> DEFINE m == Len(page.cps)
             cps == page.cps
  <1>1. Numbered(page) /\ cps \in Seq(CpSet) /\ m \in Nat
    BY ClipBoxes DEF PageSet
  <1>2. \A k \in 1..m : cps[k].id = k - 1
    BY <1>1 DEF Numbered
  <1> HIDE DEF cps
  <1>3. SelectInSeq(cps, LAMBDA c : c.id = id) = id + 1
    <2>1. Len(cps) = m
      BY DEF cps
    <2> HIDE DEF m
    <2> QED
      BY <1>1, <1>2, <2>1, ClipWithId DEF m
  <1> QED
    BY <1>3 DEF ClipTo, TexScope, ClipToken, CornersOfId, cps

LEMMA TexClipAsked ==
    ASSUME IInv, NEW n \in 1..Len(asked)
    PROVE  CornersOfId(page.dcs[n].clip) = asked[n].clip
  <1> DEFINE r == RectOfClip(page.cps[page.dcs[n].clip + 1].rect)
  <1>1. r \in Corners4 /\ r[3] >= 0 /\ r[4] >= 0 /\ BoxOf(r) = asked[n].clip
    BY ClipRectAsked
  <1>2. CornersOfId(page.dcs[n].clip) = Corners(r)
    BY DEF CornersOfId
  <1> HIDE DEF r
  <1> QED
    BY <1>1, <1>2, CornersBox

TexEntry(n) == [clip |-> page.dcs[n].clip, clipTo |-> ClipTo(page, page.dcs[n].clip),
                visit |-> TikzVisit(page.dcs[n].op)]

TexShown(n) == Sketch(AskedMarks(asked[n].call, asked[n].clip))

LEMMA SketchedOn ==
    ASSUME WordsEnd, IInv, NEW s, NEW acc, NEW m, Sketched(s, acc, m), NEW n \in 1..Len(asked)
    PROVE  Sketched(s, CommandsStep(acc, TexEntry(n)), m \o TexShown(n)) /\ IsSeq(TexShown(n))
  <1> DEFINE e == TexEntry(n)
             id == page.dcs[n].clip
             o == asked[n].clip
             call == asked[n].call
             b == CornersOfId(acc.last)
             a == CommandsStep(acc, e)
             u == TexShown(n)
  <1>1. /\ id \in 0..(Len(page.cps) - 1) /\ page.dcs[n].op = DrawCall(call)
        /\ asked \in Seq(AskedSet)
    BY ClipBoxes
  <1>2. call \in Calls
    <2>1. asked[n] \in AskedSet
      BY <1>1, ElementOfSeq
    <2> QED
      BY <2>1 DEF AskedSet
  <1>3. e.clip = id /\ e.clipTo = ClipTo(page, id) /\ e.visit = TikzVisit(DrawCall(call))
    BY <1>1 DEF TexEntry
  <1>4. CornersOfId(id) = o
    BY TexClipAsked
  <1> HIDE DEF e, id
  <1>5. e.clipTo = TexScope(o)
    BY <1>1, <1>3, <1>4, TexClipTo
  <1>6. e.clip = acc.last => o = b
    BY <1>3, <1>4
  <1>7. /\ IsSeq(acc.tokens) /\ IsSeq(m)
        /\ \E c : InScope(Reads(s, acc.tokens), c, m, b) /\ (acc.first => c = Off)
    BY DEF Sketched
  <1>8. u = Sketch(AskedMarks(call, o))
    BY DEF TexShown
  <1> HIDE DEF b, o, call, u
  <1>9. TurnMeets(s, acc, m, b, call, e, o)
    BY <1>2, <1>3, <1>5, <1>6, <1>7 DEF TurnMeets
  <1>10. TurnTells(s, acc, m, call, e, o)
    BY <1>9, CommandsStepTells
  <1>11. /\ a.last = e.clip /\ ~a.first /\ IsSeq(a.tokens) /\ IsSeq(u) /\ IsSeq(m \o u)
         /\ \E c : InScope(Reads(s, a.tokens), c, m \o u, o)
    BY <1>8, <1>10 DEF TurnTells
  <1> HIDE DEF a
  <1>12. a.last = id /\ CornersOfId(a.last) = o
    BY <1>3, <1>4, <1>11
  <1>13. Sketched(s, a, m \o u)
    BY <1>1, <1>11, <1>12 DEF Sketched
  <1> QED
    BY <1>11, <1>13 DEF a, e, u

LEMMA SketchedThrough ==
    ASSUME WordsEnd, IInv, NEW s, NEW base, NEW m, Sketched(s, base, m)
    PROVE  LET N == Len(asked) IN
           Sketched(s, Limiting!Fold(base, [n \in 1..N |-> TexEntry(n)]),
                    m \o FlattenSeq([n \in 1..N |-> TexShown(n)]))
  <1> DEFINE N == Len(asked)
             es == [n \in 1..N |-> TexEntry(n)]
             u == [n \in 1..N |-> TexShown(n)]
             E == {TexEntry(n) : n \in 1..N}
             At(n) == Limiting!Fold(base, SubSeq(es, 1, n))
             F(n) == FlattenSeq([k \in 1..n |-> u[k]])
             P(n) == Sketched(s, At(n), m \o F(n))
             T == {n \in Nat : n <= N => P(n)}
  <1>1. N \in Nat
    BY ClipBoxes
  <1>2. es \in Seq(E) /\ Len(es) = N /\ \A n \in 1..N : es[n] = TexEntry(n)
    <2> HIDE DEF N
    <2> QED
      BY <1>1
  <1>3. IsSeq(m)
    BY DEF Sketched
  <1>4. \A n \in 1..N : u[n] = TexShown(n) /\ IsSeq(u[n])
    BY SketchedOn
  <1> HIDE DEF u, es, E
  <1>5. 0 \in T
    <2>1. SubSeq(es, 1, 0) = <<>>
      BY <1>2
    <2>2. At(0) = base
      BY <2>1, Limiting!FoldEmpty
    <2>3. F(0) = <<>>
      BY FlattenNone
    <2> HIDE DEF At, F
    <2>4. m \o F(0) = m
      BY <1>3, <2>3, AppendJoins
    <2> QED
      BY <2>2, <2>4
  <1>6. ASSUME NEW n \in Nat, n \in T PROVE n + 1 \in T
    <2> SUFFICES ASSUME n + 1 <= N PROVE P(n + 1)
      OBVIOUS
    <2>1. P(n) /\ n < Len(es) /\ n + 1 \in 1..N
      BY <1>1, <1>2, <1>6
    <2> DEFINE q == SubSeq(es, 1, n)
               e == es[n + 1]
    <2>2. q \in Seq(E) /\ e \in E /\ SubSeq(es, 1, n + 1) = Append(q, e)
      BY <1>2, <2>1, FirstAppend
    <2>3. At(n + 1) = CommandsStep(At(n), e)
      <3>1. At(n) = Limiting!Fold(base, q) /\ At(n + 1) = Limiting!Fold(base, Append(q, e))
        BY <2>2
      <3> HIDE DEF q, e, At
      <3>2. Limiting!Fold(base, Append(q, e)) = CommandsStep(Limiting!Fold(base, q), e)
        BY <2>2, Limiting!FoldAppend
      <3> QED
        BY <3>1, <3>2
    <2>4. e = TexEntry(n + 1) /\ u[n + 1] = TexShown(n + 1) /\ IsSeq(u[n + 1])
      BY <1>2, <1>4, <2>1
    <2> HIDE DEF e, q, At
    <2>5. F(n + 1) = F(n) \o u[n + 1] /\ IsSeq(F(n))
      BY <1>1, <1>4, FlattenNext
    <2> DEFINE f == F(n)
               x == u[n + 1]
    <2>6. (m \o f) \o x = m \o (f \o x)
      <3>1. IsSeq(f) /\ IsSeq(x)
        BY <2>4, <2>5
      <3> HIDE DEF f, x
      <3>2. Joins(m, f, x)
        BY <1>3, <3>1, SeqConcat
      <3> QED
        BY <3>2 DEF Joins
    <2> DEFINE acc == At(n)
               mf == m \o f
    <2>7. Sketched(s, acc, mf)
      BY <2>1
    <2> HIDE DEF acc, mf
    <2>8. Sketched(s, CommandsStep(acc, TexEntry(n + 1)), mf \o TexShown(n + 1))
      BY <2>1, <2>7, SketchedOn
    <2> HIDE DEF F
    <2> QED
      BY <2>3, <2>4, <2>5, <2>6, <2>8 DEF acc, mf, f, x
  <1> HIDE DEF T
  <1>7. Nat \subseteq T
    BY <1>5, <1>6, SetInduction
  <1>8. P(N)
    BY <1>1, <1>7 DEF T
  <1>9. SubSeq(es, 1, N) = es
    BY <1>2
  <1>10. [k \in 1..N |-> u[k]] = u
    BY DEF u
  <1>11. Sketched(s, Limiting!Fold(base, es), m \o FlattenSeq(u))
    BY <1>8, <1>9, <1>10
  <1> QED
    BY <1>11 DEF es, u

LEMMA CommandsFold ==
    ASSUME NEW base, NEW q
    PROVE  FoldLeft(CommandsStep, base, q) = Limiting!Fold(base, q)
  BY DEF FoldLeft, MapThenFoldSet, Max, Limiting!Fold, Limiting!Largest

LEMMA TokensFold ==
    ASSUME NEW base, NEW q
    PROVE  FoldLeft(TokenStep, base, q) = Sketching!Fold(base, q)
  BY DEF FoldLeft, MapThenFoldSet, Max, Sketching!Fold, Sketching!Largest

(* The options of the background.                                          *)
Lineless(f) == [col |-> [rgb |-> f.rgb, alpha |-> 0], lty |-> SOLID, lend |-> "butt",
               ljoin |-> "mitre", lmitre |-> 10]

LEMMA TexBackgroundOptions ==
    ASSUME NEW f \in Color, ~Transparent(f)
    PROVE  LET p == [draw |-> "none"] ++ TexFillOrOmit(f)
           IN  /\ Lineless(f) \in Line /\ Transparent(Lineless(f).col)
               /\ TexStrokes(p, Lineless(f)) /\ TexFills(p, f)
  <1> DEFINE a == [draw |-> "none"]
             b == [fill |-> f.rgb]
             c == IF Opaque(f) THEN <<>> ELSE [fillOpacity |-> f.alpha]
             q == TexFillOrOmit(f)
             p == a ++ q
             col == [rgb |-> f.rgb, alpha |-> 0]
             l == Lineless(f)
  <1>1. col \in Color /\ Transparent(col)
    <2> DEFINE x == f.rgb
    <2>1. x \in STRING \ {"none"} /\ 0 \in 0..255 /\ col = [rgb |-> x, alpha |-> 0]
      BY DEF Color
    <2> HIDE DEF x, col
    <2>2. col \in Color
      BY <2>1 DEF Color
    <2>3. Transparent(col)
      BY <2>1 DEF Transparent
    <2> QED
      BY <2>2, <2>3
  <1>2. SOLID \in LineType
    <2>1. SOLID \in [1..8 -> 0..15] /\ \A k \in 1..8 : SOLID[k] = 0
      BY DEF SOLID
    <2>2. 0 \in 0..8 /\ \A k \in 1..8 : SOLID[k] # 0 <=> k <= 0
      BY <2>1
    <2> QED
      BY <2>1, <2>2 DEF LineType
  <1> HIDE DEF col
  <1>3. l.col = col /\ l.lend = "butt" /\ l.ljoin = "mitre" /\ l.lmitre = 10
    BY DEF Lineless, col
  <1>4. l \in Line
    <2>1. l \in [col : Color, lty : LineType, lend : {"round", "butt", "square"},
                 ljoin : {"round", "mitre", "bevel"}, lmitre : Nat]
      <3> DEFINE s == SOLID
      <3>1. l = [col |-> col, lty |-> s, lend |-> "butt", ljoin |-> "mitre", lmitre |-> 10]
        BY DEF Lineless, col
      <3>2. s \in LineType
        BY <1>2
      <3> HIDE DEF l, s
      <3> QED
        BY <1>1, <3>1, <3>2
    <2> HIDE DEF l
    <2> QED
      BY <1>1, <1>3, <2>1 DEF Line
  <1> HIDE DEF l
  <1>5. q = b ++ c
    BY DEF TexFillOrOmit
  <1>6. \A x \in TexProps : \A y : Get(a, x, y) = IF x = "draw" THEN "none" ELSE y
    BY DEF Get, TexProps
  <1>7. \A x \in TexProps : \A y : Get(b, x, y) = IF x = "fill" THEN f.rgb ELSE y
    BY DEF Get, TexProps
  <1>8. \A x \in TexProps : \A y :
            Get(c, x, y) = IF x = "fillOpacity" /\ ~Opaque(f) THEN f.alpha ELSE y
    BY DEF Get, TexProps
  <1>9. /\ "fill" \in TexProps /\ "fillOpacity" \in TexProps /\ "draw" \in TexProps
        /\ "cap" \in TexProps /\ "join" \in TexProps /\ "limit" \in TexProps /\ f.alpha # 0
    BY DEF TexProps, Transparent
  <1> HIDE DEF a, b, c, q
  <1>10. \A x, y : Get(p, x, y) = Get(a, x, Get(q, x, y))
    BY GetOver
  <1>11. \A x, y : Get(q, x, y) = Get(b, x, Get(c, x, y))
    BY <1>5, GetOver
  <1> HIDE DEF p
  <1>12. TexStrokes(p, l)
    BY <1>1, <1>3, <1>6, <1>7, <1>8, <1>9, <1>10, <1>11 DEF TexStrokes
  <1>13. TexFills(p, f)
    BY <1>6, <1>7, <1>8, <1>9, <1>10, <1>11 DEF TexFills
  <1> QED
    BY <1>1, <1>3, <1>4, <1>12, <1>13 DEF l, p, a, q

BackgroundTokens(size, f) ==
    IF Transparent(f) THEN <<>>
    ELSE <<[Token("draw") EXCEPT
               !.area = <<Corners(<<0, 0>> \o size)>>,
               !.options = [draw |-> "none"] ++ TexFillOrOmit(f)],
           Token("newline")>>

LEMMA OpenedOutside == Outside(Opened, <<>>)
  <1> DEFINE e == <<>>
             z == {}
  <1>1. Opened = [comment |-> Off, scopes |-> e, clips |-> z, marks |-> e]
    BY DEF Opened, Off
  <1>2. IsSeq(e) /\ Sketch(e) = e
    BY RunsNone, SketchNone
  <1> HIDE DEF e, z
  <1>3. Opened = Tx(Off, e, z, e)
    BY <1>1 DEF Tx
  <1>4. Opened = Tx(Off, <<>>, {}, e)
    BY <1>3 DEF e, z
  <1>5. Outside(Opened, e)
    BY <1>2, <1>4 DEF Outside
  <1> QED
    BY <1>5 DEF e

LEMMA TexBackground ==
    ASSUME NEW size \in Size, NEW f \in Color
    PROVE  LET bg == BackgroundTokens(size, f)
               m == Sketch(<<Background(size, f)>>)
           IN  IsSeq(bg) /\ IsSeq(m) /\ Outside(Reads(Opened, bg), m)
  <1> DEFINE bg == BackgroundTokens(size, f)
             back == Background(size, f)
             m == Sketch(<<back>>)
             none == <<>>
             z == {}
             area == <<Corners(<<0, 0>> \o size)>>
             p == [draw |-> "none"] ++ TexFillOrOmit(f)
             tok == [Token("draw") EXCEPT !.area = area, !.options = p]
             nl == Token("newline")
  <1>1. m = Told(back) /\ IsSeq(m)
    <2> HIDE DEF back
    <2> QED
      BY SketchOne
  <1>2. back.do = "fill" /\ back.col = f
    <2> DEFINE ar == <<Box(0, 0, size[1], size[2])>>
    <2>1. back = FillMark(ar, f, "nonzero", {})
      BY DEF Background
    <2> HIDE DEF ar, back
    <2> QED
      BY <2>1, MarkFields
  <1>3. Outside(Opened, none)
    BY OpenedOutside
  <1>4. CASE Transparent(f)
    <2>1. bg = none
      BY <1>4 DEF BackgroundTokens
    <2>2. Told(back) = none
      BY <1>2, <1>4 DEF Told
    <2>3. Reads(Opened, none) = Opened /\ IsSeq(none)
      BY ReadsNone, RunsNone
    <2> HIDE DEF bg, none, m
    <2>4. IsSeq(bg) /\ Outside(Reads(Opened, bg), m)
      BY <1>1, <1>3, <2>1, <2>2, <2>3
    <2> QED
      BY <1>1, <2>4 DEF bg, m
  <1>5. CASE ~Transparent(f)
    <2>1. bg = <<tok, nl>>
      BY <1>5 DEF BackgroundTokens
    <2>2. /\ Lineless(f) \in Line /\ Transparent(Lineless(f).col)
          /\ TexStrokes(p, Lineless(f)) /\ TexFills(p, f)
      BY <1>5, TexBackgroundOptions
    <2>3. area = <<Box(0, 0, size[1], size[2])>>
      <3>1. size = <<size[1], size[2]>> /\ size[1] \in Nat /\ size[2] \in Nat
        BY DEF Size
      <3> DEFINE w == size[1]
                 h == size[2]
      <3>2. <<0, 0>> \o size = <<0, 0, w, h>>
        <4>1. <<0, 0>> \o <<w, h>> = <<0, 0, w, h>>
          BY JoinPairs
        <4> QED
          BY <3>1, <4>1
      <3>3. w \in Nat /\ h \in Nat
        BY <3>1
      <3> HIDE DEF w, h
      <3>4. Corners(<<0, 0, w, h>>) = Box(0, 0, w, h)
        BY <3>3 DEF Corners
      <3> QED
        BY <3>2, <3>4 DEF w, h
    <2> HIDE DEF area, p
    <2>4. tok.t = "draw" /\ tok.area = area /\ tok.options = p
      BY DEF Token
    <2> DEFINE x == TokenMarks(tok, z)
               stroke == StrokeMark(area, Lineless(f).col, AskedPen(Lineless(f)), z)
    <2>5. back = FillMark(area, f, "nonzero", z)
      BY <2>3 DEF Background
    <2> HIDE DEF tok, z, nl, bg
    <2>6. Sketch(x) = Sketch(Paint(area, f, "nonzero", Lineless(f).col, AskedPen(Lineless(f)), z))
      BY <2>2, <2>4, TexShapeMarks
    <2>7. Paint(area, f, "nonzero", Lineless(f).col, AskedPen(Lineless(f)), z) = <<back, stroke>>
      BY <2>5 DEF Paint
    <2>8. Told(stroke) = none
      <3>1. stroke.do = "stroke" /\ stroke.col = Lineless(f).col
        BY MarkFields
      <3> HIDE DEF stroke
      <3> QED
        BY <2>2, <3>1 DEF Told
    <2>9. IsSeq(x)
      BY TokenMarksSeq
    <2> HIDE DEF x, stroke, back, none, m
    <2>10. Sketch(x) = m
      <3>1. Sketch(x) = Told(back) \o Told(stroke)
        BY <2>6, <2>7, SketchTwo
      <3>2. m \o none = m
        BY <1>1, AppendJoins DEF none
      <3> QED
        BY <1>1, <2>8, <3>1, <3>2
    <2>11. Opened = Tx(Off, none, z, none)
      <3>1. Opened = [comment |-> Off, scopes |-> none, clips |-> z, marks |-> none]
        BY DEF Opened, Off, none, z
      <3> QED
        BY <3>1 DEF Tx
    <2>12. TokenStep(Opened, tok) = Tx(Off, none, z, x)
      <3>1. TokenStep(Opened, tok) = Tx(Off, none, z, none \o x)
        BY <2>4, <2>11, TexDrawn DEF x
      <3>2. none \o x = x
        BY <2>9, AppendJoins DEF none
      <3> QED
        BY <3>1, <3>2
    <2>13. TokenStep(Tx(Off, none, z, x), nl) = Tx(Off, none, z, x)
      BY TexNewline DEF nl
    <2>14. IsSeq(<<tok, nl>>) /\ Reads(Opened, <<tok, nl>>) = Tx(Off, none, z, x)
      BY <2>12, <2>13, ReadsTwo
    <2>15. Outside(Tx(Off, none, z, x), m)
      BY <2>9, <2>10 DEF Outside, none, z
    <2> QED
      BY <1>1, <2>1, <2>14, <2>15 DEF bg, m, back
  <1> QED
    BY <1>4, <1>5

LEMMA SketchFlatten ==
    ASSUME NEW m, NEW N \in Nat, \A k \in 1..N : IsSeq(m[k])
    PROVE  /\ Sketch(FlattenSeq([k \in 1..N |-> m[k]]))
                = FlattenSeq([k \in 1..N |-> Sketch(m[k])])
           /\ IsSeq(FlattenSeq([k \in 1..N |-> m[k]]))
  <1> DEFINE F(n) == FlattenSeq([k \in 1..n |-> m[k]])
             v == [k \in 1..N |-> Sketch(m[k])]
             V(n) == FlattenSeq([k \in 1..n |-> v[k]])
             T == {n \in Nat : n <= N => Sketch(F(n)) = V(n) /\ IsSeq(F(n))}
  <1>1. 0 \in T
    <2>1. F(0) = <<>> /\ V(0) = <<>>
      <3>1. FlattenSeq([k \in 1..0 |-> m[k]]) = <<>>
        BY FlattenNone
      <3> HIDE DEF v
      <3>2. FlattenSeq([k \in 1..0 |-> v[k]]) = <<>>
        BY FlattenNone
      <3> QED
        BY <3>1, <3>2
    <2>2. Sketch(<<>>) = <<>>
      BY SketchNone
    <2>3. IsSeq(<<>>)
      BY RunsNone
    <2> HIDE DEF F, V
    <2> QED
      BY <2>1, <2>2, <2>3
  <1>2. ASSUME NEW n \in Nat, n \in T PROVE n + 1 \in T
    <2> SUFFICES ASSUME n + 1 <= N PROVE Sketch(F(n + 1)) = V(n + 1) /\ IsSeq(F(n + 1))
      OBVIOUS
    <2>1. n + 1 \in 1..N /\ n <= N
      OBVIOUS
    <2>2. \A k \in 1..N : IsSeq(v[k])
      BY SketchConcat
    <2>3. v[n + 1] = Sketch(m[n + 1])
      BY <2>1
    <2> HIDE DEF v
    <2>4. F(n + 1) = F(n) \o m[n + 1] /\ IsSeq(F(n))
      BY FlattenNext
    <2>5. V(n + 1) = V(n) \o v[n + 1]
      BY <2>2, FlattenNext
    <2> HIDE DEF F, V
    <2>6. Sketch(F(n)) = V(n)
      BY <1>2, <2>1
    <2>7. IsSeq(m[n + 1])
      BY <2>1
    <2> DEFINE x == m[n + 1]
               f == F(n)
    <2>8. IsSeq(x) /\ IsSeq(f)
      BY <2>4, <2>7
    <2> HIDE DEF x, f
    <2>9. Sketch(f \o x) = Sketch(f) \o Sketch(x)
      BY <2>8, SketchConcat
    <2>10. IsSeq(f \o x)
      BY <2>8, RunsConcat
    <2> QED
      BY <2>3, <2>4, <2>5, <2>6, <2>9, <2>10 DEF x, f
  <1> HIDE DEF T
  <1>3. Nat \subseteq T
    BY <1>1, <1>2, SetInduction
  <1>4. Sketch(F(N)) = V(N) /\ IsSeq(F(N))
    BY <1>3 DEF T
  <1>5. V(N) = FlattenSeq([k \in 1..N |-> Sketch(m[k])])
    <2>1. [k \in 1..N |-> v[k]] = [k \in 1..N |-> Sketch(m[k])]
      OBVIOUS
    <2> HIDE DEF v
    <2> QED
      BY <2>1, Zenon
  <1> HIDE DEF V
  <1> QED
    BY <1>4, <1>5

(* What TikZ shows of the picture.                                         *)
LEMMA TexPicture ==
    ASSUME IInv
    PROVE  TikzSees(Picture(fill))
             = Sketch(<<Background(page.size, fill)>>)
                 \o FlattenSeq([n \in 1..Len(asked) |-> TexShown(n)])
  <1> DEFINE N == Len(asked)
             f == Background(page.size, fill)
             bg == <<f>>
             k == [n \in 1..N |-> AskedMarks(asked[n].call, asked[n].clip)]
             v == FlattenSeq([n \in 1..N |-> k[n]])
  <1>1. N \in Nat /\ DOMAIN asked = 1..N
    <2>1. asked \in Seq(AskedSet)
      BY ClipBoxes
    <2> QED
      BY <2>1
  <1>2. TikzSees(Picture(fill)) = Sketch(bg \o FlattenSeq(k))
    BY <1>1 DEF Picture, PictureOf, Sketch
  <1>3. k = [n \in 1..N |-> k[n]]
    OBVIOUS
  <1>4. \A n \in 1..N : IsSeq(k[n]) /\ TexShown(n) = Sketch(k[n])
    <2> TAKE n \in 1..N
    <2>1. k[n] = AskedMarks(asked[n].call, asked[n].clip)
      OBVIOUS
    <2>2. TexShown(n) = Sketch(k[n])
      BY <2>1 DEF TexShown
    <2> HIDE DEF k
    <2>3. Few(k[n])
      BY <2>1, AskedMarksFew
    <2> QED
      BY <2>2, <2>3 DEF Few, IsSeq
  <1>5. IsSeq(bg)
    <2> HIDE DEF f
    <2> QED
      BY RunsOne
  <1> HIDE DEF k, bg
  <1>6. Sketch(v) = FlattenSeq([n \in 1..N |-> Sketch(k[n])]) /\ IsSeq(v)
    <2> HIDE DEF N
    <2> QED
      BY <1>1, <1>4, SketchFlatten
  <1>7. [n \in 1..N |-> Sketch(k[n])] = [n \in 1..N |-> TexShown(n)]
    BY <1>4
  <1>8. TikzSees(Picture(fill)) = Sketch(bg \o v)
    BY <1>2, <1>3
  <1> HIDE DEF v
  <1>9. Sketch(bg \o v) = Sketch(bg) \o Sketch(v)
    BY <1>5, <1>6, SketchConcat
  <1> QED
    BY <1>6, <1>7, <1>8, <1>9 DEF bg

LEMMA TexCommands ==
    ASSUME IInv
    PROVE  LET base == [last |-> 0, tokens |-> ClipTo(page, 0), first |-> TRUE]
           IN  Commands(page)
                 = Limiting!Fold(base, [n \in 1..Len(asked) |-> TexEntry(n)]).tokens
  <1> DEFINE N == Len(asked)
             first == Head(page.cps).id
             base == [last |-> first, tokens |-> ClipTo(page, first), first |-> TRUE]
             es == [n \in DOMAIN page.dcs |-> TexEntry(n)]
  <1>1. DOMAIN page.dcs = 1..N
    <2>1. page \in PageSet /\ Len(page.dcs) = N
      BY ClipBoxes
    <2> DEFINE dcs == page.dcs
    <2>2. dcs \in Seq(DcSet) /\ Len(dcs) = N
      BY <2>1 DEF PageSet
    <2> HIDE DEF dcs, N
    <2>3. DOMAIN dcs = 1..N
      BY <2>2
    <2> QED
      BY <2>3 DEF dcs
  <1>2. first = 0
    <2> DEFINE cps == page.cps
    <2>1. Numbered(page) /\ cps \in Seq(CpSet) /\ Len(cps) \in Nat \ {0}
      BY ClipBoxes DEF PageSet
    <2>2. \A k \in 1..Len(cps) : cps[k].id = k - 1
      BY <2>1 DEF Numbered
    <2> HIDE DEF cps
    <2>3. Head(cps) = cps[1] /\ 1 \in 1..Len(cps) /\ 1 - 1 = 0
      BY <2>1
    <2>4. Head(cps).id = 0
      BY <2>2, <2>3
    <2> QED
      BY <2>4 DEF cps
  <1>3. Commands(page) = FoldLeft(CommandsStep, base, es).tokens
    BY DEF Commands, TexEntry
  <1>4. FoldLeft(CommandsStep, base, es) = Limiting!Fold(base, es)
    <2> HIDE DEF base, es
    <2> QED
      BY CommandsFold
  <1>5. es = [n \in 1..N |-> TexEntry(n)]
    BY <1>1
  <1>6. base = [last |-> 0, tokens |-> ClipTo(page, 0), first |-> TRUE]
    BY <1>2
  <1> HIDE DEF base, es
  <1> QED
    BY <1>3, <1>4, <1>5, <1>6

LEMMA TikzIsRight == ASSUME WordsEnd, IInv PROVE TikzPaints
  <1> DEFINE N == Len(asked)
             base == [last |-> 0, tokens |-> ClipTo(page, 0), first |-> TRUE]
             bg == BackgroundTokens(page.size, fill)
             cmds == Commands(page)
             nl == Token("newline")
             end == Token("end")
             tail == <<nl, end>>
             s1 == Reads(Opened, bg)
             w == Sketch(<<Background(page.size, fill)>>)
             v == FlattenSeq([n \in 1..N |-> TexShown(n)])
             acc == Limiting!Fold(base, [n \in 1..N |-> TexEntry(n)])
             o == CornersOfId(0)
  <1>1. page.size \in Size /\ fill \in Color /\ 0 \in 0..(Len(page.cps) - 1)
    BY ClipBoxes DEF PageSet
  <1>2. IsSeq(bg) /\ IsSeq(w) /\ Outside(s1, w)
    BY <1>1, TexBackground
  <1> HIDE DEF bg, s1, w
  <1>3. Sketched(s1, base, w)
    <2>1. base.tokens = TexScope(o) /\ base.last = 0
      BY <1>1, TexClipTo
    <2>2. IsSeq(TexScope(o)) /\ InScope(Reads(s1, TexScope(o)), Off, w, o)
      BY <1>2, TexScopeJoins, ScopeOpens
    <2> HIDE DEF base
    <2>3. o = CornersOfId(base.last)
      BY <2>1
    <2>4. InScope(Reads(s1, base.tokens), Off, w, CornersOfId(base.last))
      BY <2>1, <2>2, <2>3
    <2> QED
      BY <1>1, <1>2, <2>1, <2>2, <2>4 DEF Sketched
  <1> HIDE DEF base
  <1>4. Sketched(s1, acc, w \o v)
    BY <1>3, SketchedThrough
  <1>5. cmds = acc.tokens
    BY TexCommands DEF base
  <1> HIDE DEF acc, cmds, v, o
  <1>6. PICK c, b : IsSeq(cmds) /\ InScope(Reads(s1, cmds), c, w \o v, b)
    BY <1>4, <1>5 DEF Sketched
  <1> DEFINE s2 == Reads(s1, cmds)
             s3 == TokenStep(s2, nl)
             s4 == TokenStep(s3, end)
             m == w \o v
  <1>7. InScope(s3, Off, m, b)
    <2>1. InScope(s2, c, m, b)
      BY <1>6
    <2> HIDE DEF s2, m
    <2> QED
      BY <2>1, LineEnds
  <1> HIDE DEF s3
  <1>8. Outside(s4, m)
    <2> HIDE DEF m
    <2> QED
      BY <1>7, ScopeCloses
  <1>9. IsSeq(tail) /\ Reads(s2, tail) = s4
    <2> HIDE DEF nl, end, s2
    <2> QED
      BY ReadsTwo DEF s3
  <1>10. Tikz(page, fill) = (bg \o cmds) \o tail
    BY DEF Tikz, BackgroundTokens, bg, cmds
  <1> HIDE DEF tail, s4, m
  <1> DEFINE bc == bg \o cmds
             all == bc \o tail
  <1>11. Reads(Opened, all) = s4
    <2>1. IsSeq(bc) /\ Reads(Opened, bc) = s2
      BY <1>2, <1>6, ReadsConcat DEF s1
    <2> HIDE DEF bc, s2
    <2> QED
      BY <1>9, <2>1, ReadsConcat
  <1>12. PICK k : s4 = Tx(Off, <<>>, {}, k) /\ Sketch(k) = m
    BY <1>8 DEF Outside
  <1> DEFINE e == <<>>
             z == {}
  <1>13. s4.marks = k
    <2>1. s4 = Tx(Off, e, z, k)
      BY <1>12
    <2> HIDE DEF e, z
    <2> QED
      BY <2>1, TxParts
  <1> HIDE DEF s2, all
  <1>14. TikzMarks(all) = Visible(k)
    <2>1. FoldLeft(TokenStep, Opened, all) = Reads(Opened, all)
      BY TokensFold DEF Reads
    <2> QED
      BY <1>11, <1>13, <2>1 DEF TikzMarks
  <1>15. TikzSees(TikzMarks(all)) = m
    BY <1>12, <1>14 DEF Sketch
  <1>16. TikzSees(Picture(fill)) = m
    BY TexPicture DEF m, w, v
  <1> QED
    BY <1>10, <1>15, <1>16 DEF TikzPaints, all

(* What TeX makes of the document of RendererTikZ is what R asked for, as  *)
(* far as TikZ shows it: an image leaves a comment that ends before the    *)
(* next call, each call is in the scope of its own clip, and all scopes    *)
(* are closed.  No text that R sets may have a letter after a character    *)
(* that is written as a control word.                                      *)
THEOREM TikzAlwaysPaints == WordsEnd => (Spec => []TikzPaints)
  <1> SUFFICES ASSUME WordsEnd PROVE Spec => []TikzPaints
    OBVIOUS
  <1>1. IInv => TikzPaints
    BY TikzIsRight
  <1> QED
    BY <1>1, RenderingIInv, PTL
=============================================================================
