---------------------------- MODULE MCRendering ----------------------------
(* Instances of Rendering for TLC: draw calls that differ in all that the  *)
(* renderers tell apart.                                                   *)
EXTENDS Rendering

Blue == [rgb |-> "blue", alpha |-> 255]
HalfRed == [rgb |-> "red", alpha |-> 128]
TranWhite == [rgb |-> "white", alpha |-> 0]
MCBegins == {[size |-> <<4, 3>>, fill |-> TranWhite], [size |-> <<3, 3>>, fill |-> HalfRed]}
MCStartFill == TranWhite
MCClipCorners == {<<1, 2, 3, 0>>, <<0, 0, 4, 3>>}

MCLine(col, lty, lend, ljoin, lmitre) ==
    [col |-> col, lty |-> lty, lend |-> lend, ljoin |-> ljoin, lmitre |-> lmitre]
Dashed == <<4, 4, 0, 0, 0, 0, 0, 0>>
LongPattern == <<1, 2, 3, 4, 5, 6, 7, 8>>   \* a negative int
Plain == MCLine(Black, SOLID, "round", "round", 10)
NoLine == MCLine(TranWhite, BLANK, "round", "round", 10)

MCCalls == {
    [kind |-> "line", line |-> MCLine(Blue, LongPattern, "square", "mitre", 10),
     points |-> <<<<0, 0>>, <<1, 1>>>>],
    [kind |-> "polyline", line |-> MCLine(Black, Dashed, "butt", "round", 10),
     points |-> <<<<0, 0>>, <<1, 1>>, <<2, 0>>>>],
    [kind |-> "rect", line |-> NoLine, fill |-> Blue, corners |-> <<0, 2, 1, 0>>],
    [kind |-> "circle", line |-> MCLine(HalfRed, SOLID, "butt", "bevel", 10),
     fill |-> TranWhite, pos |-> <<1, 1>>, radius |-> 2],
    [kind |-> "circle", line |-> NoLine, fill |-> Blue, pos |-> <<1, 1>>, radius |-> 0],
    [kind |-> "polygon", line |-> MCLine(Black, SOLID, "round", "mitre", 4),
     fill |-> HalfRed, points |-> <<<<0, 0>>, <<1, 1>>, <<2, 0>>>>],
    [kind |-> "path", line |-> Plain, fill |-> Black, winding |-> FALSE,
     nper |-> <<2, 3>>,
     points |-> <<<<0, 0>>, <<1, 1>>, <<2, 0>>, <<2, 1>>, <<3, 3>>>>],
    [kind |-> "text", col |-> Black, str |-> <<"a", "<", "b">>, at |-> <<1, 1>>,
     hadj |-> 0, rot |-> 0],
    [kind |-> "text", col |-> HalfRed, str |-> <<"a", "&", "^">>, at |-> <<1, 1>>,
     hadj |-> 50, rot |-> 90],
    [kind |-> "text", col |-> TranWhite, str |-> <<"a">>, at |-> <<1, 1>>,
     hadj |-> 100, rot |-> -90],
    [kind |-> "raster", w |-> 2, h |-> 1, pixels |-> <<7, 255>>, at |-> <<0, 3>>,
     width |-> 3, height |-> -2, interpolate |-> FALSE],
    [kind |-> "raster", w |-> 3, h |-> 1, pixels |-> <<0, 100, 200>>, at |-> <<0, 3>>,
     width |-> 4, height |-> -3, interpolate |-> TRUE]}

ASSUME MCWordsEnd == WordsEnd
=============================================================================
