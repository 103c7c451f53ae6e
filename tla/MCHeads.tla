------------------------------ MODULE MCHeads -------------------------------
(* A day of twelve slots, six hours; a range of 66 half pips can be traded *)
(* by closes up to 12 beyond it.                                           *)
EXTENDS Heads

LondonSlots  == 4 .. 7
NewYorkSlots == {9, 10}
ScalpTime    == 4 .. 8

\* Bars that stay, make the range, break it within reach of the target, and
\* jump over the target.
Shapes == { <<1000, 1066, 1030>>, <<1020, 1040, 1030>>, <<1000, 1078, 1078>>,
            <<988, 1066, 988>>, <<1040, 1400, 1400>>, <<700, 1030, 700>> }

RangeBars ==
    { [ts |-> 0, low |-> x[1], high |-> x[2], close |-> x[3], vwap |-> v,
       allowed |-> a] : x \in Shapes, v \in {TRUE}, a \in BOOLEAN }

MomentumBars == RangeBars \cup { [x EXCEPT !.vwap = FALSE] : x \in RangeBars }

Bands(close, width, volume, atr, allowed) ==
    [ts |-> 0, lower |-> 990, upper |-> 1010, close |-> close, width |-> width,
     volume |-> volume, atr |-> atr, allowed |-> allowed]

Widths == {"squeezed", "mid", "wide", "burst"}

BandBars ==
    { Bands(c, w, TRUE, 20, g) : c \in {980, 1000, 1012, 1100}, w \in Widths,
                                 g \in BOOLEAN }
    \cup { Bands(1012, "wide", FALSE, 20, TRUE), Bands(1012, "wide", TRUE, 0, TRUE) }

TrendBars ==
    { [ts |-> 0, ema |-> 1000, atr |-> 10, low |-> x[1], high |-> x[2],
       close |-> x[3], above |-> f, strong |-> g, allowed |-> a] :
        x \in { <<1002, 1010, 1006>>, <<995, 1010, 1006>>,
                <<990, 1003, 994>>, <<990, 998, 994>> },
        f \in {"yes", "no"}, g \in BOOLEAN, a \in BOOLEAN }

NewsBars ==
    { [ts |-> 0, atr |-> 10, low |-> x[1], high |-> x[2], close |-> x[3],
       allowed |-> a] :
        x \in { <<996, 1004, 1000>>, <<1000, 1030, 1028>>,
                <<970, 1000, 972>>, <<940, 944, 942>> },
        a \in BOOLEAN }

ScalpBars ==
    { [ts |-> 0, close |-> 1000, atr |-> 10, level |-> l, vwap |-> v,
       allowed |-> a] :
        l \in {"low", "mid", "high"}, v \in BOOLEAN, a \in BOOLEAN }

GridBars ==
    { [ts |-> 0, ema |-> 1000, atr |-> 10, strong |-> g, width |-> w,
       low |-> x[1], high |-> x[2], close |-> x[3], allowed |-> TRUE] :
        x \in { <<985, 1002, 995>>, <<998, 1014, 1005>>, <<996, 1004, 1000>> },
        g \in BOOLEAN, w \in {"squeezed", "mid"} }

\* open, high, low, close: two rises, a gap up, falls, a return to a zone.
SmcBarsSeen ==
    { [ts |-> 0, atr |-> 10, open |-> x[1], high |-> x[2], low |-> x[3],
       close |-> x[4], allowed |-> a] :
        x \in { <<1000, 1012, 998, 1010>>, <<1010, 1024, 1008, 1022>>,
                <<1030, 1044, 1028, 1042>>, <<1010, 1012, 996, 998>>,
                <<1022, 1024, 1008, 1010>> },
        a \in {TRUE} }

ProfileBars ==
    { [ts |-> 0, atr |-> 10, low |-> x[1], high |-> x[2], close |-> x[3],
       volume |-> v, allowed |-> TRUE] :
        x \in { <<1040, 1060, 1050>>, <<1000, 1100, 1001>>,
                <<1040, 1100, 1099>> },
        v \in {0, 9} } \cup
    { [ts |-> 0, atr |-> 10, low |-> 1000, high |-> 1100, close |-> 1001,
       volume |-> 2, allowed |-> TRUE] }

\* The heads that know days get a day and more, from within a range on, the
\* others as many bars as their setups take, past a dead slot.
FirstSlots(h) ==
    CASE h \in {"AsianRange", "Momentum"} -> {3, 8}
      [] h \in {"Scalp", "Grid"} -> {2}
      [] OTHER -> {5}

LastSlot(h) ==
    CASE h \in {"AsianRange", "Momentum"} -> 17
      [] h = "Breakout" -> 15
      [] h = "Smc" -> 11
      [] h = "VolProfile" -> 9
      [] OTHER -> 13

BarsFor(h) ==
    CASE h = "AsianRange" -> RangeBars [] h = "Momentum"   -> MomentumBars
      [] h = "Breakout"   -> BandBars  [] h = "Trend"      -> TrendBars
      [] h = "News"       -> NewsBars  [] h = "Scalp"      -> ScalpBars
      [] h = "Grid"       -> GridBars  [] h = "Smc"        -> SmcBarsSeen
      [] h = "VolProfile" -> ProfileBars
=============================================================================
