----------------------------- MODULE MCStaging -----------------------------
(***************************************************************************)
(* Instances of Staging for TLC: two similar long documents, a third and a *)
(* short one, each with features that make the passes meet.                *)
(***************************************************************************)
EXTENDS Staging

CONSTANTS a1, a2, b, c, bash

MCCore == [d \in Docs |-> IF d = c THEN 1 ELSE 8]
MCFamily == [d \in Docs |-> IF d = a2 THEN a1 ELSE d]
MCGain == [f \in Features |->
            CASE f \in {"blob", "html"} -> 3
              [] f \in {"pretty", "rows"} -> 2
              [] f \in {"ansi", "ws"} -> 1
              [] f = "long" -> 6
              [] f = "tall" -> -1]

Text(d, fs) == [doc |-> d, has |-> fs, form |-> "whole", base |-> None]
Pair(t, st) == [raw |-> t, tool |-> bash, status |-> st]
Turn(t, st) == [raw |-> t, tool |-> NoTool, status |-> st]

\* Tool results of the two similar documents, clean and noisy.
Results ==
    {Pair(Text(d, fs), "open") : d \in {a1, a2}, fs \in {{}, {"ansi", "ws"}, {"long"}}}
    \cup {Pair(Text(a1, {}), "many"), Pair(Text(a1, {"long"}), "salient")}
\* Leaves on which several passes fire, and turns that can repeat.
Others ==
    {Pair(Text(a1, fs), "open") : fs \in {{"blob", "ansi", "ws"}, {"html", "ansi"}, {"tall"}}}
    \cup {Pair(Text(b, {"ansi", "pretty", "rows", "long"}), "open"), Pair(Text(c, {}), "open")}
    \cup {Turn(Text(a1, fs), "open") : fs \in {{}, {"ws"}, {"long"}}}
\* Turns the human typed or that source a constraint.
Kept == {Turn(Text(a1, {}), "typed"), Turn(Text(a1, {"long"}), "paste"),
         Turn(Text(a1, {"long"}), "salient")}

\* The third segment resembles, and the second may repeat, the first; the last
\* one is pinned.  And requests without a candidate.
Mixed ==
    {<<x, y, Pair(Text(a2, {}), "open"), z>> :
        x \in Results \cup Others \cup Kept,
        y \in Others \cup {Pair(Text(a2, fs), "open") : fs \in {{}, {"long"}}},
        z \in {Turn(Text(c, {}), "pinned")}}
    \cup {<<x, Turn(Text(a1, {}), "open"), Pair(Text(c, {}), "open"),
            Pair(Text(a1, {"long"}), "pinned")>> : x \in Kept}
    \cup {[s \in Segs |-> Turn(Text(a1, {}), st)] : st \in {"salient", "typed"}}

Chains == {deterministic, replayed}
=============================================================================
