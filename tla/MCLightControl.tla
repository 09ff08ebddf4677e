--------------------------- MODULE MCLightControl ---------------------------
(* Model-checking instances of LightControl.                               *)
EXTENDS LightControl

CONSTANTS l1, l2, l3, d1, d2

\* Two lights, each lit by one detector; l3 is a light of another
\* concentrator, heard but not listed.
MCLightIds == {l1, l2, l3}
MCListedLightIds == {l1, l2}
MCDetIds   == {d1, d2}
MCConfigOne == [lights |-> <<l1, l2>>, dets |-> <<d1, d2>>,
                zone |-> {<<d1, l1>>, <<d2, l2>>}]
\* A download that reorders the lights and lets d2 light both.
MCConfigTwo == [lights |-> <<l2, l1>>, dets |-> <<d1, d2>>,
                zone |-> {<<d1, l1>>, <<d2, l1>>, <<d2, l2>>}]
\* A download that removes a light.
MCConfigFewer == [lights |-> <<l1>>, dets |-> <<d1, d2>>,
                  zone |-> {<<d1, l1>>, <<d2, l1>>}]

MCConfigsSameSize == {MCConfigOne, MCConfigTwo}
MCConfigsShrink   == {MCConfigOne, MCConfigFewer}
=============================================================================
