----------------------------- MODULE MCStartup -----------------------------
(* Startup for TLC: every map of up to two entries.                        *)
EXTENDS Startup

SmallMaps == {<<>>} \cup [1 .. 1 -> Entry] \cup [1 .. 2 -> Entry]

=============================================================================
