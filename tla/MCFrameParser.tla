---- MODULE MCFrameParser ----
(* An instance of FrameParser for TLC: bodies with and without bytes that    *)
(* look like the start of an item or the end of a line.                      *)
EXTENDS FrameParser

MCBodies == {<<"x">>, <<"brace">>, <<"A5", "5A">>, <<"5A", "v">>, <<"nl">>}
====
