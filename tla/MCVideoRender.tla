--------------------------- MODULE MCVideoRender ---------------------------
(* Sentences of one, four and six words; the placeholder storyboard and    *)
(* one with more scenes than any script has sentences.                    *)
EXTENDS VideoRender

MCSentences == {<<"a">>, <<"b", "b", "b", "b">>, <<"a", "b", "a", "b", "a", "b">>}
MCSceneLengths == {<<20>>, <<2, 2, 5, 3>>}
=============================================================================
