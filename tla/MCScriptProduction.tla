-------------------------- MODULE MCScriptProduction --------------------------
(* Replies that differ in everything a gate or the QA looks at.           *)
EXTENDS ScriptProduction

MCTopic == [len |-> 62, phrase |-> TRUE, marks |-> 4]
Cta == [line |-> "subscribe", phrase |-> TRUE]
Reply == [json |-> TRUE, lines |-> <<"a", "subscribe", "b">>, cta |-> Cta, claim |-> Unclaimed,
          hook |-> 0, promise |-> 5, items |-> 3, tags |-> 10, hashtags |-> <<TRUE>>,
          desc |-> [len |-> 20, marks |-> 0, phrase |-> FALSE, asks |-> FALSE, cta |-> FALSE],
          chapters |-> 60, title |-> [len |-> 30, bait |-> TRUE, keyword |-> FALSE]]
Follows == [Reply EXCEPT !.desc = [len |-> 120, marks |-> 2, phrase |-> FALSE, asks |-> TRUE,
                                   cta |-> FALSE],
                         !.hook = 4, !.claim = 9, !.lines = <<"leak", "a">>]
Unmarked == [Reply EXCEPT !.hashtags = <<FALSE, FALSE, FALSE, FALSE, FALSE>>, !.tags = 40,
                          !.cta = [line |-> "leak", phrase |-> TRUE], !.chapters = 0]
\* "15 tips" of which four come, "12 ways" of which seven are titled nine, "10 apps" of which two come
Fifteen == [Reply EXCEPT !.hook = 15, !.items = 4]
Twelve == [Reply EXCEPT !.hook = 12, !.promise = 9, !.items = 7]
Ten == [Reply EXCEPT !.hook = 10, !.items = 2]
Mute == [Reply EXCEPT !.cta = [line |-> NoCta, phrase |-> FALSE], !.lines = <<"a">>, !.tags = 30]
Text == [json |-> FALSE, lines |-> <<"a", "b", "a", "b">>]

MCDrafts == {Reply, Follows, Unmarked, Mute, Fifteen, Twelve, Ten, Text}
MCExpansions == {[Reply EXCEPT !.lines = <<"a", "b", "a", "b">>], [Mute EXCEPT !.claim = 1], Text}
MCEvaluations == {[json |-> FALSE], [json |-> TRUE, overall |-> 0, mean |-> 80],
                  [json |-> TRUE, overall |-> 69, mean |-> 80]}
MCCleanings == {<<>>, <<"a">>, <<"a", "leak">>, <<"b", "a", "b", "a", "b", "a">>}
=============================================================================
