------------------------- MODULE MCTriggerReconcile -------------------------
(* One environment and two trigger nodes, the second a rename of the       *)
(* first: two accounts of an app that upserts, two of an app that refuses, *)
(* one of an app that says nothing of a failed delete, and a poll.         *)
EXTENDS TriggerReconcile

Apps == [s \in Setup |-> CASE s \in {"tag", "tag2"} -> "typeform" [] s \in {"hook", "hook2"} -> "github" [] s = "issue" -> "linear" [] s = "feed" -> "rss"]
At(k, s) == [n \in Key |-> IF n = k THEN s ELSE None]
Triggers ==
  [v \in Version |-> CASE v = "v_tag" -> At("n1", "tag")
                       [] v = "v_tag2" -> At("n1", "tag2")
                       [] v = "v_hook" -> At("n1", "hook")
                       [] v = "v_hook2" -> At("n1", "hook2")
                       [] v = "v_issue" -> At("n1", "issue")
                       [] v = "v_feed" -> At("n1", "feed")
                       [] v = "v_renamed" -> At("n2", "tag")]
=============================================================================
