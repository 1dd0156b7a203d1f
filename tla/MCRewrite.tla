----------------------------- MODULE MCRewrite -----------------------------
(* Small histories for Rewrite: main has one commit of its own, topic two  *)
(* that touch the same file, or none at all.                               *)
EXTENDS Rewrite

F == "f"
G == "g"
Root == <<[msg |-> "root", tree |-> {}]>>
One == [msg |-> "one", tree |-> {<<"one", F>>}]
Two == [msg |-> "two", tree |-> {<<"one", F>>, <<"two", F>>, <<"two", G>>}]
Ahead == [msg |-> "main", tree |-> {<<"main", F>>}]
Aside == [msg |-> "main", tree |-> {<<"main", G>>}]
Picked == [msg |-> "one", tree |-> {<<"main", G>>, <<"one", F>>}]

Topic == Root \o <<One, Two>>
Diverged == [main |-> Append(Root, Ahead), topic |-> Topic]
Overlapping == [main |-> Root \o <<Aside, Picked>>, topic |-> Topic]
Behind == [main |-> Root \o <<Aside, Picked>>, topic |-> Append(Root, Aside)]
Unborn == [main |-> Append(Root, Ahead), topic |-> Root]

AllStarts == {Diverged, Overlapping, Behind, Unborn}
============================================================================
