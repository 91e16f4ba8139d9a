---------------------------- MODULE MCPartBuild ----------------------------
(* Instances of PartBuild for TLC: small part lists of the kinds a spec    *)
(* agent may write.                                                        *)
EXTENDS PartBuild, TLC

Part(name, generator, count) ==
  [name |-> name, generator |-> generator, count |-> count]

Body == Part(<<"body">>, "plain", 1)
Fins == Part(<<"fin">>, "counted", 2)
OneFin == Part(<<"fin">>, "counted", 0)
Named == Part(<<"fin", 1>>, "plain", 3)
Negative == Part(<<"leg">>, "counted", -1)
Unknown == Part(<<"leg">>, "python_eval", 1)
Tip == Part(<<"tip">>, "plain", 1)

(* Lists that keep to the schema: names differ after expansion.            *)
GoodLists == {<<Body, Fins>>, <<Body>>, <<Fins>>, <<Body, OneFin, Tip>>}

(* With lists no schema allows.                                            *)
AllLists == GoodLists \cup {<<>>, <<Named>>, <<Body, Body>>, <<Body, Negative>>,
                            <<Unknown>>, <<Tip, Body>>}

(* Different parts, alone legal, whose instances have the same name.       *)
ClashingLists == {<<Fins, Named>>, <<Body, Fins>>, <<OneFin>>, <<Negative>>}

Interchangeable == Permutations(Builds)
=============================================================================
