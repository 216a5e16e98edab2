--------------------------- MODULE MCNodalAttributes ---------------------------
(***************************************************************************)
(* Files of two attributes, one of a single value and one of two, over two *)
(* or three nodes: sound, in another order, naming what they lack, cut.    *)
(***************************************************************************)
EXTENDS NodalAttributes

One(n, v)    == [name |-> n, size |-> 1, default |-> <<v>>]
Pair(n, v)   == [name |-> n, size |-> 2, default |-> <<v, v>>]
E(node, vs)  == [node |-> node, values |-> vs]
Sec(n, es)   == [name |-> n, count |-> Len(es), entries |-> es]
F(nodes, hs, ss, bad) ==
  [nodes |-> nodes, count |-> Len(hs), header |-> hs, body |-> ss, bad |-> bad]

HAB == <<One("a", 0), Pair("b", 0)>>
HBA == <<Pair("b", 1), One("a", 1)>>

Sound    == F(2, HAB, <<Sec("a", <<E(2, <<1>>)>>), Sec("b", <<E(1, <<0, 1>>), E(1, <<1, 0>>)>>)>>, "nothing")
Other    == F(2, HBA, <<Sec("b", <<E(2, <<0, 1>>)>>), Sec("a", <<>>)>>, "nothing")
Single   == F(2, <<One("a", 1)>>, <<Sec("a", <<E(2, <<0>>)>>)>>, "nothing")
Swapped  == F(2, HAB, <<Sec("b", <<E(1, <<0, 1>>)>>), Sec("a", <<>>)>>, "nothing")
Misnamed == F(2, <<One("a", 0)>>, <<Sec("b", <<E(1, <<1>>)>>)>>, "nothing")
Strange  == F(2, <<One("a", 0)>>, <<Sec("a", <<E(3, <<1>>)>>)>>, "nothing")
Scrambled == F(2, <<One("a", 0)>>, <<Sec("a", <<E(7, <<1>>), E(5, <<0>>)>>)>>, "nothing")
Cut      == F(2, HAB, <<Sec("a", <<E(1, <<1>>)>>), [Sec("b", <<E(2, <<1, 1>>)>>) EXCEPT !.count = 2]>>, "nothing")
Short    == F(2, HAB, <<Sec("a", <<>>), Sec("b", <<E(2, <<1>>)>>)>>, "nothing")
BadLast  == F(2, HAB, <<Sec("a", <<>>), Sec("b", <<>>)>>, "default")
FewLast  == F(2, <<One("a", 0), [Pair("b", 0) EXCEPT !.default = <<0>>]>>, <<Sec("a", <<>>), Sec("b", <<>>)>>, "nothing")
NoLast   == F(2, <<[One("a", 0) EXCEPT !.default = <<>>]>>, <<Sec("a", <<>>)>>, "nothing")
BadCount == F(0, <<>>, <<>>, "counts")
Larger   == F(3, HAB, <<Sec("a", <<E(3, <<1>>)>>), Sec("b", <<>>)>>, "nothing")

AllFiles == {Sound, Other, Single, Swapped, Misnamed, Strange, Scrambled, Cut, Short,
             BadLast, FewLast, NoLast, BadCount, Larger}
AllMeshes == {<<1, 2>>, <<7, 5>>, <<1, 2, 3>>}
AddedOnes == {One("a", 0), Pair("c", 1)}
=============================================================================
