----------------------------- MODULE MeshSearch -----------------------------
(***************************************************************************)
(* The search trees of a mesh: the two Kdtree objects of MeshPrivate       *)
(* (src/src/mesh_private.cpp, src/src/kdtree_private.cpp) beside the nodes *)
(* and elements they were built from.                                      *)
(*                                                                         *)
(* A tree copies the points it is built from and answers with positions in *)
(* that copy.  It is built by the first search, or by hand, and forgotten  *)
(* by read() only.  Lookups and the element table neither read nor change  *)
(* a tree and their calls are left out of this composition.                *)
(***************************************************************************)
EXTENDS Mesh

VARIABLES
  nodalSearchTree,       \* m_nodalSearchTree
  elementalSearchTree,   \* m_elementalSearchTree
  handled                \* history: a tree was built or deleted by hand since read()

trees      == <<nodalSearchTree, elementalSearchTree>>
searchVars == <<vars, trees, handled>>

(* A tree is an object behind a pointer, and holds so many points. *)
EmptyTree  == [state |-> "empty", points |-> 0]
NullTree   == [state |-> "null", points |-> 0]
Built(n)   == [state |-> "built", points |-> n]

InitSearch ==
  /\ Init
  /\ nodalSearchTree = EmptyTree
  /\ elementalSearchTree = EmptyTree
  /\ handled = FALSE

(* Mutant of NewTrees: the elemental tree is kept. *)
NewTreesKept ==
  /\ nodalSearchTree' = EmptyTree
  /\ UNCHANGED elementalSearchTree

(* Mutant of NewTrees: the trees are released and not made anew. *)
NewTreesNull ==
  /\ nodalSearchTree' = NullTree
  /\ elementalSearchTree' = NullTree

(* _init(), which read() starts with, makes two new trees. *)
NewTrees ==
  /\ nodalSearchTree' = EmptyTree
  /\ elementalSearchTree' = EmptyTree

ReadMesh == Read /\ NewTrees /\ handled' = FALSE
EditMesh == Edit /\ UNCHANGED <<trees, handled>>

OnlyTrees == Running /\ UNCHANGED <<stores, numbers, around, since>>
ByHand    == OnlyTrees /\ handled' = TRUE
InSearch  == OnlyTrees /\ UNCHANGED handled

(* build() on a built tree frees it and then calls through the pointer. *)
Rebuilt(tree, points) == IF tree.state = "empty" THEN Built(points) ELSE NullTree

(* What a search makes of a tree. *)
Searched(tree, points) == IF tree.state = "empty" THEN Built(points) ELSE tree

BuildNodalSearchTree ==
  /\ ByHand
  /\ nodalSearchTree' = Rebuilt(nodalSearchTree, Len(nodes))
  /\ ret' = IF nodalSearchTree.state = "empty" THEN "ok" ELSE "dead"
  /\ UNCHANGED elementalSearchTree

DeleteNodalSearchTree ==
  /\ ByHand
  /\ nodalSearchTree' = IF nodalSearchTree.state = "built" THEN NullTree ELSE nodalSearchTree
  /\ ret' = IF nodalSearchTree.state = "null" THEN "dead" ELSE "ok"
  /\ UNCHANGED elementalSearchTree

(* A search in a tree without points fails or finds nothing. *)
FindNearestNode ==
  /\ InSearch
  /\ nodalSearchTree' = Searched(nodalSearchTree, Len(nodes))
  /\ ret' \in IF nodalSearchTree.state = "null" THEN {"dead"}
              ELSE IF nodalSearchTree'.points = 0 THEN {"ok", "error"} ELSE {"ok"}
  /\ UNCHANGED elementalSearchTree

(* The centre of an element is read through its vertices. *)
ElementsRead == IF AllSound THEN {} ELSE {"dead"}

BuildElementalSearchTree ==
  /\ ByHand
  /\ elementalSearchTree' = Rebuilt(elementalSearchTree, Len(elements))
  /\ ret' \in ElementsRead \cup {IF elementalSearchTree.state = "empty" THEN "ok" ELSE "dead"}
  /\ UNCHANGED nodalSearchTree

DeleteElementalSearchTree ==
  /\ ByHand
  /\ elementalSearchTree' = IF elementalSearchTree.state = "built" THEN NullTree
                              ELSE elementalSearchTree
  /\ ret' = IF elementalSearchTree.state = "null" THEN "dead" ELSE "ok"
  /\ UNCHANGED nodalSearchTree

(* findElement() asks the nearest elements in turn whether the point is in; *)
(* element() throws for a position past the end.                            *)
FindElement ==
  LET tree == Searched(elementalSearchTree, Len(elements))
      gone == tree.points > Len(elements)
  IN /\ InSearch
     /\ elementalSearchTree' = tree
     /\ IF tree.state = "null" THEN ret' = "dead"
        ELSE \/ ret' \in ElementsRead
             \/ ret' = "error" /\ (gone \/ tree.points = 0)
             \/ ret' = "ok" /\ ~(gone /\ elements = <<>>)
     /\ UNCHANGED nodalSearchTree

(* findNearestElement() calls itself once the tree is built. *)
FindNearestElement ==
  /\ InSearch
  /\ elementalSearchTree' = Searched(elementalSearchTree, Len(elements))
  /\ ret' \in ElementsRead \cup
       {IF elementalSearchTree.state = "null" THEN "dead" ELSE "overflow"}
  /\ UNCHANGED nodalSearchTree

NextSearch ==
  \/ ReadMesh \/ EditMesh
  \/ BuildNodalSearchTree \/ DeleteNodalSearchTree \/ FindNearestNode
  \/ BuildElementalSearchTree \/ DeleteElementalSearchTree
  \/ FindElement \/ FindNearestElement

SearchSpec == InitSearch /\ [][NextSearch]_searchVars

(***************************************************************************)
(* Properties.                                                             *)
(***************************************************************************)

(* A search cannot answer with a position past the end of the nodes or the *)
(* elements unless the caller took some away since the last read(): a tree *)
(* built from a larger mesh does not outlive the reading of a smaller one, *)
(* also when that reading fails half way.                                  *)
TreesFit ==
  ~taken => /\ nodalSearchTree.points <= Len(nodes)
            /\ elementalSearchTree.points <= Len(elements)

(* While every element has its vertices, the process dies in a search or   *)
(* in the handling of a tree only when that tree was built or deleted by   *)
(* hand before: reading and editing never take a tree away.                *)
SearchDeathExplained == ret = "dead" => handled \/ ~AllSound
=============================================================================
