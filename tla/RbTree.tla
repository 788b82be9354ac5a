------------------------------- MODULE RbTree -------------------------------
(***************************************************************************)
(* RbTree (utils/rbtree.hpp), the tree of the timers, as operators on a    *)
(* record of its pointers.  The two directions are told apart by a name,   *)
(* so that rotateLeft and rotateRight are one operator.                    *)
(***************************************************************************)
EXTENDS Naturals, Sequences

CONSTANTS
  Nodes,   \* the values that can be in the tree
  Nil      \* nullptr

ASSUME TreeAssumption == Nil \notin Nodes

Sides == {"left", "right"}
Opp(d) == IF d = "left" THEN "right" ELSE "left"

Trees ==
  [root : Nodes \cup {Nil}, kid : [Sides -> [Nodes -> Nodes \cup {Nil}]],
   parent : [Nodes -> Nodes \cup {Nil}], color : [Nodes -> {"red", "black"}]]

NoTree ==
  [root |-> Nil, kid |-> [d \in Sides |-> [n \in Nodes |-> Nil]],
   parent |-> [n \in Nodes |-> Nil], color |-> [n \in Nodes |-> "red"]]

TreeEmpty(t) == t.root = Nil

\* Mutant: a moved subtree keeps its old parent.
SetParentForgets(t, n, p) == t

SetParent(t, n, p) == IF n = Nil THEN t ELSE [t EXCEPT !.parent[n] = p]

SetColor(t, n, c) == [t EXCEPT !.color[n] = c]

(* The link that led to n leads to c.                                      *)
Relink(t, n, c) ==
  LET p == t.parent[n]
  IN [t EXCEPT !.kid[IF t.kid["left"][p] = n THEN "left" ELSE "right"][p] = c]

(* rotateLeft (d = "left") and rotateRight: n goes down on side d.         *)
Rotate(t, d, n) ==
  LET c == t.kid[Opp(d)][n]
      b == t.kid[d][c]
      t1 == SetParent(SetParent([t EXCEPT !.kid[Opp(d)][n] = b], b, n), c, t.parent[n])
      t2 == IF t.parent[n] = Nil THEN [t1 EXCEPT !.root = c] ELSE Relink(t1, n, c)
  IN [t2 EXCEPT !.kid[d][c] = n, !.parent[n] = c]

(* The loop of fixViolation from node n.                                   *)
Fix[t \in Trees, n \in Nodes] ==
  IF n = t.root \/ t.color[n] = "black" \/ t.color[t.parent[n]] = "black"
  THEN SetColor(t, t.root, "black")
  ELSE LET p == t.parent[n]
           g == t.parent[p]
           d == IF p = t.kid["left"][g] THEN "left" ELSE "right"
           u == t.kid[Opp(d)][g]
       IN IF u # Nil /\ t.color[u] = "red"
          THEN Fix[[t EXCEPT !.color = [@ EXCEPT ![g] = "red", ![p] = "black", ![u] = "black"]], g]
          ELSE LET bent == n = t.kid[Opp(d)][p]
                   t1 == IF bent THEN Rotate(t, d, p) ELSE t
                   q == IF bent THEN n ELSE p
                   t2 == Rotate(t1, Opp(d), g)
               IN Fix[[t2 EXCEPT !.color = [@ EXCEPT ![q] = t2.color[g], ![g] = t2.color[q]]], q]

\* Mutant: a value goes before the ones equal to it.
SideBeforeEqual(key, n, c) == IF key[n] <= key[c] THEN "left" ELSE "right"

(* The way down from c for n: compare(n, c).                               *)
Side(key, n, c) == IF key[n] < key[c] THEN "left" ELSE "right"

(* The fields of a node that nothing refers to, which doInsert sets anew.  *)
Cleared(t, n) ==
  [t EXCEPT !.kid = [d \in Sides |-> [@[d] EXCEPT ![n] = Nil]],
            !.parent[n] = Nil, !.color[n] = "red"]

(* doInsert: down to a leaf, to the left of what is greater, then          *)
(* fixViolation.                                                           *)
Insert(t, n, key) ==
  LET Down[c \in Nodes] ==
        LET k == t.kid[Side(key, n, c)][c] IN IF k = Nil THEN c ELSE Down[k]
      p == IF TreeEmpty(t) THEN Nil ELSE Down[t.root]
      t0 == [Cleared(t, n) EXCEPT !.parent[n] = p]
  IN Fix[IF p = Nil THEN [t0 EXCEPT !.root = n]
                    ELSE [t0 EXCEPT !.kid[Side(key, n, p)][p] = n], n]

TwoChildren(t, n) == \A d \in Sides : t.kid[d][n] # Nil

(* getFront(), from node n.                                                *)
Leftmost(t, n) ==
  LET Down[c \in Nodes] == IF t.kid["left"][c] = Nil THEN c ELSE Down[t.kid["left"][c]]
  IN Down[n]

Front(t) == Leftmost(t, t.root)

(* The end of doErase: child takes the place of n, whose color was c.      *)
Unlink(t, n, child, c) ==
  LET t1 == SetParent(t, child, t.parent[n])
      t2 == IF n = t.root THEN [t1 EXCEPT !.root = child] ELSE Relink(t1, n, child)
  IN IF c = "black" /\ t2.root # Nil
     THEN Fix[t2, IF child # Nil THEN child ELSE t.parent[n]]
     ELSE t2

(* The branch of doErase for a node with two children: the successor r     *)
(* takes the place of n, but its rbParent stays what it was, and so do the *)
(* links the end of doErase follows.  When n is the root and r not its     *)
(* child, the write through n->rbParent is one through nullptr, and the    *)
(* program ends there: the tree is left as it is.                          *)
EraseInner(t, n) ==
  LET r == Leftmost(t, t.kid["right"][n])
      deep == t.parent[r] # n
      t1 == IF deep
            THEN [t EXCEPT !.kid["left"][t.parent[n]] = t.kid["right"][r],
                           !.kid["right"][r] = t.kid["right"][n],
                           !.parent[t.kid["right"][n]] = r]
            ELSE t
      t2 == IF n = t.root THEN [t1 EXCEPT !.root = r] ELSE Relink(t1, n, r)
      t3 == [t2 EXCEPT !.kid["left"][r] = t.kid["left"][n],
                       !.parent[t.kid["left"][n]] = r]
  IN IF deep /\ n = t.root THEN t
     ELSE Unlink(t3, r, t3.kid["right"][r], t.color[r])

(* doErase.                                                                *)
Erase(t, n) ==
  IF TwoChildren(t, n) THEN EraseInner(t, n)
  ELSE LET child == IF t.kid["left"][n] # Nil THEN t.kid["left"][n] ELSE t.kid["right"][n]
       IN Cleared(Unlink(t, n, child, t.color[n]), n)

(* The values in order (traverseInorder).                                  *)
InOrder(t) ==
  LET From[c \in Nodes \cup {Nil}] ==
        IF c = Nil THEN <<>> ELSE From[t.kid["left"][c]] \o <<c>> \o From[t.kid["right"][c]]
  IN From[t.root]
=============================================================================
