--------------------------- MODULE Folders_proofs ----------------------------
(***************************************************************************)
(* Proofs about module Folders: the folders are a sound tree whatever is   *)
(* called and posted, the service implements FolderTree, and a sidebar     *)
(* that is through with its loads shows what is stored.                    *)
(***************************************************************************)
EXTENDS Folders, FiniteSetTheorems, SequenceTheorems, TLAPS

USE FoldersAssumption DEF OrNone, Tree

Above(f, t) == _get_ancestor_ids(f, t)

-----------------------------------------------------------------------------
(* Ancestors.                                                              *)

\* The ancestors of a folder contain their own parents.
LEMMA AboveClosed ==
    ASSUME NEW t \in Tree, NEW f \in FolderIds
    PROVE  /\ Above(f, t) \in ClosedUpwards(t)
           /\ t[f] # None => t[f] \in Above(f, t)
           /\ t[f] = None => Above(f, t) = {}
  BY DEF Above, _get_ancestor_ids, ClosedUpwards

\* They are in every set that contains the parent and is closed.
LEMMA AboveLeast ==
    ASSUME NEW t \in Tree, NEW f \in FolderIds, NEW S \in ClosedUpwards(t),
           t[f] \in OrNone(S)
    PROVE  Above(f, t) \subseteq S
  BY DEF Above, _get_ancestor_ids, ClosedUpwards

\* The parent and the parent's ancestors are all there are.
LEMMA AboveStep ==
    ASSUME NEW t \in Tree, NEW f \in FolderIds, t[f] # None
    PROVE  Above(f, t) = {t[f]} \cup Above(t[f], t)
<1> DEFINE S == {t[f]} \cup Above(t[f], t)
<1>1. t[f] \in FolderIds
  OBVIOUS
<1>2. S \in ClosedUpwards(t)
  BY <1>1, AboveClosed DEF ClosedUpwards, Above, _get_ancestor_ids
<1>3. Above(f, t) \subseteq S
  BY <1>2, AboveLeast
<1>4. t[f] \in Above(f, t) /\ Above(f, t) \in ClosedUpwards(t)
  BY AboveClosed
<1>5. Above(t[f], t) \subseteq Above(f, t)
  BY <1>1, <1>4, AboveLeast DEF ClosedUpwards
<1> QED
  BY <1>3, <1>4, <1>5

\* The ancestors of an ancestor are ancestors.
LEMMA AboveTransitive ==
    ASSUME NEW t \in Tree, NEW f \in FolderIds, NEW g \in Above(f, t)
    PROVE  g \in FolderIds /\ Above(g, t) \subseteq Above(f, t)
<1>1. g \in FolderIds
  BY DEF Above, _get_ancestor_ids
<1>2. Above(f, t) \in ClosedUpwards(t)
  BY AboveClosed
<1> QED
  BY <1>1, <1>2, AboveLeast DEF ClosedUpwards

\* Of two ancestors one is above the other.
LEMMA AboveLinear ==
    ASSUME NEW t \in Tree, NEW f \in FolderIds, NEW g \in Above(f, t), NEW h \in Above(f, t)
    PROVE  h \in Above(g, t) \/ h = g \/ g \in Above(h, t)
<1> DEFINE S == {y \in Above(f, t) : y \in Above(g, t) \/ y = g \/ g \in Above(y, t)}
<1>1. t[f] # None /\ t[f] \in FolderIds
  BY AboveClosed
<1>2. t[f] \in S
  BY <1>1, AboveStep, AboveClosed
<1>3. ASSUME NEW y \in S, t[y] # None
      PROVE  t[y] \in S
  <2>1. y \in FolderIds /\ t[y] \in FolderIds /\ t[y] \in Above(f, t) /\ g \in FolderIds
    BY <1>3, AboveClosed, AboveTransitive DEF ClosedUpwards
  <2>2. CASE y \in Above(g, t)
    BY <2>1, <2>2, <1>3, AboveClosed DEF ClosedUpwards
  <2>3. CASE y = g
    BY <2>1, <2>3, <1>3, AboveClosed
  <2>4. CASE g \in Above(y, t)
    BY <2>1, <2>4, <1>3, AboveStep
  <2> QED
    BY <2>2, <2>3, <2>4
<1>4. S \in ClosedUpwards(t)
  BY <1>3 DEF ClosedUpwards, Above, _get_ancestor_ids
<1>5. Above(f, t) \subseteq S
  BY <1>2, <1>4, AboveLeast
<1> QED
  BY <1>5

-----------------------------------------------------------------------------
(* Sound trees.                                                            *)

\* What the walks find of every folder in F, and that there is nothing else.
Sound(F, t) ==
    /\ \A f \in F : /\ t[f] \in OrNone(F)
                    /\ f \notin Above(f, t)
                    /\ _get_depth(f, t) < MaxDepth
    /\ \A f \in FolderIds \ F : t[f] = None

\* A level for every folder, below MaxDepth and beyond that of its parent.
Ranked(F, t) ==
    \E rank \in [FolderIds -> 0 .. MaxDepth - 1] :
       \A f \in F : t[f] # None => t[f] \in F /\ rank[t[f]] < rank[f]

\* The number of ancestors is such a level.
LEMMA SoundIsRanked ==
    ASSUME NEW F \in SUBSET FolderIds, NEW t \in Tree, Sound(F, t)
    PROVE  Ranked(F, t)
<1> DEFINE rank == [f \in FolderIds |-> IF f \in F THEN _get_depth(f, t) ELSE 0]
<1>1. \A f \in FolderIds : IsFiniteSet(Above(f, t)) /\ Cardinality(Above(f, t)) \in Nat
  BY FS_Subset, FS_CardinalityType DEF Above, _get_ancestor_ids
<1>2. \A f \in FolderIds : _get_depth(f, t) = Cardinality(Above(f, t))
  BY DEF Above, _get_depth
<1>3. rank \in [FolderIds -> 0 .. MaxDepth - 1]
  BY <1>1, <1>2 DEF Sound
<1>4. ASSUME NEW f \in F, t[f] # None
      PROVE  t[f] \in F /\ rank[t[f]] < rank[f]
  <2>1. t[f] \in F /\ t[f] \in FolderIds /\ t[f] \notin Above(t[f], t)
    BY <1>4 DEF Sound
  <2>2. Above(f, t) = Above(t[f], t) \cup {t[f]}
    BY <1>4, AboveStep
  <2>3. Cardinality(Above(f, t)) = Cardinality(Above(t[f], t)) + 1
    BY <2>1, <2>2, <1>1, FS_AddElement
  <2> QED
    BY <2>1, <2>3, <1>1, <1>2
<1> QED
  BY <1>3, <1>4 DEF Ranked

LEMMA Below ==
    ASSUME NEW n \in Nat
    PROVE  IsFiniteSet(0 .. n - 1) /\ Cardinality(0 .. n - 1) = n
<1>1. 0 \in Int /\ n - 1 \in Int
  OBVIOUS
<1> QED
  BY <1>1, FS_Interval

LEMMA OneMore ==
    ASSUME NEW S, IsFiniteSet(S), NEW x, NEW T, T = S \cup {x}
    PROVE  /\ IsFiniteSet(T) /\ Cardinality(T) \in Nat /\ Cardinality(S) \in Nat
           /\ Cardinality(T) <= Cardinality(S) + 1
           /\ x \notin S => Cardinality(T) = Cardinality(S) + 1
<1>1. IsFiniteSet(T) /\ Cardinality(T) = IF x \in S THEN Cardinality(S)
                                          ELSE Cardinality(S) + 1
  BY FS_AddElement
<1>2. Cardinality(S) \in Nat
  BY FS_CardinalityType
<1> QED
  BY <1>1, <1>2

\* Where there is a level for every folder the walks end below MaxDepth.
LEMMA RankedIsSound ==
    ASSUME NEW F \in SUBSET FolderIds, NEW t \in Tree, Ranked(F, t),
           \A f \in FolderIds \ F : t[f] = None
    PROVE  Sound(F, t)
<1> PICK rank \in [FolderIds -> 0 .. MaxDepth - 1] :
        \A f \in F : t[f] # None => t[f] \in F /\ rank[t[f]] < rank[f]
  BY DEF Ranked
<1>1. ASSUME NEW f \in F
      PROVE  \A g \in Above(f, t) : g \in F /\ rank[g] < rank[f]
  <2> DEFINE S == {g \in F : rank[g] < rank[f]}
  <2>1. S \in ClosedUpwards(t)
    BY DEF ClosedUpwards
  <2>2. CASE t[f] = None
    BY <2>2, AboveClosed
  <2>3. CASE t[f] # None
    BY <2>1, <2>3, AboveLeast
  <2> QED
    BY <2>2, <2>3
<1>2. ASSUME NEW f \in F
      PROVE  _get_depth(f, t) < MaxDepth
  <2> DEFINE A == Above(f, t)
             level == [g \in A |-> rank[g]]
  <2>1. A \subseteq F
    BY <1>1
  <2>2. level \in [A -> 0 .. rank[f] - 1]
    BY <1>1, <2>1
  <2>3. \A g, h \in A : level[g] = level[h] => g = h
    <3> SUFFICES ASSUME NEW g \in A, NEW h \in A, g # h PROVE rank[g] # rank[h]
      OBVIOUS
    <3>1. h \in Above(g, t) \/ g \in Above(h, t)
      BY AboveLinear
    <3> QED
      BY <3>1, <2>1, <1>1
  <2>4. IsFiniteSet(0 .. rank[f] - 1) /\ Cardinality(0 .. rank[f] - 1) = rank[f]
    <3>1. rank[f] \in Nat
      OBVIOUS
    <3> QED
      BY <3>1, Below
  <2>5. IsFiniteSet(A) /\ Cardinality(A) \in Nat
    BY <2>1, FS_Subset, FS_CardinalityType
  <2>6. Cardinality(A) <= rank[f]
    <3>1. level \in Injection(A, 0 .. rank[f] - 1)
      BY <2>2, <2>3 DEF Injection, IsInjective
    <3> QED
      BY <3>1, <2>4, FS_Injection
  <2> QED
    BY <2>5, <2>6 DEF _get_depth, Above
<1> QED
  BY <1>1, <1>2 DEF Sound

\* What is not beneath f keeps its ancestors when f alone gets another parent.
LEMMA AboveSame ==
    ASSUME NEW t \in Tree, NEW f \in FolderIds, NEW u \in Tree,
           \A y \in FolderIds \ {f} : u[y] = t[y],
           NEW h \in FolderIds, h # f, f \notin Above(h, t)
    PROVE  Above(h, u) = Above(h, t)
<1>1. u[h] = t[h]
  OBVIOUS
<1>2. CASE t[h] = None
  BY <1>1, <1>2, AboveClosed
<1>3. CASE t[h] # None
  <2>1. Above(h, t) \in ClosedUpwards(u) /\ u[h] \in Above(h, t)
    BY <1>1, <1>3, AboveClosed DEF ClosedUpwards
  <2>2. Above(h, u) \subseteq Above(h, t)
    BY <1>1, <2>1, AboveLeast
  <2>3. Above(h, u) \in ClosedUpwards(t) /\ t[h] \in Above(h, u)
    <3>1. Above(h, u) \in ClosedUpwards(u) /\ u[h] \in Above(h, u)
      BY <1>1, <1>3, AboveClosed
    <3>2. \A y \in Above(h, u) : u[y] = t[y]
      BY <2>2, <3>1 DEF ClosedUpwards
    <3> QED
      BY <3>1, <3>2, <1>1 DEF ClosedUpwards
  <2>4. Above(h, t) \subseteq Above(h, u)
    BY <2>3, AboveLeast
  <2> QED
    BY <2>2, <2>4
<1> QED
  BY <1>2, <1>3

\* The ancestors of what is in a sound tree are in it, and can be counted.
LEMMA SoundAbove ==
    ASSUME NEW F \in SUBSET FolderIds, NEW t \in Tree, Sound(F, t), NEW h \in F
    PROVE  /\ Above(h, t) \subseteq F
           /\ IsFiniteSet(Above(h, t))
           /\ _get_depth(h, t) = Cardinality(Above(h, t))
           /\ _get_depth(h, t) \in Nat
<1>1. F \in ClosedUpwards(t) /\ t[h] \in OrNone(F)
  BY DEF Sound, ClosedUpwards
<1>2. Above(h, t) \subseteq F
  BY <1>1, AboveLeast
<1> QED
  BY <1>2, FS_Subset, FS_CardinalityType DEF _get_depth, Above

LEMMA CreateSound ==
    ASSUME NEW F \in SUBSET FolderIds, NEW t \in Tree, Sound(F, t),
           NEW f \in FolderIds \ F, NEW g \in OrNone(F),
           g # None => _get_depth(g, t) + 1 < MaxDepth
    PROVE  Sound(F \cup {f}, [t EXCEPT ![f] = g])
<1> DEFINE u == [t EXCEPT ![f] = g]
<1>1. u \in Tree /\ u[f] = g /\ \A h \in FolderIds \ {f} : u[h] = t[h]
  OBVIOUS
<1> HIDE DEF u
<1>2. ASSUME NEW h \in F
      PROVE  h # f /\ Above(h, u) = Above(h, t) /\ _get_depth(h, u) = _get_depth(h, t)
  <2>1. h # f /\ f \notin Above(h, t)
    BY SoundAbove
  <2>2. Above(h, u) = Above(h, t)
    BY <1>1, <2>1, AboveSame
  <2> QED
    BY <2>1, <2>2 DEF _get_depth, Above
<1>3. f \notin Above(f, u) /\ _get_depth(f, u) < MaxDepth
  <2>1. CASE g = None
    <3>1. Above(f, u) = {}
      BY <1>1, <2>1, AboveClosed
    <3>2. _get_depth(f, u) = 0
      BY <3>1, FS_EmptySet DEF _get_depth, Above
    <3> QED
      BY <3>1, <3>2
  <2>2. CASE g # None
    <3>1. g \in F /\ Above(f, u) = {g} \cup Above(g, t)
      BY <1>1, <1>2, <2>2, AboveStep
    <3>2. Above(g, t) \subseteq F /\ IsFiniteSet(Above(g, t)) /\ g \notin Above(g, t)
          /\ _get_depth(g, t) = Cardinality(Above(g, t)) /\ _get_depth(g, t) \in Nat
      BY <3>1, SoundAbove DEF Sound
    <3>3. Above(f, u) = Above(g, t) \cup {g}
      BY <3>1
    <3>4. _get_depth(f, u) = _get_depth(g, t) + 1
      <4>1. Cardinality(Above(f, u)) = Cardinality(Above(g, t)) + 1
        BY <3>3, <3>2, OneMore
      <4> QED
        BY <4>1, <3>2 DEF _get_depth, Above
    <3>5. f \notin Above(f, u)
      BY <3>1, <3>2, <3>3
    <3> QED
      BY <2>2, <3>2, <3>4, <3>5
  <2> QED
    BY <2>1, <2>2
<1> QED
  BY <1>1, <1>2, <1>3 DEF Sound, u

\* The folder and all that is beneath it go: nothing that is left was in one of them.
LEMMA DeleteSound ==
    ASSUME NEW F \in SUBSET FolderIds, NEW t \in Tree, Sound(F, t), NEW f \in F,
           NEW D, D = {f} \cup (_collect_descendants(f, t) \cap F)
    PROVE  /\ Sound(F \ D, [g \in FolderIds |-> IF g \in D THEN None ELSE t[g]])
           /\ \A y \in F : y \in D <=> y = f \/ t[y] \in D
<1> DEFINE u == [g \in FolderIds |-> IF g \in D THEN None ELSE t[g]]
<1>1. \A y \in F : y \in D <=> y = f \/ f \in Above(y, t)
  BY DEF _collect_descendants, Above
<1>2. ASSUME NEW y \in F
      PROVE  y \in D <=> y = f \/ t[y] \in D
  <2>1. CASE t[y] = None
    <3>1. None \notin D
      BY DEF _collect_descendants
    <3> QED
      BY <1>1, <2>1, <3>1, AboveClosed
  <2>2. CASE t[y] # None
    <3>1. t[y] \in F
      BY <2>2 DEF Sound
    <3>2. Above(y, t) = {t[y]} \cup Above(t[y], t)
      BY <2>2, AboveStep
    <3> QED
      BY <1>1, <3>1, <3>2
  <2> QED
    BY <2>1, <2>2
<1>3. u \in Tree
  OBVIOUS
<1>4. ASSUME NEW y \in F \ D
      PROVE  /\ u[y] \in OrNone(F \ D)
             /\ Above(y, u) \subseteq Above(y, t)
  <2>1. u[y] = t[y] /\ t[y] \in OrNone(F)
    BY DEF Sound
  <2>2. Above(y, t) \in ClosedUpwards(u) /\ u[y] \in OrNone(Above(y, t))
    BY <2>1, AboveClosed DEF ClosedUpwards
  <2>3. Above(y, u) \subseteq Above(y, t)
    BY <1>3, <2>2, AboveLeast
  <2> QED
    BY <1>2, <2>1, <2>3
<1>5. ASSUME NEW y \in F \ D
      PROVE  y \notin Above(y, u) /\ _get_depth(y, u) < MaxDepth
  <2>1. y \notin Above(y, t) /\ IsFiniteSet(Above(y, t)) /\ Cardinality(Above(y, t)) < MaxDepth
        /\ Cardinality(Above(y, t)) \in Nat
    BY SoundAbove DEF Sound
  <2>2. Cardinality(Above(y, u)) <= Cardinality(Above(y, t)) /\ Cardinality(Above(y, u)) \in Nat
    BY <1>4, <2>1, FS_Subset, FS_CardinalityType
  <2> QED
    BY <1>4, <2>1, <2>2 DEF _get_depth, Above
<1>6. \A y \in FolderIds \ (F \ D) : u[y] = None
  BY DEF Sound
<1> QED
  BY <1>2, <1>4, <1>5, <1>6 DEF Sound

\* f is put under g, which is not beneath it, and its subtree is not too deep there.
LEMMA UpdateSound ==
    ASSUME NEW F \in SUBSET FolderIds, NEW t \in Tree, Sound(F, t),
           NEW f \in F, NEW g \in OrNone(F),
           g # None => f \notin Above(g, t) \cup {g} /\ ~TooDeep(f, g, t)
    PROVE  Sound(F, [t EXCEPT ![f] = g])
<1> DEFINE u == [t EXCEPT ![f] = g]
<1>1. u \in Tree /\ u[f] = g /\ \A h \in FolderIds \ {f} : u[h] = t[h]
  OBVIOUS
<1> HIDE DEF u
<1>2. /\ g = None => Above(f, u) = {}
      /\ g # None => Above(f, u) = {g} \cup Above(g, t)
  <2>1. CASE g = None
    BY <2>1, <1>1, AboveClosed
  <2>2. CASE g # None
    <3>1. Above(f, u) = {g} \cup Above(g, u)
      BY <2>2, <1>1, AboveStep
    <3>2. Above(g, u) = Above(g, t)
      BY <1>1, <2>2, AboveSame
    <3> QED
      BY <2>2, <3>1, <3>2
  <2> QED
    BY <2>1, <2>2
<1>3. ASSUME NEW h \in F, h # f, f \notin Above(h, t)
      PROVE  h \notin Above(h, u) /\ _get_depth(h, u) < MaxDepth
  <2>1. Above(h, u) = Above(h, t)
    BY <1>1, <1>3, AboveSame
  <2>2. h \notin Above(h, t) /\ _get_depth(h, t) < MaxDepth
    BY DEF Sound
  <2> QED
    BY <2>1, <2>2 DEF _get_depth, Above
<1>4. ASSUME NEW h \in F, h = f \/ f \in Above(h, t)
      PROVE  h \notin Above(h, u) /\ _get_depth(h, u) < MaxDepth
  <2> DEFINE B == Above(h, t) \ Above(f, t)
             T == B \cup Above(f, u)
  <2>1. ASSUME NEW y \in FolderIds, y # f, f \in Above(y, t)
        PROVE  t[y] # None /\ t[y] \in Above(y, t) /\ t[y] \notin Above(f, t)
    <3>1. t[y] # None /\ t[y] \in Above(y, t) /\ Above(y, t) = {t[y]} \cup Above(t[y], t)
      BY <2>1, AboveClosed, AboveStep
    <3>2. f \notin Above(f, t)
      BY DEF Sound
    <3> QED
      BY <2>1, <3>1, <3>2, AboveTransitive
  <2>2. T \in ClosedUpwards(u)
    <3>1. T \subseteq FolderIds
      BY DEF Above, _get_ancestor_ids
    <3>2. ASSUME NEW y \in B
          PROVE  u[y] \in OrNone(T)
      <4>1. CASE y = f
        BY <1>1, <4>1, AboveClosed
      <4>2. CASE y # f
        <5>1. h # f
          BY <3>2, <1>4
        <5>2. f \in Above(h, t) /\ y \in FolderIds /\ y \in Above(h, t)
          BY <5>1, <1>4, <3>1
        <5>3. f \in Above(y, t)
          BY <5>2, <4>2, <3>2, AboveLinear
        <5>4. t[y] # None /\ t[y] \notin Above(f, t)
          BY <5>2, <5>3, <4>2, <2>1
        <5>5. t[y] \in Above(h, t)
          BY <5>2, <5>4, AboveClosed DEF ClosedUpwards
        <5> QED
          BY <1>1, <4>2, <5>2, <5>4, <5>5
      <4> QED
        BY <4>1, <4>2
    <3>3. \A y \in Above(f, u) : u[y] \in OrNone(Above(f, u))
      BY <1>1, AboveClosed DEF ClosedUpwards
    <3> QED
      BY <3>1, <3>2, <3>3 DEF ClosedUpwards
  <2>3. u[h] \in OrNone(T)
    <3>1. CASE h = f
      BY <3>1, <1>1, AboveClosed
    <3>2. CASE h # f
      BY <3>2, <1>4, <1>1, <2>1
    <3> QED
      BY <3>1, <3>2
  <2>4. Above(h, u) \subseteq T
    <3> HIDE DEF T
    <3> QED
      BY <1>1, <2>2, <2>3, AboveLeast
  <2>5. h \notin T
    <3>1. h \notin Above(h, t)
      BY DEF Sound
    <3>2. CASE g = None
      BY <3>1, <3>2, <1>2
    <3>3. CASE g # None
      <4>1. h # g /\ h \notin Above(g, t)
        BY <3>3, <1>4, AboveTransitive
      <4> QED
        BY <3>1, <3>3, <4>1, <1>2
    <3> QED
      BY <3>2, <3>3
  <2>6. Above(f, t) \subseteq Above(h, t)
    BY <1>4, AboveTransitive
  <2>7. /\ IsFiniteSet(Above(h, t)) /\ IsFiniteSet(Above(f, t))
        /\ _get_depth(h, t) = Cardinality(Above(h, t)) /\ _get_depth(h, t) \in Nat
        /\ _get_depth(f, t) = Cardinality(Above(f, t)) /\ _get_depth(f, t) \in Nat
        /\ _get_depth(h, t) < MaxDepth
    BY SoundAbove DEF Sound
  <2>8. IsFiniteSet(B) /\ Cardinality(B) = _get_depth(h, t) - _get_depth(f, t)
    <3>1. Above(h, t) \cap Above(f, t) = Above(f, t)
      BY <2>6
    <3> QED
      BY <3>1, <2>7, FS_Difference
  <2>9. IsFiniteSet(T) /\ Cardinality(T) < MaxDepth
    <3>1. CASE g = None
      <4>1. T = B
        BY <3>1, <1>2
      <4>2. Cardinality(B) <= Cardinality(Above(h, t))
        BY <2>7, FS_Subset
      <4> HIDE DEF B, T
      <4> QED
        BY <4>1, <4>2, <2>7, <2>8
    <3>2. CASE g # None
      <4>1. IsFiniteSet(Above(g, t)) /\ _get_depth(g, t) = Cardinality(Above(g, t))
            /\ _get_depth(g, t) \in Nat
        BY <3>2, SoundAbove
      <4>2. IsFiniteSet(Above(f, u)) /\ Cardinality(Above(f, u)) <= _get_depth(g, t) + 1
            /\ Cardinality(Above(f, u)) \in Nat
        <5>1. Above(f, u) = Above(g, t) \cup {g}
          BY <3>2, <1>2
        <5> QED
          BY <5>1, <4>1, OneMore
      <4>3. IsFiniteSet(B \cap Above(f, u)) /\ Cardinality(B \cap Above(f, u)) \in Nat
        BY <2>8, FS_Subset, FS_CardinalityType
      <4>4. Cardinality(B \cup Above(f, u)) = Cardinality(B) + Cardinality(Above(f, u))
                                                - Cardinality(B \cap Above(f, u))
            /\ IsFiniteSet(B \cup Above(f, u))
        BY <4>2, <2>8, FS_Union
      <4>5. _get_depth(g, t) + 1 + (_get_depth(h, t) - _get_depth(f, t)) < MaxDepth
        <5>1. h \in _collect_descendants(f, t) \cup {f}
          BY <1>4 DEF _collect_descendants, Above
        <5>2. ~ (_get_depth(g, t) + 1 + (_get_depth(h, t) - _get_depth(f, t)) >= MaxDepth)
          BY <3>2, <5>1 DEF TooDeep
        <5> QED
          BY <5>2, <4>1, <2>7
      <4> HIDE DEF B
      <4> QED
        BY <4>1, <4>2, <4>3, <4>4, <4>5, <2>7, <2>8
    <3> QED
      BY <3>1, <3>2
  <2>10. Cardinality(Above(h, u)) <= Cardinality(T) /\ Cardinality(T) \in Nat
         /\ Cardinality(Above(h, u)) \in Nat
    BY <2>4, <2>9, FS_Subset, FS_CardinalityType
  <2> HIDE DEF T
  <2> QED
    BY <2>4, <2>5, <2>9, <2>10 DEF _get_depth, Above
<1>5. \A h \in F : u[h] \in OrNone(F)
  BY <1>1 DEF Sound
<1>6. \A h \in FolderIds \ F : u[h] = None
  BY <1>1 DEF Sound
<1> QED
  BY <1>3, <1>4, <1>5, <1>6 DEF Sound, u

-----------------------------------------------------------------------------
(* The service.                                                            *)

\* The inductive invariant: nothing about the pages is needed, they may post anything.
TreeInv ==
    /\ folders \subseteq made /\ made \subseteq FolderIds
    /\ parent \in Tree
    /\ filed \in [Rooms -> OrNone(folders)]
    /\ Sound(folders, parent)

LEMMA InvIsSoundTree == TreeInv => SoundTree
<1> SUFFICES ASSUME TreeInv PROVE SoundTree
  OBVIOUS
<1>1. Ranked(folders, parent)
  BY SoundIsRanked DEF TreeInv
<1> QED
  BY <1>1 DEF TreeInv, SoundTree, Abstract!Forest, Abstract!Placed, Abstract!Ranks, Ranked

LEMMA InitInv == Init => TreeInv
<1> SUFFICES ASSUME Init PROVE TreeInv
  OBVIOUS
<1>1. /\ folders \in SUBSET FolderIds /\ made = folders
      /\ parent \in Tree /\ filed \in [Rooms -> OrNone(folders)]
      /\ \A f \in FolderIds \ folders : parent[f] = None
  BY DEF Init, Abstract!Init
<1>2. Ranked(folders, parent)
  BY DEF Init, Abstract!Init, Abstract!Forest, Abstract!Ranks, Ranked
<1> QED
  BY <1>1, <1>2, RankedIsSound DEF TreeInv

LEMMA CreateStep ==
    ASSUME TreeInv, NEW f \in FolderIds, NEW g \in OrNone(made), NEW R, NEW by,
           CreateFolder(f, g, R, by)
    PROVE  TreeInv' /\ Abstract!Add
<1>1. /\ f \in FolderIds \ folders /\ g \in OrNone(folders)
      /\ g # None => _get_depth(g, parent) + 1 < MaxDepth
      /\ folders' = folders \cup {f} /\ made' = made \cup {f}
      /\ parent' = [parent EXCEPT ![f] = g] /\ filed' = filed
  BY DEF CreateFolder, TreeInv
<1>2. Sound(folders', parent')
  BY <1>1, CreateSound DEF TreeInv
<1>3. TreeInv'
  BY <1>1, <1>2 DEF TreeInv
<1>4. Ranked(folders', parent')
  BY <1>2, <1>3, SoundIsRanked DEF TreeInv
<1>5. \A h \in folders : parent'[h] = parent[h]
  BY <1>1 DEF TreeInv
<1> QED
  BY <1>1, <1>3, <1>4, <1>5
     DEF Abstract!Add, Abstract!Forest, Abstract!Ranks, Ranked

\* Whatever keeps the folders and leaves a sound tree is a rearrangement.
LEMMA Rearranged ==
    ASSUME TreeInv, folders' = folders, made' = made, parent' \in Tree,
           filed' \in [Rooms -> OrNone(folders)], Sound(folders, parent')
    PROVE  TreeInv' /\ Abstract!Rearrange
<1>1. TreeInv'
  BY DEF TreeInv
<1>2. Ranked(folders', parent')
  BY SoundIsRanked DEF TreeInv
<1> QED
  BY <1>1, <1>2
     DEF Abstract!Rearrange, Abstract!Forest, Abstract!Placed, Abstract!Ranks, Ranked

LEMMA UpdateStep ==
    ASSUME TreeInv, NEW f \in FolderIds, NEW g \in OrNone(made), NEW R,
           UpdateFolder(f, g, R)
    PROVE  TreeInv' /\ Abstract!Rearrange
<1>1. /\ f \in folders /\ g \in OrNone(folders)
      /\ g # None => f \notin Above(g, parent) \cup {g} /\ ~TooDeep(f, g, parent)
      /\ folders' = folders /\ made' = made /\ filed' = filed
      /\ parent' = [parent EXCEPT ![f] = g]
  BY DEF UpdateFolder, Above
<1>2. Sound(folders, parent')
  BY <1>1, UpdateSound DEF TreeInv
<1>3. parent' \in Tree
  BY <1>1 DEF TreeInv
<1> QED
  BY <1>1, <1>2, <1>3, Rearranged DEF TreeInv

LEMMA MoveStep ==
    ASSUME TreeInv, NEW r \in Rooms, NEW g, NEW R, MoveRoom(r, g, R)
    PROVE  TreeInv' /\ Abstract!Rearrange
  BY Rearranged DEF TreeInv, MoveRoom

LEMMA ReorderStep ==
    ASSUME TreeInv, NEW p \in Pages, NEW R, NEW by, Reorder(p, R, by)
    PROVE  TreeInv' /\ Abstract!Rearrange
<1> DEFINE l == posts[p][1]
<1>1. /\ folders' = folders /\ made' = made /\ parent' = Proposed(l)
      /\ filed' = [r \in Rooms |-> l.filed[r]] /\ Acceptable(l)
  BY DEF Reorder
<1> HIDE DEF l
<1>2. \A f \in FolderIds \ folders : parent'[f] = None
  BY <1>1 DEF Proposed, TreeInv, Sound
<1>3. \A f \in folders : /\ parent'[f] \in OrNone(folders)
                         /\ f \notin Above(f, parent')
                         /\ _get_depth(f, parent') < MaxDepth
  BY <1>1 DEF Acceptable, Above
<1>4. parent' \in Tree
  BY <1>1, <1>2, <1>3 DEF Proposed, TreeInv
<1>5. filed' \in [Rooms -> OrNone(folders)]
  BY <1>1 DEF Acceptable
<1> QED
  BY <1>1, <1>2, <1>3, <1>4, <1>5, Rearranged DEF Sound

LEMMA DeleteStep ==
    ASSUME TreeInv, NEW f \in FolderIds, NEW R, NEW by, DeleteFolder(f, R, by)
    PROVE  TreeInv' /\ Abstract!Delete
<1> DEFINE D == Doomed(f)
<1>1. D = {f} \cup (_collect_descendants(f, parent) \cap folders)
  BY DEF Doomed
<1>2. /\ f \in folders /\ folders' = folders \ D /\ made' = made
      /\ parent' = [g \in FolderIds |-> IF g \in D THEN None ELSE parent[g]]
      /\ filed' = [r \in Rooms |-> IF filed[r] \in D THEN None ELSE filed[r]]
  BY DEF DeleteFolder
<1> HIDE DEF D
<1>3. /\ Sound(folders', parent')
      /\ \A y \in folders : y \in D <=> y = f \/ parent[y] \in D
  BY <1>1, <1>2, DeleteSound DEF TreeInv
<1>4. TreeInv'
  BY <1>2, <1>3 DEF TreeInv
<1>5. Abstract!IsSubtree(D, f) /\ D \in SUBSET folders
  BY <1>1, <1>2, <1>3 DEF Abstract!IsSubtree
<1>6. \A g \in folders' : parent'[g] = parent[g]
  BY <1>2 DEF TreeInv
<1>7. \A r \in Rooms : filed'[r] = IF filed[r] \in D THEN None ELSE filed[r]
  BY <1>2
<1> QED
  BY <1>2, <1>4, <1>5, <1>6, <1>7 DEF Abstract!Delete

\* A step of the page alone leaves the service as it is.
LEMMA Step ==
    ASSUME TreeInv, [Next]_vars
    PROVE  TreeInv' /\ [Abstract!Next]_<<folders, parent, filed>>
<1> USE DEF Abstract!Next
<1>1. ASSUME UNCHANGED server
      PROVE  TreeInv' /\ [Abstract!Next]_<<folders, parent, filed>>
  BY <1>1 DEF TreeInv, server, Sound
<1>2. ASSUME NEW R \in SUBSET Pages, Change(R)
      PROVE  TreeInv' /\ [Abstract!Next]_<<folders, parent, filed>>
  BY <1>2, CreateStep, UpdateStep, DeleteStep, MoveStep
     DEF Change, Request, CreateInPage, DeleteInPage
<1>3. ASSUME NEW p \in Pages, Sidebar(p)
      PROVE  TreeInv' /\ [Abstract!Next]_<<folders, parent, filed>>
  <2>1. CASE \E R \in SUBSET Pages, by \in {{}, {p}} : Reorder(p, R, by)
    BY <2>1, ReorderStep
  <2>2. CASE ~ \E R \in SUBSET Pages, by \in {{}, {p}} : Reorder(p, R, by)
    <3>1. UNCHANGED server
      BY <1>3, <2>2 DEF Sidebar, ReadRooms, ReadTree, Draw, LoadFails, DragRoom, DragFolder,
                        Drag, ReorderRefused, ReorderLost, Reload
    <3> QED
      BY <3>1, <1>1
  <2> QED
    BY <2>1, <2>2
<1>4. CASE UNCHANGED vars
  BY <1>4, <1>1 DEF vars
<1> QED
  BY <1>2, <1>3, <1>4 DEF Next

\* The folders are a forest of at most MaxDepth levels and every channel is in one of
\* them or in none, whatever the pages post: for any number of folders and pages and
\* any MAX_NESTING_DEPTH.
THEOREM FoldersAreSound == Spec => []SoundTree
<1>1. TreeInv /\ [Next]_vars => TreeInv'
  BY Step
<1> QED
  BY <1>1, InitInv, InvIsSoundTree, PTL DEF Spec

\* The service implements FolderTree.
THEOREM FoldersKeepPromise == Spec => KeepsPromise
<1>1. Init => Abstract!Init
  BY DEF Init
<1>2. TreeInv /\ [Next]_vars => TreeInv'
  BY Step
<1>3. TreeInv /\ [Next]_vars => [Abstract!Next]_<<folders, parent, filed>>
  BY Step
<1> QED
  BY <1>1, <1>2, <1>3, InitInv, PTL DEF Spec, KeepsPromise, Abstract!Spec

-----------------------------------------------------------------------------
(* The sidebars.                                                           *)

\* A load that has read nothing but what is stored now.
Current(load) == load.rooms \in {Unread, filed} /\ load.tree \in {Unread, Stored}

\* A page that was told of everything shows what is stored, or the youngest of its
\* loads is younger than what it shows and will draw what is stored.
Fresh(p) ==
    ~excused[p] =>
       IF late[p] = Len(loads[p]) THEN posts[p] = <<>> => view[p] = Stored
       ELSE Current(loads[p][Len(loads[p])])

PagesTyped ==
    /\ loads \in [Pages -> Seq(Load)]
    /\ late \in [Pages -> Nat]
    /\ \A p \in Pages : late[p] <= Len(loads[p])
    /\ DOMAIN view = Pages /\ DOMAIN posts = Pages /\ DOMAIN excused = Pages

FreshInv == TreeInv /\ PagesTyped /\ \A p \in Pages : Fresh(p)

LEMMA AskedIsLoad == Asked \in Load
  BY DEF Asked, Load

LEMMA StoredIsLayout == TreeInv => Stored \in Layout /\ filed \in Filing
  BY DEF TreeInv, Stored, Layout, Filing

\* The loads asked for come last.
LEMMA Asks ==
    ASSUME NEW s \in Seq(Load), NEW a \in {<<>>, <<Asked>>}, NEW b \in {<<>>, <<Asked>>},
           NEW t, t = s \o a \o b
    PROVE  /\ t \in Seq(Load)
           /\ Len(t) >= Len(s)
           /\ a # <<>> \/ b # <<>> => Len(t) > Len(s) /\ t[Len(t)] = Asked
<1> USE AskedIsLoad
<1>1. CASE a = <<>> /\ b = <<>>
  <2>1. t = s
    BY <1>1
  <2> QED
    BY <1>1, <2>1
<1>2. CASE a = <<Asked>> /\ b = <<>>
  <2>1. t = Append(s, Asked)
    BY <1>2
  <2> QED
    BY <2>1
<1>3. CASE a = <<>> /\ b = <<Asked>>
  <2>1. t = Append(s, Asked)
    BY <1>3
  <2> QED
    BY <2>1
<1>4. CASE a = <<Asked>> /\ b = <<Asked>>
  <2>1. t = Append(Append(s, Asked), Asked)
    BY <1>4
  <2> QED
    BY <2>1
<1> QED
  BY <1>1, <1>2, <1>3, <1>4

\* What is taken out shortens a sequence by one; the last of it stays the last.
LEMMA Removed ==
    ASSUME NEW S, NEW s \in Seq(S), NEW i \in 1 .. Len(s), NEW t, t = RemoveAt(s, i)
    PROVE  /\ t \in Seq(S) /\ Len(t) = Len(s) - 1
           /\ i < Len(s) => t[Len(t)] = s[Len(s)]
<1> DEFINE a == SubSeq(s, 1, i - 1)
           b == SubSeq(s, i + 1, Len(s))
<1>1. a \in Seq(S) /\ Len(a) = i - 1
  OBVIOUS
<1>2. /\ b \in Seq(S) /\ Len(b) = Len(s) - i
      /\ \A j \in 1 .. Len(s) - i : b[j] = s[j + i]
  OBVIOUS
<1> HIDE DEF a, b
<1>3. t = a \o b
  BY DEF RemoveAt, a, b
<1>4. /\ t \in Seq(S) /\ Len(t) = Len(a) + Len(b)
      /\ \A j \in 1 .. Len(a) + Len(b) : t[j] = IF j <= Len(a) THEN a[j] ELSE b[j - Len(a)]
  <2>1. /\ a \o b \in Seq(S) /\ Len(a \o b) = Len(a) + Len(b)
        /\ \A j \in 1 .. Len(a) + Len(b) :
              (a \o b)[j] = IF j <= Len(a) THEN a[j] ELSE b[j - Len(a)]
    BY <1>1, <1>2, ConcatProperties
  <2> QED
    BY <1>3, <2>1
<1>5. Len(t) = Len(s) - 1 /\ Len(s) \in Nat
  BY <1>1, <1>2, <1>4
<1>6. ASSUME i < Len(s)
      PROVE  t[Len(t)] = s[Len(s)]
  <2>1. /\ Len(t) \in 1 .. Len(a) + Len(b) /\ ~(Len(t) <= Len(a))
        /\ Len(t) - Len(a) = Len(s) - i /\ Len(s) - i \in 1 .. Len(s) - i
    BY <1>1, <1>2, <1>5, <1>6
  <2>2. t[Len(t)] = b[Len(s) - i]
    BY <2>1, <1>4
  <2>3. b[Len(s) - i] = s[Len(s) - i + i]
    BY <2>1, <1>2
  <2>4. Len(s) - i + i = Len(s)
    BY <1>5
  <2> QED
    BY <2>2, <2>3, <2>4
<1> QED
  BY <1>4, <1>5, <1>6

\* The current answers of a sound service are drawn as they are.
LEMMA DrawnIsStored ==
    ASSUME TreeInv, NEW load, load.rooms = filed, load.tree = Stored
    PROVE  Drawn(load) = Stored
<1>1. \A f \in FolderIds : parent[f] \in OrNone(folders)
  BY DEF TreeInv, Sound
<1>2. \A r \in Rooms : filed[r] \in OrNone(folders)
  BY DEF TreeInv
<1>3. None \notin folders
  BY DEF TreeInv
<1>4. parent = [f \in FolderIds |-> IF parent[f] \in folders THEN parent[f] ELSE None]
  BY <1>1 DEF TreeInv
<1>5. filed = [r \in Rooms |-> LET w == IF filed[r] # None THEN filed[r] ELSE filed[r]
                               IN IF w \in folders THEN w ELSE None]
  BY <1>2 DEF TreeInv
<1>6. load.tree.folders = folders /\ load.tree.parent = parent /\ load.tree.filed = filed
  BY DEF Stored
<1> QED
  BY <1>4, <1>5, <1>6 DEF Drawn, Stored

LEMMA InitFresh == Init => FreshInv
<1> SUFFICES ASSUME Init PROVE FreshInv
  OBVIOUS
<1>1. TreeInv
  BY InitInv
<1>2. PagesTyped
  BY DEF Init, PagesTyped
<1>3. \A p \in Pages : Fresh(p)
  <2> SUFFICES ASSUME NEW p \in Pages PROVE Fresh(p)
    OBVIOUS
  <2>1. late[p] = 0 /\ loads[p] = <<>> /\ view[p] = Stored
    BY DEF Init
  <2> QED
    BY <2>1 DEF Fresh
<1> QED
  BY <1>1, <1>2, <1>3 DEF FreshInv

\* However the folders were changed, a page that is told of it has asked, and one that
\* is not is excused.
LEMMA NotifyFresh ==
    ASSUME PagesTyped, NEW R, NEW by, Notify(R, by), view' = view, late' = late,
           DOMAIN posts' = Pages
    PROVE  PagesTyped' /\ \A p \in Pages : Fresh(p)'
<1> DEFINE told(p) == IF p \in R THEN <<Asked>> ELSE <<>>
           self(p) == IF p \in by THEN <<Asked>> ELSE <<>>
<1>1. ASSUME NEW p \in Pages
      PROVE  /\ loads'[p] \in Seq(Load) /\ Len(loads'[p]) >= Len(loads[p])
             /\ p \in R \cup by => /\ Len(loads'[p]) > Len(loads[p])
                                   /\ loads'[p][Len(loads'[p])] = Asked
  <2>1. told(p) \in {<<>>, <<Asked>>} /\ self(p) \in {<<>>, <<Asked>>}
    OBVIOUS
  <2>2. loads'[p] = loads[p] \o told(p) \o self(p)
    BY DEF Notify
  <2>3. loads[p] \in Seq(Load)
    BY DEF PagesTyped
  <2>4. <<Asked>> # <<>>
    OBVIOUS
  <2>5. p \in R \cup by => told(p) # <<>> \/ self(p) # <<>>
    BY <2>4
  <2> HIDE DEF told, self
  <2> QED
    BY <2>1, <2>2, <2>3, <2>5, Asks
<1>2. loads' \in [Pages -> Seq(Load)]
  <2>1. loads' = [p \in Pages |-> loads'[p]]
    BY DEF Notify
  <2> QED
    BY <2>1, <1>1
<1>3. DOMAIN excused' = Pages /\ \A p \in Pages \ (R \cup by) : excused'[p]
  BY DEF Notify
<1>4. \A p \in Pages : /\ Len(loads[p]) \in Nat /\ Len(loads'[p]) \in Nat
                       /\ late[p] \in Nat /\ late[p] <= Len(loads[p])
  BY <1>1 DEF PagesTyped
<1>5. PagesTyped'
  BY <1>1, <1>2, <1>3, <1>4 DEF PagesTyped
<1>6. ASSUME NEW p \in Pages, p \in R \cup by
      PROVE  Fresh(p)'
  <2>1. late'[p] # Len(loads'[p]) /\ loads'[p][Len(loads'[p])] = Asked
    BY <1>1, <1>4, <1>6
  <2>2. Asked.rooms = Unread /\ Asked.tree = Unread
    BY DEF Asked
  <2> QED
    BY <2>1, <2>2 DEF Fresh, Current
<1>7. ASSUME NEW p \in Pages, p \notin R \cup by
      PROVE  Fresh(p)'
  BY <1>3, <1>7 DEF Fresh
<1> QED
  BY <1>5, <1>6, <1>7

\* A page whose own state a step leaves alone is as fresh as it was, where nothing
\* stored changes.
LEMMA StaysFresh ==
    ASSUME NEW q, Fresh(q), UNCHANGED server, view'[q] = view[q], loads'[q] = loads[q],
           late'[q] = late[q], posts'[q] = posts[q], excused'[q] = excused[q]
    PROVE  Fresh(q)'
  BY DEF Fresh, Current, Stored, server

\* Half an answer of a load is what is stored.
LEMMA ReadRoomsFresh ==
    ASSUME FreshInv, NEW p \in Pages, NEW i \in DOMAIN loads[p], ReadRooms(p, i)
    PROVE  PagesTyped' /\ \A q \in Pages : Fresh(q)'
<1> DEFINE load == loads[p][i]
           s == [loads[p] EXCEPT ![i].rooms = filed]
<1>1. /\ loads' = [loads EXCEPT ![p] = s] /\ UNCHANGED <<server, view, late, posts, excused>>
  BY DEF ReadRooms
<1>2. loads[p] \in Seq(Load) /\ i \in 1 .. Len(loads[p]) /\ load \in Load
  BY DEF FreshInv, PagesTyped
<1>3. filed \in Filing
  BY StoredIsLayout DEF FreshInv
<1>4. [load EXCEPT !.rooms = filed] \in Load
  BY <1>2, <1>3 DEF Load
<1>5. /\ s \in Seq(Load) /\ Len(s) = Len(loads[p])
      /\ s[i].rooms = filed /\ s[i].tree = load.tree
      /\ \A j \in 1 .. Len(s) : j # i => s[j] = loads[p][j]
  BY <1>2, <1>4 DEF Load
<1> HIDE DEF s, load
<1>6. loads'[p] = s /\ \A q \in Pages \ {p} : loads'[q] = loads[q]
  BY <1>1 DEF FreshInv, PagesTyped
<1>7. PagesTyped'
  BY <1>1, <1>5, <1>6 DEF FreshInv, PagesTyped
<1>8. Fresh(p)'
  <2>1. CASE excused[p] \/ late[p] = Len(loads[p])
    BY <2>1, <1>1, <1>5, <1>6 DEF FreshInv, Fresh, Stored, server
  <2>2. CASE ~excused[p] /\ late[p] # Len(loads[p])
    <3> DEFINE n == Len(s)
    <3>1. n \in 1 .. Len(s)
      BY <1>2, <1>5
    <3>2. Current(loads[p][n])
      BY <2>2, <1>5 DEF FreshInv, Fresh
    <3>3. s[n].rooms \in {Unread, filed} /\ s[n].tree \in {Unread, Stored}
      BY <3>1, <3>2, <1>5 DEF Current, load
    <3> QED
      BY <2>2, <3>3, <1>1, <1>5, <1>6 DEF Fresh, Current, Stored, server
  <2> QED
    BY <2>1, <2>2
<1>9. ASSUME NEW q \in Pages \ {p}
      PROVE  Fresh(q)'
  BY <1>1, <1>6, StaysFresh DEF FreshInv
<1> QED
  BY <1>7, <1>8, <1>9

LEMMA ReadTreeFresh ==
    ASSUME FreshInv, NEW p \in Pages, NEW i \in DOMAIN loads[p], ReadTree(p, i)
    PROVE  PagesTyped' /\ \A q \in Pages : Fresh(q)'
<1> DEFINE load == loads[p][i]
           s == [loads[p] EXCEPT ![i].tree = Stored]
<1>1. /\ loads' = [loads EXCEPT ![p] = s] /\ UNCHANGED <<server, view, late, posts, excused>>
  BY DEF ReadTree
<1>2. loads[p] \in Seq(Load) /\ i \in 1 .. Len(loads[p]) /\ load \in Load
  BY DEF FreshInv, PagesTyped
<1>3. Stored \in Layout
  BY StoredIsLayout DEF FreshInv
<1>4. [load EXCEPT !.tree = Stored] \in Load
  BY <1>2, <1>3 DEF Load
<1>5. /\ s \in Seq(Load) /\ Len(s) = Len(loads[p])
      /\ s[i].tree = Stored /\ s[i].rooms = load.rooms
      /\ \A j \in 1 .. Len(s) : j # i => s[j] = loads[p][j]
  BY <1>2, <1>4 DEF Load
<1> HIDE DEF s, load
<1>6. loads'[p] = s /\ \A q \in Pages \ {p} : loads'[q] = loads[q]
  BY <1>1 DEF FreshInv, PagesTyped
<1>7. PagesTyped'
  BY <1>1, <1>5, <1>6 DEF FreshInv, PagesTyped
<1>8. Fresh(p)'
  <2>1. CASE excused[p] \/ late[p] = Len(loads[p])
    BY <2>1, <1>1, <1>5, <1>6 DEF FreshInv, Fresh, Stored, server
  <2>2. CASE ~excused[p] /\ late[p] # Len(loads[p])
    <3> DEFINE n == Len(s)
    <3>1. n \in 1 .. Len(s)
      BY <1>2, <1>5
    <3>2. Current(loads[p][n])
      BY <2>2, <1>5 DEF FreshInv, Fresh
    <3>3. s[n].rooms \in {Unread, filed} /\ s[n].tree \in {Unread, Stored}
      BY <3>1, <3>2, <1>5 DEF Current, load
    <3> QED
      BY <2>2, <3>3, <1>1, <1>5, <1>6 DEF Fresh, Current, Stored, server
  <2> QED
    BY <2>1, <2>2
<1>9. ASSUME NEW q \in Pages \ {p}
      PROVE  Fresh(q)'
  BY <1>1, <1>6, StaysFresh DEF FreshInv
<1> QED
  BY <1>7, <1>8, <1>9

\* What is drawn last is what is stored, or something is drawn later.
LEMMA DrawFresh ==
    ASSUME FreshInv, NEW p \in Pages, NEW i \in DOMAIN loads[p], Draw(p, i)
    PROVE  PagesTyped' /\ \A q \in Pages : Fresh(q)'
<1> DEFINE load == loads[p][i]
           s == loads[p]
           t == RemoveAt(s, i)
           over == (excused[p] \/ i <= late[p]) /\ (view'[p] # Stored \/ loads'[p] # <<>>)
<1>1. /\ Unread \notin {load.rooms, load.tree}
      /\ view' = [view EXCEPT ![p] = Drawn(load)]
      /\ loads' = [loads EXCEPT ![p] = t]
      /\ late' = [late EXCEPT ![p] = IF i > late[p] THEN i - 1 ELSE late[p] - 1]
      /\ excused' = [excused EXCEPT ![p] = over]
      /\ UNCHANGED <<server, posts>>
  BY DEF Draw
<1>2. /\ s \in Seq(Load) /\ i \in 1 .. Len(s) /\ Len(s) \in Nat
      /\ late[p] \in Nat /\ late[p] <= Len(s)
  BY DEF FreshInv, PagesTyped
<1>3. t \in Seq(Load) /\ Len(t) = Len(s) - 1 /\ (i < Len(s) => t[Len(t)] = s[Len(s)])
  BY <1>2, Removed
<1>4. /\ loads'[p] = t /\ view'[p] = Drawn(load) /\ excused'[p] = over
      /\ late'[p] = IF i > late[p] THEN i - 1 ELSE late[p] - 1
      /\ \A q \in Pages \ {p} : /\ loads'[q] = loads[q] /\ view'[q] = view[q]
                                /\ late'[q] = late[q] /\ excused'[q] = excused[q]
  BY <1>1 DEF FreshInv, PagesTyped
<1>5. Stored' = Stored
  BY <1>1 DEF Stored, server
<1> HIDE DEF t
<1>6. PagesTyped'
  BY <1>1, <1>2, <1>3, <1>4 DEF FreshInv, PagesTyped
<1>7. Fresh(p)'
  <2> SUFFICES ASSUME ~excused'[p]
               PROVE  IF late'[p] = Len(t) THEN posts'[p] = <<>> => view'[p] = Stored
                      ELSE Current(t[Len(t)])
    BY <1>1, <1>4, <1>5 DEF Fresh, Current, server
  <2>1. CASE (excused[p] \/ i <= late[p])
    <3>1. view'[p] = Stored /\ t = <<>>
      BY <2>1, <1>4
    <3>2. Len(t) = 0 /\ Len(s) = 1 /\ i = 1
      BY <3>1, <1>2, <1>3
    <3>3. late'[p] = 0
      BY <3>2, <1>2, <1>4
    <3> QED
      BY <3>1, <3>2, <3>3
  <2>2. CASE ~(excused[p] \/ i <= late[p])
    <3>1. late[p] # Len(s) /\ i > late[p]
      BY <2>2, <1>2
    <3>2. Current(s[Len(s)])
      BY <2>2, <3>1 DEF FreshInv, Fresh
    <3>3. CASE i = Len(s)
      <4>1. load.rooms = filed /\ load.tree = Stored
        BY <3>2, <3>3, <1>1 DEF Current
      <4>2. view'[p] = Stored
        BY <4>1, <1>4, DrawnIsStored DEF FreshInv
      <4>3. late'[p] = Len(t)
        BY <3>1, <3>3, <1>3, <1>4
      <4> QED
        BY <4>2, <4>3
    <3>4. CASE i # Len(s)
      <4>1. i < Len(s)
        BY <3>4, <1>2
      <4>2. late'[p] # Len(t) /\ t[Len(t)] = s[Len(s)]
        BY <4>1, <3>1, <1>2, <1>3, <1>4
      <4> QED
        BY <3>2, <4>2
    <3> QED
      BY <3>3, <3>4
  <2> QED
    BY <2>1, <2>2
<1>8. ASSUME NEW q \in Pages \ {p}
      PROVE  Fresh(q)'
  BY <1>1, <1>4, StaysFresh DEF FreshInv
<1> QED
  BY <1>6, <1>7, <1>8

\* The page is excused.
LEMMA LoadFailsFresh ==
    ASSUME FreshInv, NEW p \in Pages, NEW i \in DOMAIN loads[p], LoadFails(p, i)
    PROVE  PagesTyped' /\ \A q \in Pages : Fresh(q)'
<1> DEFINE s == loads[p]
           t == RemoveAt(s, i)
<1>1. /\ loads' = [loads EXCEPT ![p] = t]
      /\ late' = [late EXCEPT ![p] = IF i > late[p] THEN late[p] ELSE late[p] - 1]
      /\ excused' = [excused EXCEPT ![p] = TRUE]
      /\ UNCHANGED <<server, view, posts>>
  BY DEF LoadFails
<1>2. /\ s \in Seq(Load) /\ i \in 1 .. Len(s) /\ Len(s) \in Nat
      /\ late[p] \in Nat /\ late[p] <= Len(s)
  BY DEF FreshInv, PagesTyped
<1>3. t \in Seq(Load) /\ Len(t) = Len(s) - 1
  BY <1>2, Removed
<1>4. /\ loads'[p] = t /\ excused'[p]
      /\ late'[p] = IF i > late[p] THEN late[p] ELSE late[p] - 1
      /\ \A q \in Pages \ {p} : /\ loads'[q] = loads[q]
                                /\ late'[q] = late[q] /\ excused'[q] = excused[q]
  BY <1>1 DEF FreshInv, PagesTyped
<1> HIDE DEF t
<1>5. PagesTyped'
  BY <1>1, <1>2, <1>3, <1>4 DEF FreshInv, PagesTyped
<1>6. Fresh(p)'
  BY <1>4 DEF Fresh
<1>7. ASSUME NEW q \in Pages \ {p}
      PROVE  Fresh(q)'
  BY <1>1, <1>4, StaysFresh DEF FreshInv
<1> QED
  BY <1>5, <1>6, <1>7

\* A page that asks again by itself.
LEMMA AskFresh ==
    ASSUME FreshInv, NEW p \in Pages, loads' = [loads EXCEPT ![p] = Append(@, Asked)],
           UNCHANGED <<server, view, late, excused>>,
           DOMAIN posts' = Pages, \A q \in Pages \ {p} : posts'[q] = posts[q]
    PROVE  PagesTyped' /\ \A q \in Pages : Fresh(q)'
<1> DEFINE t == Append(loads[p], Asked)
<1>1. loads[p] \in Seq(Load) /\ late[p] \in Nat /\ late[p] <= Len(loads[p])
  BY DEF FreshInv, PagesTyped
<1>2. t \in Seq(Load) /\ Len(t) = Len(loads[p]) + 1 /\ t[Len(t)] = Asked
  BY <1>1, AskedIsLoad
<1>3. loads'[p] = t /\ \A q \in Pages \ {p} : loads'[q] = loads[q]
  BY DEF FreshInv, PagesTyped
<1> HIDE DEF t
<1>4. PagesTyped'
  BY <1>1, <1>2, <1>3 DEF FreshInv, PagesTyped
<1>5. Fresh(p)'
  <2>1. late'[p] # Len(t)
    BY <1>1, <1>2
  <2>2. Asked.rooms = Unread /\ Asked.tree = Unread
    BY DEF Asked
  <2> QED
    BY <2>1, <2>2, <1>2, <1>3 DEF Fresh, Current
<1>6. ASSUME NEW q \in Pages \ {p}
      PROVE  Fresh(q)'
  BY <1>3, StaysFresh DEF FreshInv
<1> QED
  BY <1>4, <1>5, <1>6

\* A drag is under way until its answer is there: what is shown is the page's own.
LEMMA DragFresh ==
    ASSUME FreshInv, NEW p \in Pages, NEW l, Drag(p, l)
    PROVE  PagesTyped' /\ \A q \in Pages : Fresh(q)'
<1>1. /\ posts'[p] = <<l>> /\ UNCHANGED <<server, loads, late, excused>>
      /\ \A q \in Pages \ {p} : posts'[q] = posts[q] /\ view'[q] = view[q]
      /\ DOMAIN posts' = Pages /\ DOMAIN view' = Pages
  BY DEF Drag, FreshInv, PagesTyped
<1>2. PagesTyped'
  BY <1>1 DEF FreshInv, PagesTyped
<1>3. Fresh(p)'
  BY <1>1 DEF FreshInv, Fresh, Current, Stored, server
<1>4. ASSUME NEW q \in Pages \ {p}
      PROVE  Fresh(q)'
  BY <1>1, StaysFresh DEF FreshInv
<1> QED
  BY <1>2, <1>3, <1>4

LEMMA RefusedFresh ==
    ASSUME FreshInv, NEW p \in Pages, ReorderRefused(p)
    PROVE  PagesTyped' /\ \A q \in Pages : Fresh(q)'
<1>1. /\ excused'[p] /\ UNCHANGED <<server, view, loads, late>>
      /\ \A q \in Pages \ {p} : posts'[q] = posts[q] /\ excused'[q] = excused[q]
      /\ DOMAIN posts' = Pages /\ DOMAIN excused' = Pages
  BY DEF ReorderRefused, FreshInv, PagesTyped
<1>2. PagesTyped'
  BY <1>1 DEF FreshInv, PagesTyped
<1>3. Fresh(p)'
  BY <1>1 DEF Fresh
<1>4. ASSUME NEW q \in Pages \ {p}
      PROVE  Fresh(q)'
  BY <1>1, StaysFresh DEF FreshInv
<1> QED
  BY <1>2, <1>3, <1>4

LEMMA StepFresh ==
    ASSUME FreshInv, [Next]_vars
    PROVE  FreshInv'
<1>1. TreeInv'
  BY Step DEF FreshInv
<1>2. ASSUME NEW R \in SUBSET Pages, Change(R)
      PROVE  PagesTyped' /\ \A q \in Pages : Fresh(q)'
  <2>1. \E Q, by : Notify(Q, by) /\ view' = view /\ late' = late /\ posts' = posts
    BY <1>2 DEF Change, Request, CreateInPage, DeleteInPage, CreateFolder, UpdateFolder,
                DeleteFolder, MoveRoom
  <2> QED
    BY <2>1, NotifyFresh DEF FreshInv, PagesTyped
<1>3. ASSUME NEW p \in Pages, Sidebar(p)
      PROVE  PagesTyped' /\ \A q \in Pages : Fresh(q)'
  <2>1. ASSUME NEW i \in DOMAIN loads[p],
               ReadRooms(p, i) \/ ReadTree(p, i) \/ Draw(p, i) \/ LoadFails(p, i)
        PROVE  PagesTyped' /\ \A q \in Pages : Fresh(q)'
    BY <2>1, ReadRoomsFresh, ReadTreeFresh, DrawFresh, LoadFailsFresh
  <2>2. ASSUME \E l : Drag(p, l)
        PROVE  PagesTyped' /\ \A q \in Pages : Fresh(q)'
    BY <2>2, DragFresh
  <2>3. ASSUME NEW R, NEW by, Reorder(p, R, by)
        PROVE  PagesTyped' /\ \A q \in Pages : Fresh(q)'
    <3>1. DOMAIN posts' = Pages /\ Notify(R, by) /\ view' = view /\ late' = late
      BY <2>3 DEF Reorder, FreshInv, PagesTyped
    <3> QED
      BY <3>1, NotifyFresh DEF FreshInv
  <2>4. CASE ReorderRefused(p)
    BY <2>4, RefusedFresh
  <2>5. CASE ReorderLost(p)
    BY <2>5, AskFresh DEF ReorderLost, FreshInv, PagesTyped
  <2>6. CASE Reload(p)
    BY <2>6, AskFresh DEF Reload, FreshInv, PagesTyped
  <2>7. ASSUME NEW r \in Rooms, NEW g, DragRoom(p, r, g)
        PROVE  \E l : Drag(p, l)
    BY <2>7 DEF DragRoom
  <2>8. ASSUME NEW f, NEW g, DragFolder(p, f, g)
        PROVE  \E l : Drag(p, l)
    BY <2>8 DEF DragFolder
  <2> QED
    BY <1>3, <2>1, <2>2, <2>3, <2>4, <2>5, <2>6, <2>7, <2>8 DEF Sidebar
<1>4. CASE UNCHANGED vars
  <2>1. PagesTyped'
    BY <1>4 DEF FreshInv, PagesTyped, vars, pages
  <2>2. \A q \in Pages : Fresh(q)'
    BY <1>4, StaysFresh DEF FreshInv, vars, pages
  <2> QED
    BY <1>1, <2>1, <2>2 DEF FreshInv
<1> QED
  BY <1>1, <1>2, <1>3, <1>4 DEF FreshInv, Next

\* A page with nothing under way shows what is stored, unless it was not told, a load
\* of it failed or was overtaken, or its drag was refused: for any number of pages and
\* of loads under way, drawn in any order.
THEOREM SidebarsAreFresh == Spec => []SidebarIsFresh
<1>1. FreshInv /\ [Next]_vars => FreshInv'
  BY StepFresh
<1>2. FreshInv => SidebarIsFresh
  <2> SUFFICES ASSUME FreshInv, NEW p \in Pages, loads[p] = <<>>, posts[p] = <<>>, ~excused[p]
               PROVE  view[p] = Stored
    BY DEF SidebarIsFresh
  <2>1. late[p] \in Nat /\ late[p] <= Len(loads[p]) /\ Len(loads[p]) = 0
    BY DEF FreshInv, PagesTyped
  <2> QED
    BY <2>1 DEF FreshInv, Fresh
<1> QED
  BY <1>1, <1>2, InitFresh, PTL DEF Spec
=============================================================================
