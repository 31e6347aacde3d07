-------------------------- MODULE StepEditorProofs --------------------------
(***************************************************************************)
(* The step panel, for a pool, a page and a set of payloads of any size.   *)
(* The list and the free list are read as one enumeration g of the nodes   *)
(* of the pool: the steps in their order, then the free nodes.  Each       *)
(* function of memory.c rearranges that enumeration, so that what a walk   *)
(* over next visits, which is recursive, is known from the places of the   *)
(* nodes.  Everything else follows from the enumeration: no node is lost,  *)
(* the list is in order, the page shows it, and each key is a step of      *)
(* StepSeq.                                                                *)
(***************************************************************************)
EXTENDS StepEditor, SequenceTheorems, FiniteSetTheorems, WellFoundedInduction, TLAPS

\* The order of the naturals is well-founded.
LEMMA NatBelow == IsWellFoundedOn({p \in Nat \X Nat : p[1] < p[2]}, Nat)
BY NatLessThanWellFounded DEF OpToRel

\* A nonempty set of naturals has a least element.
LEMMA Least ==
  ASSUME NEW S \in SUBSET Nat, S # {}
  PROVE  \E x \in S : \A y \in S : x <= y
<1> DEFINE R == {p \in Nat \X Nat : p[1] < p[2]}
<1>1. IsWellFoundedOn(R, Nat)
  BY NatBelow
<1>2. \E x \in S : \A y \in S : <<y, x>> \notin R
  <2> HIDE DEF R
  <2> QED BY <1>1, WFMin
<1>3. \A x, y \in Nat : <<y, x>> \notin R => x <= y
  <2> SUFFICES ASSUME NEW x \in Nat, NEW y \in Nat, y < x PROVE <<y, x>> \in R
    OBVIOUS
  <2>1. <<y, x>> \in Nat \X Nat /\ <<y, x>>[1] = y /\ <<y, x>>[2] = x
    OBVIOUS
  <2> QED BY <2>1
<1> HIDE DEF R
<1> QED BY <1>2, <1>3

\* Induction over 0..n, as a statement about sets.
LEMMA SetInduction ==
  ASSUME NEW n \in Nat, NEW S \in SUBSET Nat, 0 \in S, \A k \in S : k < n => k + 1 \in S
  PROVE  0..n \subseteq S
<1> SUFFICES ASSUME (0..n) \ S # {} PROVE FALSE
  OBVIOUS
<1>1. PICK x \in (0..n) \ S : \A y \in (0..n) \ S : x <= y
  <2>1. (0..n) \ S \in SUBSET Nat
    OBVIOUS
  <2> QED BY <2>1, Least
<1>2. x # 0 /\ x - 1 \in 0..n /\ x - 1 \in S
  BY <1>1
<1> QED BY <1>1, <1>2

\* A function on 0..n that begins with `first` and goes on by step[1], .. step[n].
Steps(n, V) == [1..n -> [V -> V]]
Follows(f, n, first, step) == f[0] = first /\ \A k \in 1..n : f[k] = step[k][f[k - 1]]

\* A function on 0..n can be given by its first value and by the way each
\* value comes from the one before it.
LEMMA Recursion ==
  ASSUME NEW n \in Nat, NEW V, NEW first \in V, NEW step \in Steps(n, V)
  PROVE  \E f \in [0..n -> V] : Follows(f, n, first, step)
<1> USE DEF Steps
<1> DEFINE Good(m, f) == f[0] = first /\ \A k \in 1..m : f[k] = step[k][f[k - 1]]
           S == {m \in 0..n : \E f \in [0..m -> V] : Good(m, f)}
<1>1. 0 \in S
  <2>1. [k \in 0..0 |-> first] \in [0..0 -> V] /\ Good(0, [k \in 0..0 |-> first])
    OBVIOUS
  <2> HIDE DEF Good
  <2> QED BY <2>1
<1>2. ASSUME NEW m \in S, m < n
      PROVE  m + 1 \in S
  <2>1. PICK f \in [0..m -> V] : Good(m, f)
    BY <1>2
  <2> DEFINE g == [k \in 0..m + 1 |-> IF k <= m THEN f[k] ELSE step[m + 1][f[m]]]
  <2>2. g \in [0..m + 1 -> V]
    BY <1>2
  <2>3. Good(m + 1, g)
    BY <2>1, <1>2
  <2> HIDE DEF g, Good
  <2> QED BY <2>2, <2>3, <1>2
<1>3. 0..n \subseteq S
  <2> HIDE DEF S
  <2>1. S \in SUBSET Nat
    BY DEF S
  <2> QED BY <1>1, <1>2, <2>1, SetInduction
<1> QED BY <1>3 DEF Follows

-----------------------------------------------------------------------------
\* Walk is the function its recursive definition describes.
LEMMA WalkRec ==
  ASSUME NEW l, l.next \in [Nodes -> Links], NEW start \in Links
  PROVE  /\ Walk(l, start) \in [0..TOTALSTEP_NUM -> Links]
         /\ Walk(l, start)[0] = start
         /\ \A k \in 1..TOTALSTEP_NUM :
              Walk(l, start)[k] = IF Walk(l, start)[k - 1] = NULL THEN NULL
                                  ELSE l.next[Walk(l, start)[k - 1]]
<1> DEFINE T == TOTALSTEP_NUM
           Succ == [v \in Links |-> IF v = NULL THEN NULL ELSE l.next[v]]
           Def(w) == [k \in 0..T |-> IF k = 0 THEN start
                                     ELSE IF w[k - 1] = NULL THEN NULL ELSE l.next[w[k - 1]]]
<1>1. Succ \in [Links -> Links] /\ T \in Nat
  BY PoolAssumption DEF Links, NULL
<1>2. PICK f \in [0..T -> Links] : f[0] = start /\ \A k \in 1..T : f[k] = Succ[f[k - 1]]
  <2> DEFINE steps == [k \in 1..T |-> Succ]
  <2>1. steps \in [1..T -> [Links -> Links]] /\ \A k \in 1..T : steps[k] = Succ
    BY <1>1
  <2> HIDE DEF steps, Succ
  <2>2. \E f \in [0..T -> Links] : f[0] = start /\ \A k \in 1..T : f[k] = steps[k][f[k - 1]]
    <3>1. T \in Nat /\ start \in Links /\ steps \in Steps(T, Links)
      BY <1>1, <2>1 DEF Steps
    <3>2. \E f \in [0..T -> Links] : Follows(f, T, start, steps)
      BY <3>1, Recursion
    <3> QED BY <3>2 DEF Follows
  <2> QED BY <2>1, <2>2
<1>3. f = Def(f)
  <2>1. \A k \in 1..T : f[k] = IF f[k - 1] = NULL THEN NULL ELSE l.next[f[k - 1]]
    <3>1. \A k \in 1..T : f[k - 1] \in Links
      BY <1>1
    <3> QED BY <1>2, <3>1
  <2>2. \A k \in 0..T : f[k] = Def(f)[k]
    BY <1>1, <1>2, <2>1
  <2> QED BY <2>2
<1>4. Walk(l, start) = Def(Walk(l, start))
  BY <1>3 DEF Walk
<1> DEFINE w == Walk(l, start)
<1>5. /\ w[0] = start
      /\ \A k \in 1..T : w[k] = IF w[k - 1] = NULL THEN NULL ELSE l.next[w[k - 1]]
      /\ DOMAIN w = 0..T /\ w = [k \in 0..T |-> w[k]]
  <2> HIDE DEF w
  <2>1. w = Def(w)
    BY <1>4 DEF w
  <2> QED BY <2>1, <1>1
<1>6. \A k \in 0..T : w[k] \in Links
  <2> DEFINE S == {k \in Nat : k <= T => w[k] \in Links}
  <2>1. 0 \in S
    BY <1>5
  <2>2. ASSUME NEW k \in S, k < T PROVE k + 1 \in S
    <3>1. k \in Nat /\ k + 1 \in 1..T /\ w[k] \in Links
      BY <1>1, <2>2
    <3>2. w[k + 1] = IF w[k] = NULL THEN NULL ELSE l.next[w[k]]
      <4>1. (k + 1) - 1 = k
        BY <3>1
      <4> HIDE DEF w
      <4> QED BY <1>5, <3>1, <4>1
    <3> QED BY <3>1, <3>2 DEF Links, NULL
  <2>3. S \in SUBSET Nat
    OBVIOUS
  <2> HIDE DEF S
  <2>4. 0..T \subseteq S
    BY <1>1, <2>1, <2>2, <2>3, SetInduction
  <2> QED BY <1>1, <2>4 DEF S
<1> QED BY <1>5, <1>6

\* From NULL a walk goes nowhere.
LEMMA WalkNull ==
  ASSUME NEW l, l.next \in [Nodes -> Links]
  PROVE  \A k \in 0..TOTALSTEP_NUM : Walk(l, NULL)[k] = NULL
<1> DEFINE w == Walk(l, NULL)
           S == {k \in Nat : k <= TOTALSTEP_NUM => w[k] = NULL}
<1>1. NULL \in Links /\ TOTALSTEP_NUM \in Nat
  BY PoolAssumption DEF Links
<1>2. /\ w[0] = NULL
      /\ \A k \in 1..TOTALSTEP_NUM :
            w[k] = IF w[k - 1] = NULL THEN NULL ELSE l.next[w[k - 1]]
  BY <1>1, WalkRec
<1> HIDE DEF w
<1>3. ASSUME NEW k \in S, k < TOTALSTEP_NUM PROVE k + 1 \in S
  <2>1. k + 1 \in 1..TOTALSTEP_NUM /\ (k + 1) - 1 = k /\ w[k] = NULL
    BY <1>1, <1>3
  <2> QED BY <1>2, <2>1
<1>4. 0 \in S /\ S \in SUBSET Nat
  BY <1>2
<1> HIDE DEF S
<1>5. 0..TOTALSTEP_NUM \subseteq S
  BY <1>1, <1>3, <1>4, SetInduction
<1> QED BY <1>1, <1>5 DEF S, w

-----------------------------------------------------------------------------
\* The pool is one enumeration g of its nodes: first those of the list, in
\* their order, then those of the free list.
EndOf(l, i) == IF i <= l.size THEN l.size ELSE TOTALSTEP_NUM

Linking(l, g) ==
  /\ l.head = g[1] /\ l.tail = g[l.size]
  /\ l.free = IF l.size = TOTALSTEP_NUM THEN NULL ELSE g[l.size + 1]
  /\ \A i \in Nodes : l.next[g[i]] = IF i = EndOf(l, i) THEN NULL ELSE g[i + 1]
  /\ \A i \in 1..l.size : /\ l.un[g[i]].step = i
                          /\ l.prev[g[i]] = IF i = 1 THEN NULL ELSE g[i - 1]

Enumeration(g) == g \in [Nodes -> Nodes] /\ \A i, j \in Nodes : g[i] = g[j] => i = j

Rep(l, g) == l \in PoolType /\ l.size # 0 /\ Enumeration(g) /\ Linking(l, g)

\* A walk from node i of the enumeration visits the nodes behind it, up to the
\* end of the list it is in.
LEMMA WalkRep ==
  ASSUME NEW l, NEW g, Rep(l, g), NEW i \in Nodes
  PROVE  \A k \in 0..TOTALSTEP_NUM :
           Walk(l, g[i])[k] = IF i + k <= EndOf(l, i) THEN g[i + k] ELSE NULL
<1> DEFINE T == TOTALSTEP_NUM
           w == Walk(l, g[i])
           S == {k \in Nat : k <= T => w[k] = IF i + k <= EndOf(l, i) THEN g[i + k] ELSE NULL}
<1>1. /\ T \in Nat /\ i \in 1..T /\ l.size \in 1..T /\ EndOf(l, i) \in i..T
      /\ l.next \in [Nodes -> Links] /\ g \in [Nodes -> Nodes]
      /\ g[i] \in Links
  BY PoolAssumption DEF Rep, PoolType, Nodes, Links, EndOf, Enumeration
<1>2. /\ w[0] = g[i]
      /\ \A k \in 1..T : w[k] = IF w[k - 1] = NULL THEN NULL ELSE l.next[w[k - 1]]
  <2>1. l.next \in [Nodes -> Links] /\ g[i] \in Links
    BY <1>1
  <2> HIDE DEF Rep
  <2> QED BY ONLY <2>1, WalkRec
<1> HIDE DEF w
<1>3. ASSUME NEW k \in S, k < T PROVE k + 1 \in S
  <2>1. /\ k \in Nat /\ k + 1 \in 1..T /\ (k + 1) - 1 = k
        /\ w[k] = IF i + k <= EndOf(l, i) THEN g[i + k] ELSE NULL
    BY <1>1, <1>3
  <2>2. w[k + 1] = IF w[k] = NULL THEN NULL ELSE l.next[w[k]]
    BY <1>2, <2>1
  <2>3. CASE i + k <= EndOf(l, i)
    <3>1. i + k \in Nodes /\ EndOf(l, i + k) = EndOf(l, i)
      BY <1>1, <2>1, <2>3 DEF Nodes, EndOf
    <3>2. g[i + k] # NULL
      BY <1>1, <3>1 DEF Nodes, NULL
    <3>3. l.next[g[i + k]] = IF i + k = EndOf(l, i) THEN NULL ELSE g[(i + k) + 1]
      BY <3>1 DEF Rep, Linking
    <3>4. (i + k) + 1 = i + (k + 1) /\ (i + (k + 1) <= EndOf(l, i) <=> i + k # EndOf(l, i))
      BY <1>1, <2>1, <2>3
    <3> QED BY <2>1, <2>2, <2>3, <3>2, <3>3, <3>4
  <2>4. CASE ~(i + k <= EndOf(l, i))
    <3>1. ~(i + (k + 1) <= EndOf(l, i))
      BY <1>1, <2>1, <2>4
    <3> QED BY <2>1, <2>2, <2>4, <3>1
  <2> QED BY <2>3, <2>4
<1>4. 0 \in S /\ S \in SUBSET Nat
  BY <1>1, <1>2
<1> HIDE DEF S
<1>5. 0..T \subseteq S
  BY <1>1, <1>3, <1>4, SetInduction
<1> QED BY <1>1, <1>5 DEF S, w

\* The nodes a loop over the list, or over the free list, visits.
LEMMA FromRep ==
  ASSUME NEW l, NEW g, Rep(l, g)
  PROVE  /\ \A i \in Nodes : From(l, g[i]) = {g[j] : j \in i..EndOf(l, i)}
         /\ From(l, NULL) = {}
<1>1. /\ TOTALSTEP_NUM \in Nat \ {0} /\ l.size \in 1..TOTALSTEP_NUM
      /\ l.next \in [Nodes -> Links] /\ g \in [Nodes -> Nodes]
  BY PoolAssumption DEF Rep, PoolType, Enumeration
<1>2. From(l, NULL) = {}
  BY <1>1, WalkNull DEF From
<1>3. ASSUME NEW i \in Nodes
      PROVE  From(l, g[i]) = {g[j] : j \in i..EndOf(l, i)}
  <2>1. i \in 1..TOTALSTEP_NUM /\ EndOf(l, i) \in i..TOTALSTEP_NUM
    BY <1>1 DEF Nodes, EndOf
  <2>2. \A k \in 0..TOTALSTEP_NUM - 1 :
          Walk(l, g[i])[k] = IF i + k <= EndOf(l, i) THEN g[i + k] ELSE NULL
    BY <1>1, WalkRep
  <2>3. ASSUME NEW j \in i..EndOf(l, i)
        PROVE  g[j] # NULL /\ j - i \in 0..TOTALSTEP_NUM - 1 /\ i + (j - i) = j
    <3>1. /\ TOTALSTEP_NUM \in Nat /\ i \in Nat /\ j \in Int
          /\ 1 <= i /\ i <= j /\ j <= TOTALSTEP_NUM
      BY <1>1, <2>1
    <3>2. j \in Nodes /\ j - i \in 0..TOTALSTEP_NUM - 1 /\ i + (j - i) = j
      BY <3>1 DEF Nodes
    <3> QED BY <1>1, <3>2 DEF Nodes, NULL
  <2>4. From(l, g[i]) \subseteq {g[j] : j \in i..EndOf(l, i)}
    <3>1. \A k \in 0..TOTALSTEP_NUM - 1 : i + k <= EndOf(l, i) => i + k \in i..EndOf(l, i)
      BY <2>1
    <3> QED BY <2>2, <3>1 DEF From
  <2>5. ASSUME NEW j \in i..EndOf(l, i)
        PROVE  g[j] \in From(l, g[i])
    <3>1. Walk(l, g[i])[j - i] = g[j]
      BY <2>1, <2>2, <2>3
    <3> QED BY <2>3, <3>1 DEF From
  <2> QED BY <2>4, <2>5
<1> QED BY <1>2, <1>3

\* position_step finds the node of a step by its number.
LEMMA PositionRep ==
  ASSUME NEW l, NEW g, Rep(l, g), NEW pos \in Nat
  PROVE  position_step(l, pos) = IF pos \in 1..l.size THEN g[pos] ELSE NULL
<1> DEFINE T == TOTALSTEP_NUM
           at == Walk(l, l.head)
           hits == {k \in 0..T - 1 : at[k] # NULL /\ l.un[at[k]].step = pos}
<1>1. /\ T \in Nat \ {0} /\ l.size \in 1..T /\ 1 \in Nodes /\ EndOf(l, 1) = l.size
      /\ g \in [Nodes -> Nodes] /\ l.head = g[1]
  BY PoolAssumption DEF Rep, PoolType, Enumeration, Linking, Nodes, EndOf
<1>2. \A k \in 0..T - 1 : at[k] = IF k + 1 <= l.size THEN g[k + 1] ELSE NULL
  BY <1>1, WalkRep
<1>3. \A k \in 0..T - 1 : k + 1 <= l.size =>
        /\ k + 1 \in Nodes /\ g[k + 1] # NULL /\ l.un[g[k + 1]].step = k + 1
  BY <1>1 DEF Rep, Linking, Nodes, NULL
<1>4. \A k \in 0..T - 1 : k \in hits <=> k + 1 <= l.size /\ k + 1 = pos
  BY <1>2, <1>3
<1>5. position_step(l, pos) =
        IF hits = {} THEN NULL ELSE at[CHOOSE k \in hits : \A h \in hits : k <= h]
  BY DEF position_step
<1> HIDE DEF at, hits
<1>6. CASE pos \in 1..l.size
  <2>1. pos - 1 \in 0..T - 1 /\ (pos - 1) + 1 = pos
    BY <1>1, <1>6
  <2>2. \A k \in hits : k = pos - 1
    BY <1>1, <1>4, <1>6, <2>1 DEF hits
  <2>3. hits = {pos - 1}
    BY <1>4, <1>6, <2>1, <2>2
  <2>4. (CHOOSE k \in hits : \A h \in hits : k <= h) = pos - 1
    BY <2>1, <2>3
  <2>5. at[pos - 1] = g[pos]
    BY <1>2, <1>6, <2>1
  <2> QED BY <1>5, <1>6, <2>3, <2>4, <2>5
<1>7. CASE pos \notin 1..l.size
  <2>1. hits = {}
    BY <1>1, <1>4, <1>7 DEF hits
  <2> QED BY <1>5, <1>7, <2>1
<1> QED BY <1>6, <1>7

-----------------------------------------------------------------------------
\* The steps as a sequence, read off the enumeration.
DataOf(l, g) == [k \in 1..l.size |-> l.un[g[k]].data]

\* g rearranged by p, which maps the places of the new order to those of the old.
Rearranged(g, p) == [i \in Nodes |-> g[p[i]]]


\* What the enumeration says of each place, without EndOf.
LEMMA RepPlaces ==
  ASSUME NEW l, NEW g, Rep(l, g)
  PROVE  /\ TOTALSTEP_NUM \in Nat \ {0} /\ l.size \in 1..TOTALSTEP_NUM
         /\ l.un \in [Nodes -> UN_STR] /\ l.next \in [Nodes -> Links]
         /\ l.prev \in [Nodes -> Links] /\ g \in [Nodes -> Nodes]
         /\ l.head = g[1] /\ l.tail = g[l.size]
         /\ l.free = IF l.size = TOTALSTEP_NUM THEN NULL ELSE g[l.size + 1]
         /\ \A i \in Nodes :
              /\ i \in 1..TOTALSTEP_NUM /\ g[i] \in Nodes /\ g[i] # NULL
              /\ i <= l.size => /\ l.next[g[i]] = IF i = l.size THEN NULL ELSE g[i + 1]
                                /\ l.prev[g[i]] = IF i = 1 THEN NULL ELSE g[i - 1]
                                /\ l.un[g[i]].step = i
              /\ i > l.size => l.next[g[i]] = IF i = TOTALSTEP_NUM THEN NULL ELSE g[i + 1]
              /\ \A j \in Nodes : g[i] = g[j] <=> i = j
<1>1. /\ TOTALSTEP_NUM \in Nat \ {0} /\ l.size \in 1..TOTALSTEP_NUM
      /\ l.un \in [Nodes -> UN_STR] /\ l.next \in [Nodes -> Links]
      /\ l.prev \in [Nodes -> Links] /\ g \in [Nodes -> Nodes]
  BY PoolAssumption DEF Rep, PoolType, Enumeration
<1>2. /\ l.head = g[1] /\ l.tail = g[l.size]
      /\ l.free = IF l.size = TOTALSTEP_NUM THEN NULL ELSE g[l.size + 1]
  BY DEF Rep, Linking
<1>3. ASSUME NEW i \in Nodes
      PROVE  /\ i \in 1..TOTALSTEP_NUM /\ g[i] \in Nodes /\ g[i] # NULL
             /\ i <= l.size => /\ l.next[g[i]] = IF i = l.size THEN NULL ELSE g[i + 1]
                               /\ l.prev[g[i]] = IF i = 1 THEN NULL ELSE g[i - 1]
                               /\ l.un[g[i]].step = i
             /\ i > l.size => l.next[g[i]] = IF i = TOTALSTEP_NUM THEN NULL ELSE g[i + 1]
             /\ \A j \in Nodes : g[i] = g[j] <=> i = j
  <2>1. i \in 1..TOTALSTEP_NUM /\ g[i] \in Nodes /\ g[i] # NULL
    BY <1>1 DEF Nodes, NULL
  <2>2. l.next[g[i]] = IF i = EndOf(l, i) THEN NULL ELSE g[i + 1]
    BY DEF Rep, Linking
  <2>3. i <= l.size => i \in 1..l.size
    BY <1>1, <2>1
  <2>4. \A j \in Nodes : g[i] = g[j] <=> i = j
    BY DEF Rep, Enumeration
  <2> QED BY <1>1, <2>1, <2>2, <2>3, <2>4 DEF Rep, Linking, EndOf
<1> QED BY <1>1, <1>2, <1>3

\* An enumeration rearranged by an enumeration of the places is one.
LEMMA RearrangedEnumeration ==
  ASSUME NEW g, Enumeration(g), NEW p, Enumeration(p)
  PROVE  /\ Enumeration(Rearranged(g, p))
         /\ \A i \in Nodes : Rearranged(g, p)[i] = g[p[i]] /\ p[i] \in Nodes
BY DEF Enumeration, Rearranged

\* Where the nodes stood before insert_after, and before remove_step.
InsertPlaces(size, step) ==
  [i \in Nodes |-> IF i = step + 1 THEN size + 1
                   ELSE IF i \in step + 2..size + 1 THEN i - 1 ELSE i]

RemovePlaces(size, step) ==
  [i \in Nodes |-> IF i = size THEN step
                   ELSE IF i \in step..size - 1 THEN i + 1 ELSE i]

\* Both give every place one node.
LEMMA PlacesEnumerate ==
  ASSUME NEW size \in Nodes, NEW step \in 1..size
  PROVE  /\ size < TOTALSTEP_NUM => Enumeration(InsertPlaces(size, step))
         /\ Enumeration(RemovePlaces(size, step))
<1>1. TOTALSTEP_NUM \in Nat /\ size \in 1..TOTALSTEP_NUM
  BY PoolAssumption DEF Nodes
<1>2. ASSUME size < TOTALSTEP_NUM
      PROVE  Enumeration(InsertPlaces(size, step))
  BY <1>1, <1>2 DEF Enumeration, InsertPlaces, Nodes
<1>3. Enumeration(RemovePlaces(size, step))
  BY <1>1 DEF Enumeration, RemovePlaces, Nodes
<1> QED BY <1>2, <1>3

\* Relink keeps links in their range.
LEMMA RelinkType ==
  ASSUME NEW link \in [Nodes -> Links], NEW n \in Links, NEW to \in Links
  PROVE  Relink(link, n, to) \in [Nodes -> Links]
BY DEF Relink, Links

\* What insert_after does to the nodes, told by their places in the enumeration.
Inserted(l, g, step, m) ==
  /\ m \in PoolType
  /\ m.size = l.size + 1
  /\ m.head = l.head
  /\ m.tail = IF step = l.size THEN g[l.size + 1] ELSE l.tail
  /\ m.free = IF l.size + 1 = TOTALSTEP_NUM THEN NULL ELSE g[l.size + 2]
  /\ \A i \in Nodes :
       /\ m.un[g[i]] = IF i = l.size + 1 THEN [step |-> step + 1, data |-> Default]
                       ELSE IF i \in step + 1..l.size THEN [l.un[g[i]] EXCEPT !.step = @ + 1]
                       ELSE l.un[g[i]]
       /\ m.next[g[i]] = IF i = step THEN g[l.size + 1]
                         ELSE IF i = l.size + 1 THEN l.next[g[step]] ELSE l.next[g[i]]
       /\ m.prev[g[i]] = IF i = step + 1 /\ step # l.size THEN g[l.size + 1]
                         ELSE IF i = l.size + 1 THEN g[step] ELSE l.prev[g[i]]

\* insert_after behind a step of a list that is not full.
LEMMA InsertFacts ==
  ASSUME NEW l, NEW g, Rep(l, g), NEW step \in 1..l.size, l.size < TOTALSTEP_NUM
  PROVE  Inserted(l, g, step, insert_after(l, step))
<1> DEFINE T == TOTALSTEP_NUM
           cur == g[l.size + 1]
           node == g[step]
           succ == l.next[node]
           m == insert_after(l, step)
<1>1. /\ T \in Nat \ {0} /\ l.size \in 1..T /\ l.size + 1 \in Nodes
      /\ step \in 1..l.size /\ step \in Nodes /\ step + 1 \in Nodes
      /\ l.un \in [Nodes -> UN_STR] /\ l.next \in [Nodes -> Links]
      /\ l.prev \in [Nodes -> Links] /\ g \in [Nodes -> Nodes]
      /\ cur \in Nodes /\ cur # NULL /\ node \in Nodes /\ node # NULL
      /\ \A i, j \in Nodes : g[i] = g[j] <=> i = j
  <2>1. TOTALSTEP_NUM \in Nat \ {0} /\ l.size \in 1..TOTALSTEP_NUM
    BY RepPlaces
  <2>2. l.size + 1 \in Nodes /\ step \in Nodes /\ step + 1 \in Nodes
    BY <2>1 DEF Nodes
  <2> QED BY <2>1, <2>2, RepPlaces
<1>2. /\ l.free = cur /\ l.head \in Links /\ l.tail \in Links
      /\ succ = IF step = l.size THEN NULL ELSE g[step + 1]
      /\ l.next[cur] = IF l.size + 1 = T THEN NULL ELSE g[l.size + 2]
  <2>1. (l.size + 1) + 1 = l.size + 2 /\ l.size + 1 > l.size /\ step <= l.size
    BY <1>1
  <2> QED BY <1>1, <2>1, RepPlaces DEF Rep, PoolType
<1>3. From(l, succ) = {g[j] : j \in step + 1..l.size}
  <2>1. CASE step = l.size
    BY <1>1, <1>2, <2>1, FromRep
  <2>2. CASE step # l.size
    <3>1. EndOf(l, step + 1) = l.size
      BY <1>1, <2>2 DEF EndOf
    <3>2. From(l, g[step + 1]) = {g[j] : j \in step + 1..EndOf(l, step + 1)}
      BY <1>1, FromRep
    <3> QED BY <1>2, <2>2, <3>1, <3>2
  <2> QED BY <2>1, <2>2
<1>4. position_step(l, step) = node
  <2>1. step \in Nat
    BY <1>1
  <2> QED BY <2>1, PositionRep
<1>5. m = [l EXCEPT
             !.un   = [Renumber(l, succ, 1) EXCEPT ![cur] = [step |-> step + 1, data |-> Default]],
             !.next = [l.next EXCEPT ![cur] = succ, ![node] = cur],
             !.prev = Relink([l.prev EXCEPT ![cur] = node], succ, cur),
             !.tail = IF succ = NULL THEN cur ELSE @,
             !.size = @ + 1,
             !.free = l.next[cur]]
  <2>1. ~(step > l.size) /\ l.free # NULL
    BY <1>1, <1>2
  <2> HIDE DEF cur, node, succ
  <2> QED BY <1>2, <1>4, <2>1 DEF insert_after, succ
<1>6. /\ m.un = [Renumber(l, succ, 1) EXCEPT ![cur] = [step |-> step + 1, data |-> Default]]
      /\ m.next = [l.next EXCEPT ![cur] = succ, ![node] = cur]
      /\ m.prev = Relink([l.prev EXCEPT ![cur] = node], succ, cur)
      /\ m.head = l.head
      /\ m.tail = IF succ = NULL THEN cur ELSE l.tail
      /\ m.size = l.size + 1
      /\ m.free = l.next[cur]
      /\ m = [un |-> m.un, next |-> m.next, prev |-> m.prev, head |-> m.head,
              tail |-> m.tail, size |-> m.size, free |-> m.free]
  <2>1. l \in PoolType
    BY DEF Rep
  <2> HIDE DEF cur, node, succ, m
  <2> QED BY <1>5, <2>1 DEF PoolType
<1>7. /\ Renumber(l, succ, 1) \in [Nodes -> UN_STR]
      /\ \A i \in Nodes :
           Renumber(l, succ, 1)[g[i]] = IF i \in step + 1..l.size
                                        THEN [l.un[g[i]] EXCEPT !.step = @ + 1] ELSE l.un[g[i]]
  <2>1. \A i \in Nodes : g[i] \in From(l, succ) <=> i \in step + 1..l.size
    <3>1. \A j \in step + 1..l.size : j \in Nodes
      BY <1>1 DEF Nodes
    <3> QED BY <1>1, <1>3, <3>1
  <2>2. ASSUME NEW n \in Nodes, n \in From(l, succ)
        PROVE  [l.un[n] EXCEPT !.step = @ + 1] \in UN_STR
    <3>1. PICK j \in step + 1..l.size : n = g[j]
      BY <1>3, <2>2
    <3>2. j \in Nodes /\ j <= l.size /\ j + 1 \in 0..TOTALSTEP_NUM
      BY <1>1 DEF Nodes
    <3>3. l.un[n].step = j /\ l.un[n] \in UN_STR
      BY <1>1, <3>1, <3>2, RepPlaces
    <3> QED BY <3>2, <3>3 DEF UN_STR
  <2> HIDE DEF cur, node, succ
  <2> QED BY <1>1, <2>1, <2>2 DEF Renumber
<1>8. m.un \in [Nodes -> UN_STR] /\ m.next \in [Nodes -> Links] /\ m.prev \in [Nodes -> Links]
  <2>1. [step |-> step + 1, data |-> Default] \in UN_STR
    BY <1>1, PoolAssumption DEF UN_STR
  <2>2. succ \in Links /\ cur \in Links /\ node \in Links /\ cur \in Nodes /\ node \in Nodes
    BY <1>1, <1>2 DEF Links
  <2> HIDE DEF cur, node, succ, m
  <2>3. m.un \in [Nodes -> UN_STR]
    BY <1>6, <1>7, <2>1
  <2>4. m.next \in [Nodes -> Links]
    BY <1>1, <1>6, <2>2
  <2>5. [l.prev EXCEPT ![cur] = node] \in [Nodes -> Links]
    BY <1>1, <2>2
  <2>6. m.prev \in [Nodes -> Links]
    BY <1>6, <2>2, <2>5 DEF Relink
  <2> QED BY <2>3, <2>4, <2>6
<1>9. m \in PoolType
  <2>1. m.head \in Links /\ m.tail \in Links /\ m.size \in 0..TOTALSTEP_NUM /\ m.free \in Links
    BY <1>1, <1>2, <1>6 DEF Links
  <2> HIDE DEF m
  <2> QED BY <1>6, <1>8, <2>1 DEF PoolType
<1>10. ASSUME NEW i \in Nodes
       PROVE  /\ m.un[g[i]] = IF i = l.size + 1 THEN [step |-> step + 1, data |-> Default]
                              ELSE IF i \in step + 1..l.size
                                   THEN [l.un[g[i]] EXCEPT !.step = @ + 1] ELSE l.un[g[i]]
              /\ m.next[g[i]] = IF i = step THEN g[l.size + 1]
                                ELSE IF i = l.size + 1 THEN l.next[g[step]] ELSE l.next[g[i]]
              /\ m.prev[g[i]] = IF i = step + 1 /\ step # l.size THEN g[l.size + 1]
                                ELSE IF i = l.size + 1 THEN g[step] ELSE l.prev[g[i]]
  <2>1. (g[i] = cur <=> i = l.size + 1) /\ (g[i] = node <=> i = step) /\ g[i] \in Nodes
    BY <1>1
  <2>2. succ # NULL => succ \in Nodes /\ (g[i] = succ <=> i = step + 1)
    BY <1>1, <1>2
  <2>3. succ = NULL <=> step = l.size
    BY <1>1, <1>2 DEF Nodes, NULL
  <2>4. step # l.size + 1 /\ (step # l.size => step + 1 # l.size + 1)
    BY <1>1
  <2> HIDE DEF cur, node, succ, m
  <2>5. m.un[g[i]] = IF i = l.size + 1 THEN [step |-> step + 1, data |-> Default]
                     ELSE IF i \in step + 1..l.size
                          THEN [l.un[g[i]] EXCEPT !.step = @ + 1] ELSE l.un[g[i]]
    BY <1>1, <1>6, <1>7, <2>1
  <2>6. m.next[g[i]] = IF i = step THEN cur ELSE IF i = l.size + 1 THEN succ ELSE l.next[g[i]]
    BY <1>1, <1>6, <2>1, <2>4
  <2>7. m.prev[g[i]] = IF i = step + 1 /\ step # l.size THEN cur
                       ELSE IF i = l.size + 1 THEN node ELSE l.prev[g[i]]
    BY <1>1, <1>6, <2>1, <2>2, <2>3, <2>4 DEF Relink
  <2> QED BY <2>5, <2>6, <2>7 DEF cur, node, succ
<1>11. m.tail = (IF step = l.size THEN cur ELSE l.tail)
  BY <1>1, <1>2, <1>6 DEF Nodes, NULL
<1>12. m.free = IF l.size + 1 = TOTALSTEP_NUM THEN NULL ELSE g[l.size + 2]
  BY <1>2, <1>6
<1> QED BY <1>6, <1>9, <1>10, <1>11, <1>12 DEF Inserted

\* The enumeration after insert_after: the new node moves in behind its
\* predecessor, the steps behind it move up, and the sequence takes a default step.
LEMMA InsertRep ==
  ASSUME NEW l, NEW g, Rep(l, g), NEW step \in 1..l.size, l.size < TOTALSTEP_NUM
  PROVE  LET m == insert_after(l, step)
             h == Rearranged(g, InsertPlaces(l.size, step))
         IN  /\ Rep(m, h)
             /\ m.size = l.size + 1
             /\ \A k \in 1..l.size + 1 :
                  DataOf(m, h)[k] = IF k <= step THEN DataOf(l, g)[k]
                                    ELSE IF k = step + 1 THEN Default ELSE DataOf(l, g)[k - 1]
<1> DEFINE m == insert_after(l, step)
           p == InsertPlaces(l.size, step)
           h == Rearranged(g, p)
<1>1. /\ TOTALSTEP_NUM \in Nat /\ l.size \in 1..TOTALSTEP_NUM /\ step \in 1..l.size
      /\ Nodes = 1..TOTALSTEP_NUM
      /\ l.size < TOTALSTEP_NUM
  BY RepPlaces DEF Nodes
<1>2. Enumeration(h)
  BY <1>1, PlacesEnumerate, RearrangedEnumeration DEF Rep
<1>3. \A i \in Nodes : /\ i <= step => h[i] = g[i]
                       /\ i = step + 1 => h[i] = g[l.size + 1]
                       /\ step + 2 <= i /\ i <= l.size + 1 => h[i] = g[i - 1]
                       /\ i > l.size + 1 => h[i] = g[i]
  BY <1>1 DEF Rearranged, InsertPlaces
<1>4. Inserted(l, g, step, m)
  BY InsertFacts
<1>5. /\ m \in PoolType /\ m.size = l.size + 1 /\ m.head = l.head
      /\ m.tail = IF step = l.size THEN g[l.size + 1] ELSE l.tail
      /\ m.free = IF l.size + 1 = TOTALSTEP_NUM THEN NULL ELSE g[l.size + 2]
  BY <1>4 DEF Inserted
<1>6. \A i \in Nodes : i <= l.size => l.un[g[i]] \in UN_STR /\ l.un[g[i]].step = i
  BY RepPlaces
<1>7. /\ \A i \in 1..step : m.un[g[i]] = l.un[g[i]]
      /\ m.un[g[l.size + 1]] = [step |-> step + 1, data |-> Default]
      /\ \A i \in step + 1..l.size : m.un[g[i]].step = i + 1 /\ m.un[g[i]].data = l.un[g[i]].data
  <2>1. \A i \in Nodes :
          m.un[g[i]] = IF i = l.size + 1 THEN [step |-> step + 1, data |-> Default]
                       ELSE IF i \in step + 1..l.size THEN [l.un[g[i]] EXCEPT !.step = @ + 1]
                       ELSE l.un[g[i]]
    BY <1>4 DEF Inserted
  <2> HIDE DEF m, h, p
  <2>2. l.size + 1 \in Nodes
    BY <1>1
  <2>3. \A i \in 1..step : i \in Nodes /\ i # l.size + 1 /\ i \notin step + 1..l.size
    BY <1>1
  <2>4. \A i \in step + 1..l.size : i \in Nodes /\ i # l.size + 1 /\ i <= l.size
    BY <1>1
  <2>5. ASSUME NEW i \in step + 1..l.size
        PROVE  m.un[g[i]].step = i + 1 /\ m.un[g[i]].data = l.un[g[i]].data
    <3>1. m.un[g[i]] = [l.un[g[i]] EXCEPT !.step = @ + 1]
      BY <2>1, <2>4
    <3>2. l.un[g[i]] \in UN_STR /\ l.un[g[i]].step = i
      BY <1>6, <2>4
    <3> QED BY <3>1, <3>2 DEF UN_STR
  <2>6. \A i \in 1..step : m.un[g[i]] = l.un[g[i]]
    BY <2>1, <2>3
  <2>7. m.un[g[l.size + 1]] = [step |-> step + 1, data |-> Default]
    BY <2>1, <2>2
  <2> QED BY <2>5, <2>6, <2>7
<1>8. \A i \in Nodes :
        /\ m.next[g[i]] = IF i = step THEN g[l.size + 1]
                          ELSE IF i = l.size + 1 THEN l.next[g[step]] ELSE l.next[g[i]]
        /\ m.prev[g[i]] = IF i = step + 1 /\ step # l.size THEN g[l.size + 1]
                          ELSE IF i = l.size + 1 THEN g[step] ELSE l.prev[g[i]]
  BY <1>4 DEF Inserted
<1>9. \A i \in Nodes :
        /\ i <= l.size => /\ l.next[g[i]] = IF i = l.size THEN NULL ELSE g[i + 1]
                          /\ l.prev[g[i]] = IF i = 1 THEN NULL ELSE g[i - 1]
        /\ i > l.size => l.next[g[i]] = IF i = TOTALSTEP_NUM THEN NULL ELSE g[i + 1]
  BY RepPlaces
<1> HIDE DEF m, h, p
<1>10. m.head = h[1] /\ m.tail = h[m.size]
      /\ m.free = IF m.size = TOTALSTEP_NUM THEN NULL ELSE h[m.size + 1]
  <2>1. l.head = g[1] /\ l.tail = g[l.size]
    BY RepPlaces
  <2>2. m.head = h[1]
    BY <1>1, <1>3, <1>5, <2>1
  <2>3. m.tail = h[l.size + 1]
    BY <1>1, <1>3, <1>5, <2>1
  <2>4. l.size + 1 # TOTALSTEP_NUM => h[l.size + 2] = g[l.size + 2]
    BY <1>1, <1>3
  <2>5. (l.size + 1) + 1 = l.size + 2
    BY <1>1
  <2> QED BY <1>5, <2>2, <2>3, <2>4, <2>5
<1>11. ASSUME NEW i \in Nodes
      PROVE  m.next[h[i]] = IF i = EndOf(m, i) THEN NULL ELSE h[i + 1]
  <2>1. i \in 1..TOTALSTEP_NUM /\ EndOf(m, i) = IF i <= l.size + 1 THEN l.size + 1 ELSE TOTALSTEP_NUM
    BY <1>1, <1>5 DEF EndOf
  <2>2. CASE i < step
    <3>1. h[i] = g[i] /\ h[i + 1] = g[i + 1] /\ i # EndOf(m, i)
      BY <1>1, <1>3, <2>1, <2>2
    <3>2. m.next[g[i]] = g[i + 1]
      BY <1>1, <1>8, <1>9, <2>1, <2>2
    <3> QED BY <3>1, <3>2
  <2>3. CASE i = step
    <3>1. h[i] = g[i] /\ h[i + 1] = g[l.size + 1] /\ i # EndOf(m, i)
      BY <1>1, <1>3, <2>1, <2>3
    <3>2. m.next[g[i]] = g[l.size + 1]
      BY <1>1, <1>8, <2>1, <2>3
    <3> QED BY <3>1, <3>2
  <2>4. CASE i = step + 1
    <3>1. h[i] = g[l.size + 1] /\ (i = EndOf(m, i) <=> step = l.size)
      BY <1>1, <1>3, <2>1, <2>4
    <3>2. m.next[g[l.size + 1]] = l.next[g[step]]
      BY <1>1, <1>8
    <3>3. l.next[g[step]] = IF step = l.size THEN NULL ELSE g[step + 1]
      BY <1>1, <1>9
    <3>4. step # l.size => h[i + 1] = g[step + 1]
      BY <1>1, <1>3, <2>1, <2>4
    <3> QED BY <3>1, <3>2, <3>3, <3>4
  <2>5. CASE step + 2 <= i /\ i <= l.size + 1
    <3>1. h[i] = g[i - 1] /\ (i = EndOf(m, i) <=> i - 1 = l.size)
      BY <1>1, <1>3, <2>1, <2>5
    <3>2. m.next[g[i - 1]] = l.next[g[i - 1]]
      BY <1>1, <1>8, <2>1, <2>5
    <3>3. l.next[g[i - 1]] = IF i - 1 = l.size THEN NULL ELSE g[i]
      <4>1. i - 1 \in Nodes /\ i - 1 <= l.size /\ (i - 1) + 1 = i
        BY <1>1, <2>1, <2>5
      <4> QED BY <1>9, <4>1
    <3>4. i - 1 # l.size => h[i + 1] = g[i]
      <4>1. i - 1 # l.size => i + 1 \in Nodes /\ step + 2 <= i + 1 /\ i + 1 <= l.size + 1
                              /\ (i + 1) - 1 = i
        BY <1>1, <2>1, <2>5
      <4> QED BY <1>3, <4>1
    <3> QED BY <3>1, <3>2, <3>3, <3>4
  <2>6. CASE i > l.size + 1
    <3>1. h[i] = g[i] /\ EndOf(m, i) = TOTALSTEP_NUM
      BY <1>1, <1>3, <2>1, <2>6
    <3>2. m.next[g[i]] = IF i = TOTALSTEP_NUM THEN NULL ELSE g[i + 1]
      BY <1>1, <1>8, <1>9, <2>1, <2>6
    <3>3. i # TOTALSTEP_NUM => h[i + 1] = g[i + 1]
      BY <1>1, <1>3, <2>1, <2>6
    <3> QED BY <3>1, <3>2, <3>3
  <2> QED BY <1>1, <2>1, <2>2, <2>3, <2>4, <2>5, <2>6
<1>12. ASSUME NEW i \in 1..m.size
       PROVE  m.un[h[i]].step = i /\ m.prev[h[i]] = IF i = 1 THEN NULL ELSE h[i - 1]
  <2>1. i \in Nodes /\ i \in 1..TOTALSTEP_NUM /\ i <= l.size + 1
    BY <1>1, <1>5
  <2>2. CASE i <= step
    <3>1. h[i] = g[i] /\ (i # 1 => h[i - 1] = g[i - 1])
      BY <1>1, <1>3, <2>1, <2>2
    <3>2. m.un[g[i]] = l.un[g[i]] /\ m.prev[g[i]] = l.prev[g[i]]
      BY <1>1, <1>7, <1>8, <2>1, <2>2
    <3>3. i <= l.size
      BY <1>1, <2>1, <2>2
    <3> QED BY <1>6, <1>9, <2>1, <3>1, <3>2, <3>3
  <2>3. CASE i = step + 1
    <3>1. h[i] = g[l.size + 1] /\ h[i - 1] = g[step] /\ i # 1
      BY <1>1, <1>3, <2>1, <2>3
    <3>2. l.size + 1 \in Nodes /\ ~(l.size + 1 = step + 1 /\ step # l.size)
      BY <1>1
    <3>3. m.un[g[l.size + 1]].step = step + 1 /\ m.prev[g[l.size + 1]] = g[step]
      BY <1>7, <1>8, <3>2
    <3> QED BY <2>3, <3>1, <3>3
  <2>4. CASE step + 2 <= i
    <3>1. h[i] = g[i - 1] /\ i - 1 \in step + 1..l.size /\ i # 1 /\ i - 1 \in Nodes /\ i - 1 # l.size + 1
          /\ i - 1 # 1 /\ (i - 1) + 1 = i /\ i - 1 <= l.size
      BY <1>1, <1>3, <2>1, <2>4
    <3>2. m.un[g[i - 1]].step = i
      BY <1>7, <3>1
    <3>3. CASE i = step + 2
      <4>1. i - 1 = step + 1 /\ step # l.size
        BY <1>1, <2>1, <3>3
      <4>2. h[i - 1] = g[l.size + 1]
        BY <1>3, <3>1, <4>1
      <4> QED BY <1>8, <3>1, <3>2, <4>1, <4>2
    <3>4. CASE i # step + 2
      <4>1. step + 2 <= i - 1 /\ i - 1 # step + 1 /\ i - 1 <= l.size + 1
        BY <1>1, <2>1, <2>4, <3>4
      <4>2. h[i - 1] = g[(i - 1) - 1]
        BY <1>3, <3>1, <4>1
      <4>3. m.prev[g[i - 1]] = g[(i - 1) - 1]
        BY <1>9, <1>8, <3>1, <4>1
      <4> QED BY <3>1, <3>2, <4>2, <4>3
    <3> QED BY <3>3, <3>4
  <2> QED BY <1>1, <2>1, <2>2, <2>3, <2>4
<1>13. Rep(m, h)
  <2>1. m.size # 0
    BY <1>1, <1>5
  <2> QED BY <1>2, <1>5, <1>10, <1>11, <1>12, <2>1 DEF Rep, Linking
<1>14. ASSUME NEW k \in 1..l.size + 1
       PROVE  DataOf(m, h)[k] = IF k <= step THEN DataOf(l, g)[k]
                                ELSE IF k = step + 1 THEN Default ELSE DataOf(l, g)[k - 1]
  <2>1. DataOf(m, h)[k] = m.un[h[k]].data /\ \A j \in 1..l.size : DataOf(l, g)[j] = l.un[g[j]].data
    BY <1>5 DEF DataOf
  <2>2. CASE k <= step
    <3>1. k \in Nodes /\ h[k] = g[k] /\ m.un[g[k]] = l.un[g[k]] /\ k \in 1..l.size
      BY <1>1, <1>3, <1>7, <2>2
    <3> QED BY <2>1, <2>2, <3>1
  <2>3. CASE k = step + 1
    <3>1. k \in Nodes /\ h[k] = g[l.size + 1] /\ l.size + 1 \in Nodes /\ ~(k <= step)
      BY <1>1, <1>3, <2>3
    <3> QED BY <1>7, <2>1, <2>3, <3>1
  <2>4. CASE step + 2 <= k
    <3>1. /\ k \in Nodes /\ k - 1 \in Nodes /\ h[k] = g[k - 1] /\ k - 1 \in step + 1..l.size
          /\ k - 1 # l.size + 1 /\ k - 1 \in 1..l.size /\ k - 1 <= l.size /\ ~(k <= step) /\ k # step + 1
      BY <1>1, <1>3, <2>4
    <3> QED BY <1>7, <2>1, <3>1
  <2> QED BY <1>1, <2>2, <2>3, <2>4
<1> QED BY <1>5, <1>13, <1>14 DEF m, h, p

-----------------------------------------------------------------------------
\* What remove_step does to the nodes, told by their places in the enumeration.
Removed(l, g, step, m) ==
  /\ m \in PoolType
  /\ m.size = l.size - 1
  /\ m.head = IF step = 1 THEN g[2] ELSE l.head
  /\ m.tail = IF step = l.size THEN g[l.size - 1] ELSE l.tail
  /\ m.free = g[step]
  /\ \A i \in Nodes :
       /\ m.un[g[i]] = IF i \in step + 1..l.size THEN [l.un[g[i]] EXCEPT !.step = @ - 1]
                       ELSE l.un[g[i]]
       /\ m.next[g[i]] = IF i = step THEN l.free
                         ELSE IF i = step - 1 THEN l.next[g[step]] ELSE l.next[g[i]]
       /\ m.prev[g[i]] = IF i = step + 1 /\ step # l.size THEN l.prev[g[step]] ELSE l.prev[g[i]]

\* remove_step of a step of a list that has another one.
LEMMA RemoveFacts ==
  ASSUME NEW l, NEW g, Rep(l, g), NEW step \in 1..l.size, l.size > 1
  PROVE  Removed(l, g, step, remove_step(l, step))
<1> DEFINE T == TOTALSTEP_NUM
           node == g[step]
           before == l.prev[node]
           after == l.next[node]
           m == remove_step(l, step)
<1>1. /\ T \in Nat /\ l.size \in 2..T /\ Nodes = 1..T
      /\ step \in 1..T /\ step <= l.size
  <2>1. TOTALSTEP_NUM \in Nat \ {0} /\ l.size \in 1..TOTALSTEP_NUM
    BY RepPlaces
  <2> QED BY <2>1 DEF Nodes
<1>2. /\ T \in Nat \ {0} /\ l.size \in 2..T /\ step \in 1..l.size /\ step \in Nodes
      /\ l.un \in [Nodes -> UN_STR] /\ l.next \in [Nodes -> Links]
      /\ l.prev \in [Nodes -> Links] /\ g \in [Nodes -> Nodes]
      /\ node \in Nodes /\ node # NULL
      /\ \A i, j \in Nodes : g[i] = g[j] <=> i = j
  <2>1. TOTALSTEP_NUM \in Nat \ {0} /\ l.size \in 1..TOTALSTEP_NUM
    BY RepPlaces
  <2>2. step \in Nodes /\ l.size \in 2..T
    BY <2>1 DEF Nodes
  <2> QED BY <2>1, <2>2, RepPlaces
<1>3. /\ l.head \in Links /\ l.tail \in Links /\ l.free \in Links
      /\ after = IF step = l.size THEN NULL ELSE g[step + 1]
      /\ before = IF step = 1 THEN NULL ELSE g[step - 1]
  BY <1>2, RepPlaces DEF Rep, PoolType
<1>4. (after = NULL <=> step = l.size) /\ (before = NULL <=> step = 1)
  <2>1. step # l.size => step + 1 \in Nodes
    BY <1>1
  <2>2. step # 1 => step - 1 \in Nodes
    BY <1>1
  <2>3. \A i \in Nodes : g[i] # NULL
    BY RepPlaces
  <2> HIDE DEF after, before
  <2> QED BY <1>3, <2>1, <2>2, <2>3
<1>5. From(l, after) = {g[j] : j \in step + 1..l.size}
  <2>1. CASE step = l.size
    BY <1>2, <1>3, <2>1, FromRep
  <2>2. CASE step # l.size
    <3>1. EndOf(l, step + 1) = l.size /\ step + 1 \in Nodes
      BY <1>2, <2>2 DEF EndOf, Nodes
    <3>2. From(l, g[step + 1]) = {g[j] : j \in step + 1..EndOf(l, step + 1)}
      BY <3>1, FromRep
    <3> QED BY <1>3, <2>2, <3>1, <3>2
  <2> QED BY <2>1, <2>2
<1>6. position_step(l, step) = node
  <2>1. step \in Nat
    BY <1>2
  <2> QED BY <2>1, PositionRep
<1> DEFINE rest == [l EXCEPT !.un   = Renumber(l, after, -1),
                             !.next = Relink(l.next, before, after),
                             !.prev = Relink(l.prev, after, before),
                             !.head = IF before = NULL THEN after ELSE @,
                             !.tail = IF after = NULL THEN before ELSE @,
                             !.size = @ - 1]
<1>7. m = [rest EXCEPT !.next[node] = rest.free, !.free = node]
  <2>1. ~(l.size = 1 \/ node = NULL)
    BY <1>2
  <2>2. m = Release(rest, node)
    <3> HIDE DEF node
    <3> QED BY <1>6, <2>1 DEF remove_step
  <2> QED BY <2>2 DEF Release
<1>8. /\ rest.un = Renumber(l, after, -1)
      /\ rest.next = Relink(l.next, before, after)
      /\ rest.prev = Relink(l.prev, after, before)
      /\ rest.head = (IF before = NULL THEN after ELSE l.head)
      /\ rest.tail = (IF after = NULL THEN before ELSE l.tail)
      /\ rest.size = l.size - 1
      /\ rest.free = l.free
      /\ rest = [un |-> rest.un, next |-> rest.next, prev |-> rest.prev, head |-> rest.head,
                 tail |-> rest.tail, size |-> rest.size, free |-> rest.free]
  <2>1. l \in PoolType
    BY DEF Rep
  <2> HIDE DEF node, before, after
  <2>2. PICK r : r = rest
    OBVIOUS
  <2>3. /\ r.un = Renumber(l, after, -1)
        /\ r.next = Relink(l.next, before, after)
        /\ r.prev = Relink(l.prev, after, before)
        /\ r.head = (IF before = NULL THEN after ELSE l.head)
        /\ r.tail = (IF after = NULL THEN before ELSE l.tail)
        /\ r.size = l.size - 1
        /\ r.free = l.free
        /\ r = [un |-> r.un, next |-> r.next, prev |-> r.prev, head |-> r.head,
                tail |-> r.tail, size |-> r.size, free |-> r.free]
    BY <2>1, <2>2 DEF PoolType
  <2> HIDE DEF rest
  <2> QED BY <2>2, <2>3
<1>9. /\ m.un = rest.un /\ m.next = [rest.next EXCEPT ![node] = l.free] /\ m.prev = rest.prev
      /\ m.head = rest.head /\ m.tail = rest.tail /\ m.size = rest.size /\ m.free = node
      /\ m = [un |-> m.un, next |-> m.next, prev |-> m.prev, head |-> m.head,
              tail |-> m.tail, size |-> m.size, free |-> m.free]
  <2> HIDE DEF rest, node, m
  <2> QED BY <1>7, <1>8
<1>10. /\ Renumber(l, after, -1) \in [Nodes -> UN_STR]
      /\ \A i \in Nodes :
           Renumber(l, after, -1)[g[i]] = IF i \in step + 1..l.size
                                          THEN [l.un[g[i]] EXCEPT !.step = @ - 1] ELSE l.un[g[i]]
  <2>1. \A i \in Nodes : g[i] \in From(l, after) <=> i \in step + 1..l.size
    <3>1. \A j \in step + 1..l.size : j \in Nodes
      BY <1>1
    <3>2. \A i, j \in Nodes : g[i] = g[j] => i = j
      BY <1>2
    <3> HIDE DEF after
    <3>3. ASSUME NEW i \in Nodes, g[i] \in From(l, after)
          PROVE  i \in step + 1..l.size
      <4>1. PICK j \in step + 1..l.size : g[i] = g[j]
        BY <1>5, <3>3
      <4> QED BY ONLY <3>1, <3>2, <3>3, <4>1
    <3>4. ASSUME NEW i \in Nodes, i \in step + 1..l.size
          PROVE  g[i] \in From(l, after)
      BY <1>5, <3>4
    <3> QED BY <3>3, <3>4
  <2>2. \A n \in Nodes : l.un[n].step + (-1) = l.un[n].step - 1
    BY <1>2 DEF UN_STR
  <2>3. ASSUME NEW n \in Nodes, n \in From(l, after)
        PROVE  [l.un[n] EXCEPT !.step = @ - 1] \in UN_STR
    <3>1. PICK j \in step + 1..l.size : n = g[j]
      BY <1>5, <2>3
    <3>2. j \in Nodes /\ j <= l.size /\ j - 1 \in 0..TOTALSTEP_NUM
      BY <1>2 DEF Nodes
    <3>3. l.un[n].step = j /\ l.un[n] \in UN_STR
      BY <1>2, <3>1, <3>2, RepPlaces
    <3> QED BY <3>2, <3>3 DEF UN_STR
  <2> HIDE DEF node, before, after
  <2> QED BY <1>2, <2>1, <2>2, <2>3 DEF Renumber
<1>11. m.un \in [Nodes -> UN_STR] /\ m.next \in [Nodes -> Links] /\ m.prev \in [Nodes -> Links]
  <2>1. after \in Links /\ before \in Links
    BY <1>2
  <2>2. rest.next \in [Nodes -> Links]
    <3>1. l.next \in [Nodes -> Links]
      BY <1>2
    <3> HIDE DEF rest, after, before
    <3>2. Relink(l.next, before, after) \in [Nodes -> Links]
      BY ONLY <2>1, <3>1, RelinkType
    <3> QED BY <1>8, <3>2
  <2>3. rest.prev \in [Nodes -> Links]
    <3>1. l.prev \in [Nodes -> Links]
      BY <1>2
    <3> HIDE DEF rest, after, before
    <3>2. Relink(l.prev, after, before) \in [Nodes -> Links]
      BY ONLY <2>1, <3>1, RelinkType
    <3> QED BY <1>8, <3>2
  <2> HIDE DEF rest, m, node
  <2> QED BY <1>2, <1>3, <1>8, <1>9, <1>10, <2>2, <2>3
<1>12. m \in PoolType
  <2>1. after \in Links /\ before \in Links
    BY <1>2
  <2>2. m.head \in Links /\ m.tail \in Links /\ m.free \in Links
    BY <1>2, <1>3, <1>8, <1>9, <2>1 DEF Links
  <2>3. m.size \in 0..TOTALSTEP_NUM
    BY <1>2, <1>8, <1>9
  <2> HIDE DEF m
  <2> QED BY <1>9, <1>11, <2>2, <2>3 DEF PoolType
<1>13. ASSUME NEW i \in Nodes
       PROVE  /\ m.un[g[i]] = IF i \in step + 1..l.size THEN [l.un[g[i]] EXCEPT !.step = @ - 1]
                              ELSE l.un[g[i]]
              /\ m.next[g[i]] = IF i = step THEN l.free
                                ELSE IF i = step - 1 THEN l.next[g[step]] ELSE l.next[g[i]]
              /\ m.prev[g[i]] = IF i = step + 1 /\ step # l.size THEN l.prev[g[step]]
                                ELSE l.prev[g[i]]
  <2>1. (g[i] = node <=> i = step) /\ g[i] \in Nodes
    BY <1>2
  <2>2. after # NULL => after \in Nodes /\ (g[i] = after <=> i = step + 1)
    <3>1. step # l.size => step + 1 \in Nodes
      BY <1>2 DEF Nodes
    <3> QED BY <1>2, <1>3, <3>1
  <2>3. before # NULL => before \in Nodes /\ (g[i] = before <=> i = step - 1)
    <3>1. step # 1 => step - 1 \in Nodes
      BY <1>2 DEF Nodes
    <3> QED BY <1>2, <1>3, <3>1
  <2>4. (after = NULL <=> step = l.size) /\ (before = NULL <=> step = 1)
    BY <1>4
  <2>5. step # step - 1 /\ (step = 1 => i # step - 1)
    BY <1>2 DEF Nodes
  <2> HIDE DEF node, before, after, rest, m
  <2>6. m.un[g[i]] = IF i \in step + 1..l.size THEN [l.un[g[i]] EXCEPT !.step = @ - 1]
                     ELSE l.un[g[i]]
    BY <1>8, <1>9, <1>10
  <2>7. rest.next[g[i]] = IF i = step - 1 THEN after ELSE l.next[g[i]]
    BY <1>2, <1>8, <2>1, <2>3, <2>4, <2>5 DEF Relink
  <2>8. rest.next \in [Nodes -> Links]
    <3>1. after \in Links /\ before \in Links
      BY <1>2 DEF after, before, node
    <3>2. l.next \in [Nodes -> Links]
      BY <1>2
    <3> QED BY ONLY <1>8, <3>1, <3>2, RelinkType
  <2>9. m.next[g[i]] = IF i = step THEN l.free ELSE IF i = step - 1 THEN after ELSE l.next[g[i]]
    BY <1>2, <1>9, <2>1, <2>7, <2>8
  <2>10. m.prev[g[i]] = IF i = step + 1 /\ step # l.size THEN before ELSE l.prev[g[i]]
    BY <1>2, <1>8, <1>9, <2>1, <2>2, <2>4 DEF Relink
  <2> QED BY <2>6, <2>9, <2>10 DEF node, before, after
<1>14. m.head = (IF step = 1 THEN g[2] ELSE l.head)
  <2>1. before = NULL <=> step = 1
    BY <1>4
  <2>2. step = 1 => after = g[2]
    BY <1>2, <1>3
  <2> HIDE DEF before, after, node, m, rest
  <2> QED BY <1>8, <1>9, <2>1, <2>2
<1>15. m.tail = (IF step = l.size THEN g[l.size - 1] ELSE l.tail)
  <2>1. after = NULL <=> step = l.size
    BY <1>4
  <2>2. step = l.size => before = g[l.size - 1]
    BY <1>2, <1>3
  <2> HIDE DEF before, after, node, m, rest
  <2> QED BY <1>8, <1>9, <2>1, <2>2
<1> HIDE DEF rest
<1> QED BY <1>8, <1>9, <1>12, <1>13, <1>14, <1>15 DEF Removed

\* The enumeration after remove_step: the node leaves its place to its successors
\* and becomes the first of the free ones, and the sequence closes up.
LEMMA RemoveRep ==
  ASSUME NEW l, NEW g, Rep(l, g), NEW step \in 1..l.size, l.size > 1
  PROVE  LET m == remove_step(l, step)
             h == Rearranged(g, RemovePlaces(l.size, step))
         IN  /\ Rep(m, h)
             /\ m.size = l.size - 1
             /\ \A k \in 1..l.size - 1 :
                  DataOf(m, h)[k] = IF k < step THEN DataOf(l, g)[k] ELSE DataOf(l, g)[k + 1]
<1> DEFINE T == TOTALSTEP_NUM
           m == remove_step(l, step)
           p == RemovePlaces(l.size, step)
           h == Rearranged(g, p)
<1>1. /\ T \in Nat /\ l.size \in 2..T /\ step \in 1..l.size /\ Nodes = 1..T
  BY RepPlaces DEF Nodes
<1>2. Enumeration(h)
  BY <1>1, PlacesEnumerate, RearrangedEnumeration DEF Rep
<1>3. \A i \in Nodes : /\ i < step => h[i] = g[i]
                       /\ step <= i /\ i < l.size => h[i] = g[i + 1]
                       /\ i = l.size => h[i] = g[step]
                       /\ i > l.size => h[i] = g[i]
  BY <1>1 DEF Rearranged, RemovePlaces
<1>4. Removed(l, g, step, m)
  BY RemoveFacts
<1>5. /\ m \in PoolType /\ m.size = l.size - 1 /\ m.free = g[step]
      /\ m.head = IF step = 1 THEN g[2] ELSE l.head
      /\ m.tail = IF step = l.size THEN g[l.size - 1] ELSE l.tail
  BY <1>4 DEF Removed
<1>6. /\ \A i \in Nodes : i <= l.size => l.un[g[i]] \in UN_STR /\ l.un[g[i]].step = i
      /\ l.head = g[1] /\ l.tail = g[l.size]
      /\ l.free = IF l.size = T THEN NULL ELSE g[l.size + 1]
  BY RepPlaces
<1>7. \A i \in Nodes :
        /\ i <= l.size => /\ l.next[g[i]] = IF i = l.size THEN NULL ELSE g[i + 1]
                          /\ l.prev[g[i]] = IF i = 1 THEN NULL ELSE g[i - 1]
        /\ i > l.size => l.next[g[i]] = IF i = T THEN NULL ELSE g[i + 1]
  BY RepPlaces
<1>8. /\ \A i \in Nodes : i < step => m.un[g[i]] = l.un[g[i]]
      /\ \A i \in step + 1..l.size : m.un[g[i]].step = i - 1 /\ m.un[g[i]].data = l.un[g[i]].data
  <2>1. \A i \in Nodes :
          m.un[g[i]] = IF i \in step + 1..l.size THEN [l.un[g[i]] EXCEPT !.step = @ - 1]
                       ELSE l.un[g[i]]
    BY <1>4 DEF Removed
  <2> HIDE DEF m, h, p
  <2>2. \A i \in Nodes : i < step => i \notin step + 1..l.size
    BY <1>1
  <2>3. ASSUME NEW i \in step + 1..l.size
        PROVE  m.un[g[i]].step = i - 1 /\ m.un[g[i]].data = l.un[g[i]].data
    <3>1. i \in Nodes /\ i <= l.size
      BY <1>1
    <3>2. m.un[g[i]] = [l.un[g[i]] EXCEPT !.step = @ - 1]
      BY <2>1, <3>1
    <3>3. l.un[g[i]] \in UN_STR /\ l.un[g[i]].step = i
      BY <1>6, <3>1
    <3> QED BY <3>2, <3>3 DEF UN_STR
  <2> QED BY <2>1, <2>2, <2>3
<1>9. \A i \in Nodes :
        /\ m.next[g[i]] = IF i = step THEN l.free
                          ELSE IF i = step - 1 THEN l.next[g[step]] ELSE l.next[g[i]]
        /\ m.prev[g[i]] = IF i = step + 1 /\ step # l.size THEN l.prev[g[step]] ELSE l.prev[g[i]]
  BY <1>4 DEF Removed
<1> HIDE DEF m, h, p
<1>10. m.head = h[1] /\ m.tail = h[m.size]
       /\ m.free = IF m.size = TOTALSTEP_NUM THEN NULL ELSE h[m.size + 1]
  <2>1. m.head = h[1]
    BY <1>1, <1>3, <1>5, <1>6
  <2>2. m.tail = h[l.size - 1]
    BY <1>1, <1>3, <1>5, <1>6
  <2>3. l.size - 1 # T /\ (l.size - 1) + 1 = l.size /\ h[l.size] = g[step]
    BY <1>1, <1>3
  <2> QED BY <1>5, <2>1, <2>2, <2>3
<1>11. ASSUME NEW i \in Nodes
       PROVE  m.next[h[i]] = IF i = EndOf(m, i) THEN NULL ELSE h[i + 1]
  <2>1. i \in 1..T /\ EndOf(m, i) = IF i <= l.size - 1 THEN l.size - 1 ELSE T
    BY <1>1, <1>5 DEF EndOf
  <2>2. CASE i < step - 1
    <3>1. h[i] = g[i] /\ h[i + 1] = g[i + 1] /\ i # EndOf(m, i)
      BY <1>1, <1>3, <2>1, <2>2
    <3>2. m.next[g[i]] = g[i + 1]
      BY <1>1, <1>7, <1>9, <2>1, <2>2
    <3> QED BY <3>1, <3>2
  <2>3. CASE i = step - 1
    <3>1. h[i] = g[i] /\ (i = EndOf(m, i) <=> step = l.size) /\ i + 1 = step
      BY <1>1, <1>3, <2>1, <2>3
    <3>2. m.next[g[i]] = IF step = l.size THEN NULL ELSE g[step + 1]
      <4>1. m.next[g[i]] = l.next[g[step]]
        BY <1>1, <1>9, <2>1, <2>3
      <4> QED BY <1>1, <1>7, <4>1
    <3>3. step # l.size => h[step] = g[step + 1]
      BY <1>1, <1>3
    <3> QED BY <3>1, <3>2, <3>3
  <2>4. CASE step <= i /\ i < l.size
    <3>1. h[i] = g[i + 1] /\ (i = EndOf(m, i) <=> i + 1 = l.size)
      BY <1>1, <1>3, <2>1, <2>4
    <3>2. i + 1 \in Nodes /\ i + 1 <= l.size /\ i + 1 # step /\ i + 1 # step - 1
      BY <1>1, <2>1, <2>4
    <3>3. m.next[g[i + 1]] = IF i + 1 = l.size THEN NULL ELSE g[(i + 1) + 1]
      BY <1>7, <1>9, <3>2
    <3>4. i + 1 # l.size => h[i + 1] = g[(i + 1) + 1]
      BY <1>1, <1>3, <2>1, <2>4
    <3> QED BY <3>1, <3>3, <3>4
  <2>5. CASE i = l.size
    <3>1. h[i] = g[step] /\ EndOf(m, i) = T
      BY <1>1, <1>3, <2>1, <2>5
    <3>2. m.next[g[step]] = IF i = T THEN NULL ELSE g[i + 1]
      BY <1>1, <1>6, <1>9, <2>5
    <3>3. i # T => h[i + 1] = g[i + 1]
      BY <1>1, <1>3, <2>1, <2>5
    <3> QED BY <3>1, <3>2, <3>3
  <2>6. CASE i > l.size
    <3>1. h[i] = g[i] /\ EndOf(m, i) = T
      BY <1>1, <1>3, <2>1, <2>6
    <3>2. m.next[g[i]] = IF i = T THEN NULL ELSE g[i + 1]
      <4>1. i # step /\ i # step - 1
        BY <1>1, <2>1, <2>6
      <4> QED BY <1>7, <1>9, <2>6, <4>1
    <3>3. i # T => h[i + 1] = g[i + 1]
      BY <1>1, <1>3, <2>1, <2>6
    <3> QED BY <3>1, <3>2, <3>3
  <2> QED BY <1>1, <2>1, <2>2, <2>3, <2>4, <2>5, <2>6
<1>12. ASSUME NEW i \in 1..m.size
       PROVE  m.un[h[i]].step = i /\ m.prev[h[i]] = IF i = 1 THEN NULL ELSE h[i - 1]
  <2>1. i \in Nodes /\ i \in 1..T /\ i <= l.size - 1
    BY <1>1, <1>5
  <2>2. CASE i < step
    <3>1. h[i] = g[i] /\ (i # 1 => h[i - 1] = g[i - 1])
      BY <1>1, <1>3, <2>1, <2>2
    <3>2. i <= l.size /\ ~(i = step + 1 /\ step # l.size)
      BY <1>1, <2>1, <2>2
    <3>3. m.un[g[i]] = l.un[g[i]] /\ m.prev[g[i]] = l.prev[g[i]]
      BY <1>8, <1>9, <2>1, <2>2, <3>2
    <3> QED BY <1>6, <1>7, <2>1, <3>1, <3>2, <3>3
  <2>3. CASE step <= i
    <3>1. /\ h[i] = g[i + 1] /\ i + 1 \in step + 1..l.size /\ i + 1 \in Nodes /\ i + 1 # 1
          /\ (i + 1) - 1 = i /\ i + 1 <= l.size
      BY <1>1, <1>3, <2>1, <2>3
    <3>2. m.un[g[i + 1]].step = i
      BY <1>8, <3>1
    <3>3. CASE i = step
      <4>1. m.prev[g[i + 1]] = l.prev[g[step]]
        <5>1. step # l.size
          BY <1>1, <2>1, <3>3
        <5> QED BY <1>9, <3>1, <3>3, <5>1
      <4>2. step # 1 => h[i - 1] = g[step - 1]
        BY <1>1, <1>3, <2>1, <3>3
      <4>3. l.prev[g[step]] = IF step = 1 THEN NULL ELSE g[step - 1]
        BY <1>1, <1>7
      <4> QED BY <3>1, <3>2, <3>3, <4>1, <4>2, <4>3
    <3>4. CASE i # step
      <4>1. i + 1 # step + 1 /\ i # 1
        BY <1>1, <2>1, <2>3, <3>4
      <4>2. m.prev[g[i + 1]] = g[i]
        BY <1>7, <1>9, <3>1, <4>1
      <4>3. h[i - 1] = g[i]
        <5>1. i - 1 \in Nodes /\ step <= i - 1 /\ i - 1 < l.size /\ (i - 1) + 1 = i
          BY <1>1, <2>1, <2>3, <3>4
        <5> QED BY <1>3, <5>1
      <4> QED BY <3>1, <3>2, <4>1, <4>2, <4>3
    <3> QED BY <3>3, <3>4
  <2> QED BY <1>1, <2>1, <2>2, <2>3
<1>13. Rep(m, h)
  <2>1. m.size # 0
    BY <1>1, <1>5
  <2> QED BY <1>2, <1>5, <1>10, <1>11, <1>12, <2>1 DEF Rep, Linking
<1>14. ASSUME NEW k \in 1..l.size - 1
       PROVE  DataOf(m, h)[k] = IF k < step THEN DataOf(l, g)[k] ELSE DataOf(l, g)[k + 1]
  <2>1. DataOf(m, h)[k] = m.un[h[k]].data /\ \A j \in 1..l.size : DataOf(l, g)[j] = l.un[g[j]].data
    BY <1>5 DEF DataOf
  <2>2. CASE k < step
    <3>1. k \in Nodes /\ h[k] = g[k] /\ k \in 1..l.size
      BY <1>1, <1>3, <2>2
    <3> QED BY <1>8, <2>1, <2>2, <3>1
  <2>3. CASE ~(k < step)
    <3>1. k \in Nodes /\ h[k] = g[k + 1] /\ k + 1 \in step + 1..l.size /\ k + 1 \in 1..l.size
      BY <1>1, <1>3, <2>3
    <3> QED BY <1>8, <2>1, <2>3, <3>1
  <2> QED BY <2>2, <2>3
<1> QED BY <1>5, <1>13, <1>14 DEF m, h, p

-----------------------------------------------------------------------------
\* Nodes that are written and stay where they are.
LEMMA WriteRep ==
  ASSUME NEW l, NEW g, Rep(l, g), NEW un \in [Nodes -> UN_STR],
         \A i \in 1..l.size : un[g[i]].step = i
  PROVE  LET m == [l EXCEPT !.un = un]
         IN  Rep(m, g) /\ m.size = l.size /\ m.un = un
<1>1. PICK m : m = [l EXCEPT !.un = un]
  OBVIOUS
<1>2. /\ m.un = un /\ m.next = l.next /\ m.prev = l.prev /\ m.head = l.head
      /\ m.tail = l.tail /\ m.size = l.size /\ m.free = l.free
      /\ m = [un |-> m.un, next |-> m.next, prev |-> m.prev, head |-> m.head,
              tail |-> m.tail, size |-> m.size, free |-> m.free]
  BY <1>1 DEF Rep, PoolType
<1>3. m \in PoolType
  BY <1>2 DEF Rep, PoolType
<1>4. Linking(m, g)
  BY <1>2 DEF Rep, Linking, EndOf
<1>5. Rep(m, g)
  BY <1>2, <1>3, <1>4 DEF Rep
<1> QED BY <1>1, <1>2, <1>5

\* swap_step exchanges two steps of the sequence.
LEMMA SwapRep ==
  ASSUME NEW l, NEW g, Rep(l, g), NEW one \in 1..l.size, NEW two \in 1..l.size, one # two
  PROVE  LET m == swap_step(l, one, two)
         IN  /\ Rep(m, g)
             /\ m.size = l.size
             /\ \A k \in 1..l.size :
                  DataOf(m, g)[k] = IF k = one THEN DataOf(l, g)[two]
                                    ELSE IF k = two THEN DataOf(l, g)[one] ELSE DataOf(l, g)[k]
<1> DEFINE m == swap_step(l, one, two)
           node1 == g[one]
           node2 == g[two]
           un == [l.un EXCEPT ![node1] = [l.un[node2] EXCEPT !.step = one],
                              ![node2] = [l.un[node1] EXCEPT !.step = two]]
<1>1. /\ TOTALSTEP_NUM \in Nat /\ l.size \in 1..TOTALSTEP_NUM /\ Nodes = 1..TOTALSTEP_NUM
      /\ l.un \in [Nodes -> UN_STR]
      /\ \A i \in Nodes : g[i] \in Nodes /\ \A j \in Nodes : g[i] = g[j] <=> i = j
      /\ \A i \in Nodes : i <= l.size => l.un[g[i]].step = i
  BY RepPlaces DEF Nodes
<1>2. position_step(l, one) = node1 /\ position_step(l, two) = node2
  <2>1. one \in Nat /\ two \in Nat
    BY <1>1
  <2> QED BY <2>1, PositionRep
<1>3. /\ one \in Nodes /\ two \in Nodes /\ one \in 0..TOTALSTEP_NUM /\ two \in 0..TOTALSTEP_NUM
      /\ ~(one > l.size) /\ ~(two > l.size)
      /\ \A k \in 1..l.size : k \in Nodes /\ k <= l.size
  BY <1>1
<1>4. m = [l EXCEPT !.un = un]
  <2> HIDE DEF node1, node2
  <2> QED BY <1>2, <1>3 DEF swap_step
<1>5. /\ node1 \in Nodes /\ node2 \in Nodes /\ node1 # node2
      /\ \A k \in 1..l.size : /\ g[k] \in Nodes /\ l.un[g[k]].step = k
                              /\ (g[k] = node1 <=> k = one) /\ (g[k] = node2 <=> k = two)
  BY <1>1, <1>3
<1> HIDE DEF node1, node2
<1>6. un \in [Nodes -> UN_STR]
  <2>1. /\ [l.un[node2] EXCEPT !.step = one] \in UN_STR
        /\ [l.un[node1] EXCEPT !.step = two] \in UN_STR
    BY <1>1, <1>3, <1>5 DEF UN_STR
  <2> QED BY <1>1, <1>5, <2>1
<1>7. ASSUME NEW k \in 1..l.size
      PROVE  /\ un[g[k]].step = k
             /\ un[g[k]].data = IF k = one THEN l.un[node2].data
                                ELSE IF k = two THEN l.un[node1].data ELSE l.un[g[k]].data
  <2>1. /\ k = one => un[g[k]] = [l.un[node2] EXCEPT !.step = one]
        /\ k = two => un[g[k]] = [l.un[node1] EXCEPT !.step = two]
        /\ k # one /\ k # two => un[g[k]] = l.un[g[k]]
    BY <1>1, <1>5
  <2>2. l.un[node1] \in UN_STR /\ l.un[node2] \in UN_STR
    BY <1>1, <1>5
  <2> HIDE DEF un
  <2> QED BY <1>5, <2>1, <2>2 DEF UN_STR
<1> HIDE DEF un
<1>8. Rep(m, g) /\ m.size = l.size /\ m.un = un
  <2>1. \A k \in 1..l.size : un[g[k]].step = k
    BY <1>7
  <2> QED BY <1>4, <1>6, <2>1, WriteRep
<1> HIDE DEF m
<1>9. ASSUME NEW k \in 1..l.size
      PROVE  DataOf(m, g)[k] = IF k = one THEN DataOf(l, g)[two]
                               ELSE IF k = two THEN DataOf(l, g)[one] ELSE DataOf(l, g)[k]
  BY <1>7, <1>8 DEF DataOf, node1, node2
<1> QED BY <1>8, <1>9 DEF m

\* Writing the data of one step writes one member of the sequence.
LEMMA EditRep ==
  ASSUME NEW l, NEW g, Rep(l, g), NEW step \in 1..l.size, NEW p \in Payloads
  PROVE  LET m == [l EXCEPT !.un[position_step(l, step)].data = p]
         IN  /\ Rep(m, g)
             /\ m.size = l.size
             /\ \A k \in 1..l.size :
                  DataOf(m, g)[k] = IF k = step THEN p ELSE DataOf(l, g)[k]
<1> DEFINE node == g[step]
           un == [l.un EXCEPT ![node] = [l.un[node] EXCEPT !.data = p]]
           m == [l EXCEPT !.un = un]
<1>1. /\ TOTALSTEP_NUM \in Nat /\ l.size \in 1..TOTALSTEP_NUM /\ Nodes = 1..TOTALSTEP_NUM
      /\ l.un \in [Nodes -> UN_STR]
      /\ \A i \in Nodes : g[i] \in Nodes /\ \A j \in Nodes : g[i] = g[j] <=> i = j
      /\ \A i \in Nodes : i <= l.size => l.un[g[i]].step = i
  BY RepPlaces DEF Nodes
<1>2. /\ step \in Nat /\ step \in Nodes
      /\ \A k \in 1..l.size : k \in Nodes /\ k <= l.size
  BY <1>1
<1>3. position_step(l, step) = node
  BY <1>2, PositionRep
<1>4. [l EXCEPT !.un[position_step(l, step)].data = p] = m
  <2>1. l \in PoolType
    BY DEF Rep
  <2> HIDE DEF node
  <2> QED BY <1>3, <2>1 DEF PoolType
<1>5. /\ node \in Nodes
      /\ \A k \in 1..l.size : /\ g[k] \in Nodes /\ l.un[g[k]].step = k
                              /\ (g[k] = node <=> k = step)
  BY <1>1, <1>2
<1> HIDE DEF node
<1>6. un \in [Nodes -> UN_STR]
  <2>1. [l.un[node] EXCEPT !.data = p] \in UN_STR
    BY <1>1, <1>5 DEF UN_STR
  <2> QED BY <1>1, <1>5, <2>1
<1>7. ASSUME NEW k \in 1..l.size
      PROVE  /\ un[g[k]].step = k
             /\ un[g[k]].data = IF k = step THEN p ELSE l.un[g[k]].data
  <2>1. /\ k = step => un[g[k]] = [l.un[node] EXCEPT !.data = p]
        /\ k # step => un[g[k]] = l.un[g[k]]
    BY <1>1, <1>5
  <2>2. l.un[node] \in UN_STR /\ l.un[g[k]].step = k /\ (k = step => node = g[k])
    BY <1>1, <1>5
  <2> HIDE DEF un
  <2> QED BY <2>1, <2>2 DEF UN_STR
<1> HIDE DEF un
<1>8. Rep(m, g) /\ m.size = l.size /\ m.un = un
  <2>1. \A k \in 1..l.size : un[g[k]].step = k
    BY <1>7
  <2> QED BY <1>6, <2>1, WriteRep
<1> HIDE DEF m
<1>9. ASSUME NEW k \in 1..l.size
      PROVE  DataOf(m, g)[k] = IF k = step THEN p ELSE DataOf(l, g)[k]
  BY <1>7, <1>8 DEF DataOf
<1> QED BY <1>4, <1>8, <1>9

-----------------------------------------------------------------------------
\* The pool after init_list: the nodes in their order, the first one a step.
LEMMA InitRep == Rep(init_list, [n \in Nodes |-> n]) /\ init_list.size = 1
<1> DEFINE g == [n \in Nodes |-> n]
<1>1. TOTALSTEP_NUM \in Nat \ {0} /\ Default \in Payloads /\ Nodes = 1..TOTALSTEP_NUM
      /\ Links = 0..TOTALSTEP_NUM
  BY PoolAssumption DEF Nodes, Links, NULL
<1>2. init_list \in PoolType
  <2>1. \A n \in Nodes : [step |-> IF n = 1 THEN 1 ELSE 0, data |-> Default] \in UN_STR
    BY <1>1 DEF UN_STR
  <2>2. init_list.un \in [Nodes -> UN_STR]
    BY <2>1 DEF init_list
  <2>3. init_list.next \in [Nodes -> Links] /\ init_list.prev \in [Nodes -> Links]
    BY <1>1 DEF init_list, NULL
  <2>4. /\ init_list.head \in Links /\ init_list.tail \in Links /\ init_list.free \in Links
        /\ init_list.size \in 0..TOTALSTEP_NUM
    BY <1>1 DEF init_list, NULL
  <2>5. init_list = [un |-> init_list.un, next |-> init_list.next, prev |-> init_list.prev,
                     head |-> init_list.head, tail |-> init_list.tail,
                     size |-> init_list.size, free |-> init_list.free]
    BY DEF init_list
  <2> QED BY <2>2, <2>3, <2>4, <2>5 DEF PoolType
<1>3. Enumeration(g)
  BY DEF Enumeration
<1>4. Linking(init_list, g)
  <2>1. /\ init_list.head = g[1] /\ init_list.tail = g[init_list.size] /\ init_list.size = 1
        /\ init_list.free = IF init_list.size = TOTALSTEP_NUM THEN NULL
                            ELSE g[init_list.size + 1]
    BY <1>1 DEF init_list
  <2>2. ASSUME NEW i \in Nodes
        PROVE  init_list.next[g[i]] = IF i = EndOf(init_list, i) THEN NULL ELSE g[i + 1]
    <3>1. init_list.next[g[i]] = IF i \in {1, TOTALSTEP_NUM} THEN NULL ELSE i + 1
      BY DEF init_list
    <3>2. EndOf(init_list, i) = IF i = 1 THEN 1 ELSE TOTALSTEP_NUM
      BY <1>1, <2>1 DEF EndOf
    <3>3. i # TOTALSTEP_NUM => g[i + 1] = i + 1
      BY <1>1
    <3> QED BY <3>1, <3>2, <3>3
  <2>3. ASSUME NEW i \in 1..init_list.size
        PROVE  /\ init_list.un[g[i]].step = i
               /\ init_list.prev[g[i]] = IF i = 1 THEN NULL ELSE g[i - 1]
    BY <1>1, <2>1 DEF init_list
  <2> QED BY <2>1, <2>2, <2>3 DEF Linking
<1> QED BY <1>2, <1>3, <1>4 DEF Rep, init_list

\* The pools an enumeration describes.
Pools == {l \in PoolType : \E g : Rep(l, g)}

\* insert_after leads from such a pool to such a pool: behind a step of a list
\* that is not full it adds one, and otherwise it changes nothing.
LEMMA InsertClosed ==
  ASSUME NEW l \in Pools, NEW step \in Nat \ {0}
  PROVE  /\ insert_after(l, step) \in Pools
         /\ insert_after(l, step).size =
              IF step <= l.size /\ l.size < TOTALSTEP_NUM THEN l.size + 1 ELSE l.size
<1>1. PICK g : Rep(l, g)
  BY DEF Pools
<1>2. /\ TOTALSTEP_NUM \in Nat /\ l.size \in 1..TOTALSTEP_NUM
      /\ l.size = TOTALSTEP_NUM <=> l.free = NULL
  <2>1. /\ TOTALSTEP_NUM \in Nat /\ l.size \in 1..TOTALSTEP_NUM
        /\ l.free = IF l.size = TOTALSTEP_NUM THEN NULL ELSE g[l.size + 1]
        /\ \A i \in Nodes : g[i] # NULL
    BY <1>1, RepPlaces
  <2>2. l.size # TOTALSTEP_NUM => l.size + 1 \in Nodes
    BY <2>1 DEF Nodes
  <2> QED BY <2>1, <2>2
<1>3. CASE step <= l.size /\ l.size < TOTALSTEP_NUM
  <2>1. step \in 1..l.size
    BY <1>2, <1>3
  <2>2. /\ \E h : Rep(insert_after(l, step), h)
        /\ insert_after(l, step).size = l.size + 1
    BY <1>1, <1>3, <2>1, InsertRep
  <2> QED BY <1>3, <2>2 DEF Pools, Rep
<1>4. CASE ~(step <= l.size /\ l.size < TOTALSTEP_NUM)
  <2>1. step > l.size \/ l.free = NULL
    BY <1>2, <1>4
  <2>2. insert_after(l, step) = l
    BY <2>1 DEF insert_after
  <2> QED BY <1>4, <2>2
<1> QED BY <1>3, <1>4

\* read_flash_to_list leaves the steps of the image in the list, in their order.
LEMMA LoadedRep ==
  ASSUME NEW n \in 1..TOTALSTEP_NUM, NEW file \in [1..n -> Payloads]
  PROVE  \E g : Rep(Loaded(file), g) /\ Loaded(file).size = n /\ DataOf(Loaded(file), g) = file
<1> DEFINE T == TOTALSTEP_NUM
           image == [i \in DOMAIN file |-> [step |-> i, data |-> file[i]]]
           Def(f) == [i \in 0..T |-> IF i = 0 THEN init_list ELSE insert_after(f[i - 1], i)]
           grow == CHOOSE f : f = Def(f)
           grown == grow[n - 1]
           at == Walk(grown, grown.head)
           un == [v \in Nodes |-> IF \E i \in 1..n : at[i - 1] = v
                                  THEN image[CHOOSE i \in 1..n : at[i - 1] = v]
                                  ELSE grown.un[v]]
<1>1. T \in Nat /\ n \in 1..T /\ Nodes = 1..T /\ DOMAIN file = 1..n
  BY PoolAssumption DEF Nodes
<1>2. Loaded(file) = [grown EXCEPT !.un = un]
  <2>1. Cardinality(DOMAIN file) = n
    BY <1>1, FS_Interval
  <2>2. ~(n > TOTALSTEP_NUM) /\ n # 0
    BY <1>1
  <2>3. Loaded(file) = read_flash_to_list(init_list, image, n)
    BY <2>1 DEF Loaded
  <2> QED BY <2>2, <2>3 DEF read_flash_to_list
<1>3. init_list \in Pools
  BY InitRep DEF Pools, Rep
<1>4. grow = Def(grow)
  <2> DEFINE steps == [i \in 1..T |-> [l \in Pools |-> insert_after(l, i)]]
  <2>1. \A i \in 1..T : \A l \in Pools : insert_after(l, i) \in Pools
    BY <1>1, InsertClosed
  <2>2. steps \in Steps(T, Pools)
    BY <2>1 DEF Steps
  <2>3. PICK f \in [0..T -> Pools] : Follows(f, T, init_list, steps)
    BY <1>1, <1>3, <2>2, Recursion
  <2>4. f = Def(f)
    <3>1. f[0] = init_list /\ \A i \in 1..T : f[i] = steps[i][f[i - 1]]
      BY <2>3 DEF Follows
    <3>2. \A i \in 1..T : f[i - 1] \in Pools
      BY <1>1
    <3>3. \A i \in 1..T : f[i] = insert_after(f[i - 1], i)
      BY <3>1, <3>2
    <3>4. \A i \in 0..T : f[i] = Def(f)[i]
      BY <1>1, <3>1, <3>3
    <3> QED BY <3>4
  <2> QED BY <2>4
<1> HIDE DEF grow
<1>5. /\ grow[0] = init_list
      /\ \A i \in 1..T : grow[i] = insert_after(grow[i - 1], i)
  <2>1. grow = [i \in 0..T |-> IF i = 0 THEN init_list ELSE insert_after(grow[i - 1], i)]
    BY <1>4
  <2> QED BY <1>1, <2>1
<1>6. grown \in Pools /\ grown.size = n
  <2> DEFINE S == {i \in Nat : i < T => grow[i] \in Pools /\ grow[i].size = i + 1}
  <2>1. 0 \in S /\ S \in SUBSET Nat
    BY <1>3, <1>5, InitRep
  <2>2. ASSUME NEW i \in S, i < T PROVE i + 1 \in S
    <3>1. /\ i \in Nat /\ i + 1 \in 1..T /\ (i + 1) - 1 = i /\ i + 1 \in Nat \ {0}
          /\ grow[i] \in Pools /\ grow[i].size = i + 1
      BY <1>1, <2>2
    <3>2. grow[i + 1] = insert_after(grow[i], i + 1)
      BY <1>5, <3>1
    <3>3. /\ grow[i + 1] \in Pools
          /\ grow[i + 1].size = IF i + 1 <= grow[i].size /\ grow[i].size < TOTALSTEP_NUM
                                THEN grow[i].size + 1 ELSE grow[i].size
      BY <3>1, <3>2, InsertClosed
    <3>4. i + 1 < T => grow[i + 1].size = (i + 1) + 1
      BY <3>1, <3>3
    <3> QED BY <3>1, <3>3, <3>4
  <2> HIDE DEF S
  <2>3. 0..T \subseteq S
    BY <1>1, <2>1, <2>2, SetInduction
  <2>4. n - 1 \in 0..T /\ n - 1 < T /\ (n - 1) + 1 = n
    BY <1>1
  <2> QED BY <2>3, <2>4 DEF S
<1> HIDE DEF grown
<1>7. PICK g : Rep(grown, g)
  BY <1>6 DEF Pools
<1>8. /\ grown.un \in [Nodes -> UN_STR]
      /\ \A i \in Nodes : g[i] \in Nodes /\ \A j \in Nodes : g[i] = g[j] <=> i = j
  BY <1>7, RepPlaces
<1>9. \A i \in 1..n : at[i - 1] = g[i]
  <2>1. grown.head = g[1] /\ 1 \in Nodes /\ EndOf(grown, 1) = n
    BY <1>1, <1>6, <1>7 DEF Rep, Linking, EndOf
  <2>2. \A k \in 0..T : at[k] = IF 1 + k <= EndOf(grown, 1) THEN g[1 + k] ELSE NULL
    BY <1>7, <2>1, WalkRep
  <2>3. \A i \in 1..n : i - 1 \in 0..T /\ 1 + (i - 1) = i /\ i <= n
    BY <1>1
  <2> HIDE DEF at
  <2> QED BY <2>1, <2>2, <2>3
<1> HIDE DEF at
<1>10. \A i \in 1..n : i \in Nodes /\ image[i] = [step |-> i, data |-> file[i]] /\ image[i] \in UN_STR
  <2>1. ASSUME NEW i \in 1..n
        PROVE  i \in Nodes /\ i \in 0..TOTALSTEP_NUM /\ file[i] \in Payloads
    BY <1>1
  <2> QED BY <1>1, <2>1 DEF UN_STR
<1> HIDE DEF image
<1>11. un \in [Nodes -> UN_STR]
  <2>1. ASSUME NEW v \in Nodes, \E i \in 1..n : at[i - 1] = v
        PROVE  image[CHOOSE i \in 1..n : at[i - 1] = v] \in UN_STR
    BY <1>10, <2>1
  <2> QED BY <1>8, <2>1
<1>12. ASSUME NEW i \in 1..n PROVE un[g[i]] = image[i]
  <2>1. at[i - 1] = g[i] /\ g[i] \in Nodes
    BY <1>8, <1>9, <1>10
  <2>2. \A j \in 1..n : at[j - 1] = g[i] => j = i
    BY <1>8, <1>9, <1>10
  <2>3. (CHOOSE j \in 1..n : at[j - 1] = g[i]) = i
    BY <2>1, <2>2
  <2> QED BY <2>1, <2>3
<1> HIDE DEF un
<1>13. ASSUME NEW i \in 1..n PROVE un[g[i]].step = i /\ un[g[i]].data = file[i]
  <2>1. un[g[i]] = [step |-> i, data |-> file[i]]
    BY <1>10, <1>12
  <2> QED BY <2>1
<1>14. Rep(Loaded(file), g) /\ Loaded(file).size = n /\ Loaded(file).un = un
  <2>1. \A i \in 1..grown.size : un[g[i]].step = i
    BY <1>6, <1>13
  <2> QED BY <1>2, <1>6, <1>7, <1>11, <2>1, WriteRep
<1>15. DataOf(Loaded(file), g) = file
  BY <1>1, <1>13, <1>14 DEF DataOf
<1> QED BY <1>14, <1>15

-----------------------------------------------------------------------------
\* The sequence of steps, by walking over the list and by the enumeration.
ContentsOf(l) == LET at == Walk(l, l.head)
                 IN  [k \in 1..l.size |-> l.un[at[k - 1]].data]

\* Both ways of reading the sequence agree.
LEMMA ContentsRep ==
  ASSUME NEW l, NEW g, Rep(l, g)
  PROVE  /\ ContentsOf(l) = DataOf(l, g)
         /\ l.size \in 1..TOTALSTEP_NUM
         /\ DataOf(l, g) \in [1..l.size -> Payloads]
         /\ \A k \in 1..l.size : DataOf(l, g)[k] = l.un[g[k]].data
<1> DEFINE at == Walk(l, l.head)
<1>1. /\ TOTALSTEP_NUM \in Nat /\ l.size \in 1..TOTALSTEP_NUM /\ l.un \in [Nodes -> UN_STR]
      /\ l.head = g[1] /\ \A i \in Nodes : g[i] \in Nodes
      /\ Nodes = 1..TOTALSTEP_NUM
  BY RepPlaces DEF Nodes
<1>2. \A k \in 1..l.size : at[k - 1] = g[k]
  <2>1. 1 \in Nodes /\ EndOf(l, 1) = l.size
    BY <1>1 DEF EndOf
  <2>2. \A k \in 0..TOTALSTEP_NUM : at[k] = IF 1 + k <= l.size THEN g[1 + k] ELSE NULL
    BY <1>1, <2>1, WalkRep
  <2>3. \A k \in 1..l.size : k - 1 \in 0..TOTALSTEP_NUM /\ 1 + (k - 1) = k /\ k <= l.size
    BY <1>1
  <2> HIDE DEF at
  <2> QED BY <2>2, <2>3
<1> HIDE DEF at
<1>3. ContentsOf(l) = [k \in 1..l.size |-> l.un[at[k - 1]].data]
  BY DEF ContentsOf, at
<1>4. \A k \in 1..l.size : l.un[g[k]].data \in Payloads
  <2>1. \A k \in 1..l.size : k \in Nodes
    BY <1>1
  <2> QED BY <1>1, <2>1 DEF UN_STR
<1> QED BY <1>1, <1>2, <1>3, <1>4 DEF DataOf

\* The rows first + 1, first + 2, .. of a list, as far as a page and the list go.
Page(l, g, first) ==
  [r \in {r \in 1..items_count : r + first <= l.size} |-> DataOf(l, g)[first + r]]

\* What a drawing that starts at the node of row first + 1 shows.
LEMMA DrawRep ==
  ASSUME NEW l, NEW g, Rep(l, g), NEW first \in Nat,
         Draw(l, first, position_step(l, first + 1))
  PROVE  shown' = Page(l, g, first) /\ g_cur_step' \in Links
<1> DEFINE T == TOTALSTEP_NUM
           start == position_step(l, first + 1)
           at == Walk(l, start)
           rows == {r \in 1..items_count : r + first <= l.size /\ at[r - 1] # NULL}
<1>1. /\ T \in Nat /\ l.size \in 1..T /\ Nodes = 1..T /\ items_count \in Nat
      /\ l.next \in [Nodes -> Links]
      /\ \A i \in Nodes : g[i] \in Nodes /\ g[i] # NULL
  BY RepPlaces, RowsAssumption DEF Nodes
<1>2. start = IF first + 1 \in 1..l.size THEN g[first + 1] ELSE NULL
  <2>1. first + 1 \in Nat
    OBVIOUS
  <2> QED BY <2>1, PositionRep
<1>3. shown' = [r \in rows |-> l.un[at[r - 1]].data] /\ g_cur_step' = at[Cardinality(rows)]
  BY DEF Draw
<1>4. start \in Links
  <2>1. first + 1 \in 1..l.size => first + 1 \in Nodes
    BY <1>1
  <2> QED BY <1>1, <1>2, <2>1 DEF Links
<1>5. at \in [0..T -> Links]
  BY <1>1, <1>4, WalkRec
<1> HIDE DEF start
<1>6. \A r \in 1..items_count : r + first <= l.size => at[r - 1] = g[first + r]
  <2> SUFFICES ASSUME NEW r \in 1..items_count, r + first <= l.size
               PROVE  at[r - 1] = g[first + r]
    OBVIOUS
  <2>1. /\ first + 1 \in 1..l.size /\ first + 1 \in Nodes /\ r - 1 \in 0..T
        /\ (first + 1) + (r - 1) = first + r /\ (first + 1) + (r - 1) <= l.size
        /\ EndOf(l, first + 1) = l.size
    BY <1>1 DEF EndOf
  <2>2. at[r - 1] = IF (first + 1) + (r - 1) <= EndOf(l, first + 1)
                    THEN g[(first + 1) + (r - 1)] ELSE NULL
    BY <1>2, <2>1, WalkRep
  <2> QED BY <2>1, <2>2
<1>7. \A r \in 1..items_count : r + first <= l.size => first + r \in 1..l.size /\ first + r \in Nodes
  BY <1>1
<1> HIDE DEF at
<1>8. rows = {r \in 1..items_count : r + first <= l.size}
  BY <1>1, <1>6, <1>7
<1>9. Cardinality(rows) \in 0..T
  <2>1. rows \subseteq 1..l.size
    BY <1>1, <1>8
  <2>2. IsFiniteSet(1..l.size) /\ Cardinality(1..l.size) = l.size
    <3>1. 1 \in Int /\ l.size \in Int /\ ~(1 > l.size) /\ (l.size - 1) + 1 = l.size
      BY <1>1
    <3> QED BY <3>1, FS_Interval
  <2>3. IsFiniteSet(rows) /\ Cardinality(rows) <= l.size
    BY <2>1, <2>2, FS_Subset
  <2>4. Cardinality(rows) \in Nat
    BY <2>3, FS_CardinalityType
  <2> QED BY <1>1, <2>3, <2>4
<1>10. g_cur_step' \in Links
  BY <1>3, <1>5, <1>9
<1> HIDE DEF rows
<1>11. \A r \in rows : l.un[at[r - 1]].data = DataOf(l, g)[first + r]
  BY <1>6, <1>7, <1>8, ContentsRep
<1> QED BY <1>3, <1>8, <1>10, <1>11 DEF Page

\* A page is a segment of the sequence, of at most items_count rows.
LEMMA PageIsSubSeq ==
  ASSUME NEW l, NEW g, Rep(l, g), NEW first \in Nat
  PROVE  /\ Page(l, g, first) =
              SubSeq(ContentsOf(l), first + 1,
                     IF first + items_count < l.size THEN first + items_count ELSE l.size)
         /\ Page(l, g, first) \in UNION {[1..n -> Payloads] : n \in 0..items_count}
<1> DEFINE s == DataOf(l, g)
           last == IF first + items_count < l.size THEN first + items_count ELSE l.size
           rows == {r \in 1..items_count : r + first <= l.size}
<1>1. /\ l.size \in Nat /\ items_count \in Nat \ {0} /\ last \in Nat
      /\ s = ContentsOf(l) /\ s \in [1..l.size -> Payloads]
  BY ContentsRep, RowsAssumption, PoolAssumption
<1>2. s \in Seq(Payloads) /\ Len(s) = l.size
  BY <1>1
<1> HIDE DEF s
<1>3. Page(l, g, first) = [r \in rows |-> s[first + r]]
  BY DEF Page, s
<1>4. CASE first < l.size
  <2>1. /\ rows = 1..last - first /\ last - first \in 0..items_count
        /\ first + 1 \in 1..Len(s) + 1 /\ last \in (first + 1) - 1..Len(s)
        /\ last - (first + 1) + 1 = last - first
        /\ \A r \in 1..last - first : (first + 1) + r - 1 = first + r /\ first + r \in 1..l.size
    BY <1>1, <1>2, <1>4
  <2> HIDE DEF last, rows
  <2>2. /\ SubSeq(s, first + 1, last) \in Seq(Payloads)
        /\ Len(SubSeq(s, first + 1, last)) = last - first
        /\ \A r \in 1..last - first : SubSeq(s, first + 1, last)[r] = s[first + r]
    BY <1>2, <2>1, SubSeqProperties
  <2>3. SubSeq(s, first + 1, last) = [r \in rows |-> s[first + r]]
    BY <2>1, <2>2
  <2>4. [r \in rows |-> s[first + r]] \in [1..last - first -> Payloads]
    BY <1>1, <2>1
  <2> QED BY <1>1, <1>3, <2>1, <2>3, <2>4 DEF last
<1>5. CASE ~(first < l.size)
  <2>1. rows = {} /\ last = l.size /\ l.size < first + 1
    BY <1>1, <1>5
  <2> HIDE DEF last, rows
  <2>2. SubSeq(s, first + 1, last) = << >>
    BY <1>1, <1>2, <2>1, SubSeqEmpty
  <2>3. Page(l, g, first) = << >> /\ << >> \in [1..0 -> Payloads] /\ 0 \in 0..items_count
    BY <1>1, <1>3, <2>1
  <2> QED BY <1>1, <2>2, <2>3 DEF last
<1> QED BY <1>1, <1>4, <1>5

-----------------------------------------------------------------------------
\* The inductive invariant: an enumeration describes the pool, and the page that
\* an open panel shows is the page of the selected row.
IInv == /\ \E g : Rep(list, g)
        /\ panel \in {"home", "step"}
        /\ current_item \in 0..TOTALSTEP_NUM
        /\ start_item \in 0..TOTALSTEP_NUM
        /\ g_cur_step \in Links
        /\ shown \in UNION {[1..n -> Payloads] : n \in 0..items_count}
        /\ PageShown

\* The page of a row begins at or before it and reaches it.
LEMMA PageOfBounds ==
  ASSUME NEW item \in Nat
  PROVE  /\ PageOf(item) \in Nat /\ PageOf(item) <= item
         /\ item - PageOf(item) \in 0..items_count - 1
BY RowsAssumption DEF PageOf

\* Every key ends in a drawing that restores the invariant.
LEMMA RefreshInv ==
  ASSUME IInv, NEW l, NEW g, Rep(l, g), NEW item \in 0..TOTALSTEP_NUM, Refresh(l, item)
  PROVE  IInv' /\ list' = l /\ current_item' = item
<1> DEFINE first == PageOf(item)
<1>1. /\ item \in Nat /\ first \in Nat /\ first \in 0..TOTALSTEP_NUM
      /\ item - first \in 0..items_count - 1
  <2>1. TOTALSTEP_NUM \in Nat /\ item \in Nat
    BY PoolAssumption
  <2>2. first \in Nat /\ first <= item /\ item - first \in 0..items_count - 1
    BY <2>1, PageOfBounds
  <2> HIDE DEF first
  <2> QED BY <2>1, <2>2
<1>2. /\ list' = l /\ current_item' = item /\ start_item' = first
      /\ Draw(l, first, position_step(l, first + 1)) /\ panel' = panel
  BY DEF Refresh
<1> HIDE DEF first
<1>3. shown' = Page(l, g, first) /\ g_cur_step' \in Links
  BY <1>1, <1>2, DrawRep
<1>4. /\ Page(l, g, first) =
              SubSeq(ContentsOf(l), first + 1,
                     IF first + items_count < l.size THEN first + items_count ELSE l.size)
      /\ Page(l, g, first) \in UNION {[1..n -> Payloads] : n \in 0..items_count}
  BY <1>1, PageIsSubSeq
<1>5. PageShown'
  <2>1. Contents' = ContentsOf(l)
    BY <1>2 DEF Contents, ContentsOf
  <2> QED BY <1>1, <1>2, <1>3, <1>4, <2>1 DEF PageShown
<1>6. (\E h : Rep(list, h))'
  BY <1>2
<1> QED BY <1>1, <1>2, <1>3, <1>4, <1>5, <1>6 DEF IInv

\* Initially the list is that of a file.
LEMMA InitInv == ASSUME Init PROVE IInv
<1>1. PICK file \in Images : list = Loaded(file)
  BY DEF Init
<1>2. PICK n \in 1..TOTALSTEP_NUM : file \in [1..n -> Payloads]
  BY <1>1 DEF Images
<1>3. PICK g : Rep(list, g)
  BY <1>1, <1>2, LoadedRep
<1>4. list.head \in Links
  BY <1>3 DEF Rep, PoolType
<1>5. << >> \in [1..0 -> Payloads] /\ 0 \in 0..items_count /\ 0 \in 0..TOTALSTEP_NUM
  BY RowsAssumption, PoolAssumption
<1> QED BY <1>3, <1>4, <1>5 DEF Init, IInv, PageShown

\* The home thread opens the panel at the first step, whose node is the head.
LEMMA OpenEffect == ASSUME IInv, Open PROVE IInv'
<1>1. PICK g : Rep(list, g)
  BY DEF IInv
<1>2. position_step(list, 0 + 1) = list.head
  <2>1. 0 + 1 \in Nat /\ 0 + 1 \in 1..list.size /\ list.head = g[0 + 1]
    BY <1>1, RepPlaces
  <2> QED BY <1>1, <2>1, PositionRep
<1>3. Draw(list, 0, position_step(list, 0 + 1))
  BY <1>2 DEF Open
<1>4. shown' = Page(list, g, 0) /\ g_cur_step' \in Links
  BY <1>1, <1>3, DrawRep
<1>5. /\ Page(list, g, 0) =
           SubSeq(ContentsOf(list), 0 + 1,
                  IF 0 + items_count < list.size THEN 0 + items_count ELSE list.size)
      /\ Page(list, g, 0) \in UNION {[1..n -> Payloads] : n \in 0..items_count}
  BY <1>1, PageIsSubSeq
<1>6. Contents' = ContentsOf(list)
  BY DEF Open, Contents, ContentsOf
<1>7. 0 \in 0..TOTALSTEP_NUM /\ 0 - 0 \in 0..items_count - 1
  BY PoolAssumption, RowsAssumption
<1>8. PageShown'
  BY <1>4, <1>5, <1>6, <1>7 DEF Open, PageShown
<1>9. (\E h : Rep(list, h))'
  BY <1>1 DEF Open
<1> QED BY <1>4, <1>5, <1>7, <1>8, <1>9 DEF Open, IInv

\* Leaving the panel: g_cur_step points at the first step again.
LEMMA CloseEffect == ASSUME IInv, Close PROVE IInv'
<1>1. list.head \in Links
  BY DEF IInv, Rep, PoolType
<1>2. (\E h : Rep(list, h))'
  BY DEF IInv, Close
<1> QED BY <1>1, <1>2 DEF Close, IInv, PageShown

\* What the invariant says of the list as a sequence.
LEMMA ContentsFacts ==
  ASSUME IInv
  PROVE  /\ list.size \in 1..TOTALSTEP_NUM
         /\ Contents \in [1..list.size -> Payloads]
         /\ \A g : Rep(list, g) => Contents = DataOf(list, g)
<1>1. PICK g : Rep(list, g)
  BY DEF IInv
<1>2. Contents = ContentsOf(list)
  BY DEF Contents, ContentsOf
<1> QED BY <1>1, <1>2, ContentsRep

\* After a key, the sequence is the one its enumeration shows.
LEMMA RefreshContents ==
  ASSUME IInv, NEW l, NEW g, Rep(l, g), NEW item \in 0..TOTALSTEP_NUM, Refresh(l, item)
  PROVE  /\ IInv' /\ list' = l /\ current_item' = item
         /\ Contents' = DataOf(l, g)
         /\ DataOf(l, g) \in [1..l.size -> Payloads]
<1>1. IInv' /\ list' = l /\ current_item' = item
  BY RefreshInv
<1>2. Contents' = ContentsOf(l)
  BY <1>1 DEF Contents, ContentsOf
<1> QED BY <1>1, <1>2, ContentsRep

\* F1 writes the selected step and no other.
LEMMA EditEffect ==
  ASSUME IInv, NEW p \in Payloads, EditKey(p)
  PROVE  /\ IInv' /\ list'.size = list.size
         /\ Contents' \in [1..list.size -> Payloads]
         /\ \A k \in 1..list.size :
              Contents'[k] = IF k = current_item + 1 THEN p ELSE Contents[k]
<1>1. PICK g : Rep(list, g)
  BY DEF IInv
<1>2. current_item \in 0..TOTALSTEP_NUM /\ current_item + 1 \in 1..list.size
  BY ContentsFacts, PoolAssumption DEF IInv, EditKey, OnStep
<1> DEFINE m == [list EXCEPT !.un[position_step(list, current_item + 1)].data = p]
<1>3. Refresh(m, current_item)
  BY DEF EditKey
<1>4. /\ Rep(m, g) /\ m.size = list.size
      /\ \A k \in 1..list.size :
           DataOf(m, g)[k] = IF k = current_item + 1 THEN p ELSE DataOf(list, g)[k]
  BY <1>1, <1>2, EditRep
<1> HIDE DEF m
<1>5. Contents = DataOf(list, g)
  BY <1>1, ContentsFacts
<1>6. /\ IInv' /\ list' = m /\ Contents' = DataOf(m, g)
      /\ DataOf(m, g) \in [1..m.size -> Payloads]
  BY <1>2, <1>3, <1>4, RefreshContents
<1> QED BY <1>4, <1>5, <1>6

\* F2 puts a default step behind the selected one, or at the end, if a node is free.
LEMMA NewEffect ==
  ASSUME IInv, NewKey
  PROVE  LET at == IF current_item < list.size THEN current_item + 1 ELSE list.size
         IN  /\ IInv'
             /\ at \in 1..list.size
             /\ current_item' = IF current_item < list.size THEN current_item + 1 ELSE list'.size
             /\ list.size = TOTALSTEP_NUM => list' = list
             /\ list.size < TOTALSTEP_NUM =>
                  /\ list'.size = list.size + 1
                  /\ Contents' \in [1..list.size + 1 -> Payloads]
                  /\ \A k \in 1..list.size + 1 :
                       Contents'[k] = IF k <= at THEN Contents[k]
                                      ELSE IF k = at + 1 THEN Default ELSE Contents[k - 1]
<1> DEFINE at == IF current_item < list.size THEN current_item + 1 ELSE list.size
           m == insert_after(list, at)
           item == IF current_item < list.size THEN current_item + 1 ELSE m.size
<1>1. PICK g : Rep(list, g)
  BY DEF IInv
<1>2. /\ TOTALSTEP_NUM \in Nat /\ list.size \in 1..TOTALSTEP_NUM
      /\ current_item \in 0..TOTALSTEP_NUM /\ current_item < TOTALSTEP_NUM
      /\ at \in 1..list.size /\ at \in Nat \ {0} /\ at <= list.size
  BY ContentsFacts, PoolAssumption DEF IInv, NewKey
<1>3. Refresh(m, item)
  BY DEF NewKey
<1> HIDE DEF at
<1>4. m \in Pools /\ m.size = IF list.size < TOTALSTEP_NUM THEN list.size + 1 ELSE list.size
  BY <1>1, <1>2, InsertClosed DEF Pools, Rep
<1>5. list.size = TOTALSTEP_NUM => m = list
  <2>1. list.size = TOTALSTEP_NUM => list.free = NULL
    BY <1>1, RepPlaces
  <2> QED BY <2>1 DEF insert_after
<1>6. Contents = DataOf(list, g)
  BY <1>1, ContentsFacts
<1>7. list.size < TOTALSTEP_NUM =>
        \E h : /\ Rep(m, h)
               /\ \A k \in 1..list.size + 1 :
                    DataOf(m, h)[k] = IF k <= at THEN DataOf(list, g)[k]
                                      ELSE IF k = at + 1 THEN Default ELSE DataOf(list, g)[k - 1]
  BY <1>1, <1>2, InsertRep
<1> HIDE DEF m
<1>8. item \in 0..TOTALSTEP_NUM
  BY <1>2, <1>4
<1>9. item = IF current_item < list.size THEN current_item + 1 ELSE m.size
  OBVIOUS
<1> HIDE DEF item
<1>10. CASE list.size = TOTALSTEP_NUM
  <2>1. IInv' /\ list' = m /\ current_item' = item
    BY <1>1, <1>3, <1>5, <1>8, <1>10, RefreshInv
  <2> QED BY <1>2, <1>5, <1>9, <1>10, <2>1 DEF at
<1>11. CASE list.size < TOTALSTEP_NUM
  <2>1. PICK h : /\ Rep(m, h)
                 /\ \A k \in 1..list.size + 1 :
                      DataOf(m, h)[k] = IF k <= at THEN DataOf(list, g)[k]
                                        ELSE IF k = at + 1 THEN Default
                                        ELSE DataOf(list, g)[k - 1]
    BY <1>7, <1>11
  <2>2. /\ IInv' /\ list' = m /\ current_item' = item /\ Contents' = DataOf(m, h)
        /\ DataOf(m, h) \in [1..m.size -> Payloads]
    BY <1>3, <1>8, <2>1, RefreshContents
  <2>3. m.size = list.size + 1 /\ list.size # TOTALSTEP_NUM
    BY <1>2, <1>4, <1>11
  <2>4. \A k \in 1..list.size + 1 :
          Contents'[k] = IF k <= at THEN Contents[k]
                         ELSE IF k = at + 1 THEN Default ELSE Contents[k - 1]
    BY <1>6, <2>1, <2>2
  <2> QED BY <1>2, <1>9, <2>2, <2>3, <2>4 DEF at
<1> QED BY <1>2, <1>10, <1>11

\* F3 takes the selected step out, unless it is the only one.
LEMMA DeleteEffect ==
  ASSUME IInv, DeleteKey
  PROVE  /\ IInv'
         /\ current_item + 1 \in 1..list.size
         /\ list.size = 1 => list' = list
         /\ list.size > 1 =>
              /\ list'.size = list.size - 1
              /\ Contents' \in [1..list.size - 1 -> Payloads]
              /\ \A k \in 1..list.size - 1 :
                   Contents'[k] = IF k < current_item + 1 THEN Contents[k] ELSE Contents[k + 1]
<1> DEFINE at == current_item + 1
           m == remove_step(list, at)
<1>1. PICK g : Rep(list, g)
  BY DEF IInv
<1>2. /\ TOTALSTEP_NUM \in Nat /\ list.size \in 1..TOTALSTEP_NUM
      /\ current_item \in 0..TOTALSTEP_NUM /\ at \in 1..list.size
  BY ContentsFacts, PoolAssumption DEF IInv, DeleteKey, OnStep
<1>3. Refresh(m, current_item)
  BY DEF DeleteKey
<1>4. Contents = DataOf(list, g)
  BY <1>1, ContentsFacts
<1>5. CASE list.size = 1
  <2>1. m = list
    BY <1>5 DEF remove_step
  <2> HIDE DEF m
  <2>2. IInv' /\ list' = m
    BY <1>1, <1>2, <1>3, <2>1, RefreshInv
  <2> QED BY <1>2, <1>5, <2>1, <2>2
<1>6. CASE list.size > 1
  <2> HIDE DEF at
  <2>1. PICK h : /\ Rep(m, h)
                 /\ m.size = list.size - 1
                 /\ \A k \in 1..list.size - 1 :
                      DataOf(m, h)[k] = IF k < at THEN DataOf(list, g)[k]
                                        ELSE DataOf(list, g)[k + 1]
    BY <1>1, <1>2, <1>6, RemoveRep
  <2> HIDE DEF m
  <2>2. /\ IInv' /\ list' = m /\ Contents' = DataOf(m, h)
        /\ DataOf(m, h) \in [1..m.size -> Payloads]
    BY <1>2, <1>3, <2>1, RefreshContents
  <2>3. \A k \in 1..list.size - 1 :
          Contents'[k] = IF k < at THEN Contents[k] ELSE Contents[k + 1]
    BY <1>4, <2>1, <2>2
  <2> QED BY <1>2, <1>6, <2>1, <2>2, <2>3 DEF at
<1> QED BY <1>2, <1>5, <1>6

\* F4 and F5: the selected step changes places with the one before it or behind it.
LEMMA SwapEffect ==
  ASSUME IInv, NEW one \in 1..list.size, NEW two \in 1..list.size, one # two,
         NEW item \in 0..TOTALSTEP_NUM, Refresh(swap_step(list, one, two), item)
  PROVE  /\ IInv' /\ list'.size = list.size /\ current_item' = item
         /\ Contents' \in [1..list.size -> Payloads]
         /\ \A k \in 1..list.size :
              Contents'[k] = IF k = one THEN Contents[two]
                             ELSE IF k = two THEN Contents[one] ELSE Contents[k]
<1> DEFINE m == swap_step(list, one, two)
<1>1. PICK g : Rep(list, g)
  BY DEF IInv
<1>2. Contents = DataOf(list, g)
  BY <1>1, ContentsFacts
<1>3. /\ Rep(m, g) /\ m.size = list.size
      /\ \A k \in 1..list.size :
           DataOf(m, g)[k] = IF k = one THEN DataOf(list, g)[two]
                             ELSE IF k = two THEN DataOf(list, g)[one] ELSE DataOf(list, g)[k]
  BY <1>1, SwapRep
<1>4. Refresh(m, item)
  OBVIOUS
<1> HIDE DEF m
<1>5. /\ IInv' /\ list' = m /\ current_item' = item /\ Contents' = DataOf(m, g)
      /\ DataOf(m, g) \in [1..m.size -> Payloads]
  BY <1>3, <1>4, RefreshContents
<1> QED BY <1>2, <1>3, <1>5

\* F4 exchanges the selected step with the one before it and follows it.
LEMMA ForwardEffect ==
  ASSUME IInv, ForwardKey
  PROVE  /\ IInv' /\ list'.size = list.size /\ current_item' = current_item - 1
         /\ current_item \in 1..list.size - 1
         /\ Contents' \in [1..list.size -> Payloads]
         /\ \A k \in 1..list.size :
              Contents'[k] = IF k = current_item + 1 THEN Contents[current_item]
                             ELSE IF k = current_item THEN Contents[current_item + 1]
                             ELSE Contents[k]
<1>1. /\ TOTALSTEP_NUM \in Nat /\ list.size \in 1..TOTALSTEP_NUM
      /\ current_item \in 1..list.size - 1
  BY ContentsFacts, PoolAssumption DEF IInv, ForwardKey, OnStep
<1>2. /\ current_item + 1 \in 1..list.size /\ current_item \in 1..list.size
      /\ current_item + 1 # current_item /\ current_item - 1 \in 0..TOTALSTEP_NUM
  BY <1>1
<1>3. Refresh(swap_step(list, current_item + 1, current_item), current_item - 1)
  BY DEF ForwardKey
<1> QED BY <1>1, <1>2, <1>3, SwapEffect

\* F5 exchanges the selected step with the one behind it and follows it.
LEMMA BackEffect ==
  ASSUME IInv, BackKey
  PROVE  /\ IInv' /\ list'.size = list.size /\ current_item' = current_item + 1
         /\ current_item \in 0..list.size - 2
         /\ Contents' \in [1..list.size -> Payloads]
         /\ \A k \in 1..list.size :
              Contents'[k] = IF k = current_item + 1 THEN Contents[current_item + 2]
                             ELSE IF k = current_item + 2 THEN Contents[current_item + 1]
                             ELSE Contents[k]
<1>1. /\ TOTALSTEP_NUM \in Nat /\ list.size \in 1..TOTALSTEP_NUM
      /\ current_item \in 0..list.size - 2
  BY ContentsFacts, PoolAssumption DEF IInv, BackKey
<1>2. /\ current_item + 1 \in 1..list.size /\ current_item + 2 \in 1..list.size
      /\ current_item + 1 # current_item + 2 /\ current_item + 1 \in 0..TOTALSTEP_NUM
  BY <1>1
<1>3. Refresh(swap_step(list, current_item + 1, current_item + 2), current_item + 1)
  BY DEF BackKey
<1> QED BY <1>1, <1>2, <1>3, SwapEffect

\* The arrows and the knob leave the list alone.
LEMMA MoveEffect == ASSUME IInv, Move PROVE IInv' /\ list' = list
<1>1. PICK g : Rep(list, g)
  BY DEF IInv
<1>2. /\ Up(current_item) \in 0..TOTALSTEP_NUM /\ Down(current_item) \in 0..TOTALSTEP_NUM
      /\ Left(current_item) \in 0..TOTALSTEP_NUM /\ Right(current_item) \in 0..TOTALSTEP_NUM
  BY PoolAssumption, RowsAssumption DEF IInv, Up, Down, Left, Right
<1>3. PICK item \in 0..TOTALSTEP_NUM : Refresh(list, item)
  BY <1>2 DEF Move
<1> QED BY <1>1, <1>3, RefreshInv

\* Every key keeps the invariant.
LEMMA StepInv == ASSUME IInv, [Next]_vars PROVE IInv'
<1>1. CASE Open
  BY <1>1, OpenEffect
<1>2. CASE Close
  BY <1>2, CloseEffect
<1>3. CASE \E p \in Payloads : EditKey(p)
  BY <1>3, EditEffect
<1>4. CASE NewKey
  BY <1>4, NewEffect
<1>5. CASE DeleteKey
  BY <1>5, DeleteEffect
<1>6. CASE ForwardKey
  BY <1>6, ForwardEffect
<1>7. CASE BackKey
  BY <1>7, BackEffect
<1>8. CASE Move
  BY <1>8, MoveEffect
<1>9. CASE UNCHANGED vars
  BY <1>9 DEF vars, IInv, PageShown, Contents
<1> QED BY <1>1, <1>2, <1>3, <1>4, <1>5, <1>6, <1>7, <1>8, <1>9 DEF Next

\* The invariant holds of every run of the panel.
THEOREM Invariant == Spec => []IInv
<1>1. Init => IInv
  BY InitInv
<1>2. IInv /\ [Next]_vars => IInv'
  BY StepInv
<1> QED BY <1>1, <1>2, PTL DEF Spec

-----------------------------------------------------------------------------
\* Nodes, links, rows and the page stay in their ranges.
THEOREM TypeCorrect == Spec => []TypeOK
<1>1. IInv => TypeOK
  BY DEF IInv, TypeOK, Rep
<1> QED BY <1>1, Invariant, PTL

\* The nodes before and behind a place of the enumeration share the pool.
LEMMA Split ==
  ASSUME NEW g, Enumeration(g), NEW m \in 1..TOTALSTEP_NUM
  PROVE  LET low  == {g[j] : j \in 1..m}
             high == {g[j] : j \in m + 1..TOTALSTEP_NUM}
         IN  low \cap high = {} /\ low \cup high = Nodes /\ Cardinality(low) = m
<1> DEFINE low == {g[j] : j \in 1..m}
           high == {g[j] : j \in m + 1..TOTALSTEP_NUM}
<1>1. /\ TOTALSTEP_NUM \in Nat /\ Nodes = 1..TOTALSTEP_NUM /\ m \in Nat /\ m <= TOTALSTEP_NUM
      /\ g \in [Nodes -> Nodes] /\ \A i, j \in Nodes : g[i] = g[j] => i = j
  BY PoolAssumption DEF Enumeration, Nodes
<1>2. low \cap high = {}
  <2>1. \A i \in 1..m, j \in m + 1..TOTALSTEP_NUM : i \in Nodes /\ j \in Nodes /\ i # j
    BY <1>1
  <2> QED BY <1>1, <2>1
<1>3. low \cup high = Nodes
  <2>1. IsFiniteSet(Nodes)
    <3>1. 1 \in Int /\ TOTALSTEP_NUM \in Int
      BY <1>1
    <3> QED BY <1>1, <3>1, FS_Interval
  <2>2. g \in Injection(Nodes, Nodes)
    BY <1>1 DEF Injection, IsInjective
  <2>3. g \in Surjection(Nodes, Nodes)
    BY <2>1, <2>2, FS_Injection
  <2>4. ASSUME NEW n \in Nodes PROVE n \in low \cup high
    <3>1. PICK j \in Nodes : g[j] = n
      BY <2>3 DEF Surjection
    <3>2. j \in 1..m \/ j \in m + 1..TOTALSTEP_NUM
      BY <1>1
    <3> QED BY <3>1, <3>2
  <2>5. ASSUME NEW n \in low \cup high PROVE n \in Nodes
    <3>1. \A j \in 1..m : j \in Nodes
      BY <1>1
    <3>2. \A j \in m + 1..TOTALSTEP_NUM : j \in Nodes
      BY <1>1
    <3> QED BY <1>1, <2>5, <3>1, <3>2
  <2> HIDE DEF low, high
  <2> QED BY <2>4, <2>5
<1>4. Cardinality(low) = m
  <2> DEFINE f == [j \in 1..m |-> g[j]]
  <2>1. IsFiniteSet(1..m) /\ Cardinality(1..m) = m
    <3>1. 1 \in Int /\ m \in Int /\ ~(1 > m) /\ (m - 1) + 1 = m
      BY <1>1
    <3> QED BY <3>1, FS_Interval
  <2>2. \A j \in 1..m : j \in Nodes
    BY <1>1
  <2>3. f \in Bijection(1..m, low)
    BY <1>1, <2>2 DEF Bijection, Injection, Surjection, IsInjective
  <2>4. ExistsBijection(1..m, low)
    BY <2>3 DEF ExistsBijection
  <2> QED BY <2>1, <2>4, FS_Bijection
<1> QED BY <1>2, <1>3, <1>4

\* No key loses a node of the pool, and none puts one in both lists
\* (insert_after, remove_step).
THEOREM PoolIsConserved == Spec => []PoolConserved
<1>1. ASSUME IInv PROVE PoolConserved
  <2>1. PICK g : Rep(list, g)
    BY <1>1 DEF IInv
  <2>2. /\ list.size \in 1..TOTALSTEP_NUM /\ TOTALSTEP_NUM \in Nat
        /\ list.head = g[1] /\ 1 \in Nodes /\ EndOf(list, 1) = list.size
        /\ list.free = IF list.size = TOTALSTEP_NUM THEN NULL ELSE g[list.size + 1]
    BY <2>1, RepPlaces DEF Nodes, EndOf
  <2>3. Linked = {g[j] : j \in 1..list.size}
    BY <2>1, <2>2, FromRep DEF Linked
  <2>4. From(list, list.free) = {g[j] : j \in list.size + 1..TOTALSTEP_NUM}
    <3>1. CASE list.size = TOTALSTEP_NUM
      BY <2>1, <2>2, <3>1, FromRep
    <3>2. CASE list.size # TOTALSTEP_NUM
      <4>1. list.size + 1 \in Nodes /\ EndOf(list, list.size + 1) = TOTALSTEP_NUM
        BY <2>2, <3>2 DEF Nodes, EndOf
      <4>2. From(list, g[list.size + 1]) =
              {g[j] : j \in list.size + 1..EndOf(list, list.size + 1)}
        BY <2>1, <4>1, FromRep
      <4> QED BY <2>2, <3>2, <4>1, <4>2
    <3> QED BY <3>1, <3>2
  <2>5. Enumeration(g)
    BY <2>1 DEF Rep
  <2>6. /\ {g[j] : j \in 1..list.size} \cap {g[j] : j \in list.size + 1..TOTALSTEP_NUM} = {}
        /\ {g[j] : j \in 1..list.size} \cup {g[j] : j \in list.size + 1..TOTALSTEP_NUM} = Nodes
        /\ Cardinality({g[j] : j \in 1..list.size}) = list.size
    BY <2>2, <2>5, Split
  <2> QED BY <2>3, <2>4, <2>6 DEF PoolConserved
<1> QED BY <1>1, Invariant, PTL

\* Following next meets the steps in the order of their numbers and ends at
\* tail, and prev leads back (position_step, remove_step).
THEOREM ListIsOrdered == Spec => []Ordered
<1>1. ASSUME IInv PROVE Ordered
  <2> DEFINE at == Walk(list, list.head)
  <2>1. PICK g : Rep(list, g)
    BY <1>1 DEF IInv
  <2>2. /\ list.size \in 1..TOTALSTEP_NUM /\ TOTALSTEP_NUM \in Nat /\ Nodes = 1..TOTALSTEP_NUM
        /\ list.head = g[1] /\ list.tail = g[list.size]
    BY <2>1, RepPlaces DEF Nodes
  <2>3. \A i \in Nodes : i <= list.size =>
          /\ g[i] # NULL /\ list.un[g[i]].step = i
          /\ list.prev[g[i]] = IF i = 1 THEN NULL ELSE g[i - 1]
          /\ list.next[g[i]] = IF i = list.size THEN NULL ELSE g[i + 1]
    BY <2>1, RepPlaces
  <2>4. \A k \in 0..list.size - 1 : at[k] = g[k + 1]
    <3>1. 1 \in Nodes /\ EndOf(list, 1) = list.size
      BY <2>2 DEF EndOf
    <3>2. \A k \in 0..TOTALSTEP_NUM : at[k] = IF 1 + k <= list.size THEN g[1 + k] ELSE NULL
      BY <2>1, <2>2, <3>1, WalkRep
    <3>3. \A k \in 0..list.size - 1 : k \in 0..TOTALSTEP_NUM /\ 1 + k = k + 1 /\ 1 + k <= list.size
      BY <2>2
    <3> HIDE DEF at
    <3> QED BY <3>2, <3>3
  <2> HIDE DEF at
  <2>5. ASSUME NEW k \in 0..list.size - 1
        PROVE  /\ at[k] # NULL
               /\ list.un[at[k]].step = k + 1
               /\ list.prev[at[k]] = IF k = 0 THEN NULL ELSE at[k - 1]
    <3>1. /\ k + 1 \in Nodes /\ k + 1 <= list.size /\ (k + 1 = 1 <=> k = 0) /\ (k + 1) - 1 = k
          /\ k # 0 => k - 1 \in 0..list.size - 1 /\ (k - 1) + 1 = k
      BY <2>2
    <3> QED BY <2>3, <2>4, <3>1
  <2>6. list.tail = at[list.size - 1] /\ list.next[list.tail] = NULL
    <3>1. /\ list.size - 1 \in 0..list.size - 1 /\ (list.size - 1) + 1 = list.size
          /\ list.size \in Nodes /\ list.size <= list.size
      BY <2>2
    <3> QED BY <2>2, <2>3, <2>4, <3>1
  <2> QED BY <2>5, <2>6 DEF Ordered, at
<1> QED BY <1>1, Invariant, PTL

\* The open panel shows the rows of the page that holds the selected row, as
\* they are now (step_item_draw and g_cur_step).
THEOREM PageIsShown == Spec => []PageShown
<1>1. IInv => PageShown
  BY DEF IInv
<1> QED BY <1>1, Invariant, PTL

(* F4 and F5 take the selection along.  F2 selects the new step when a step  *)
(* was selected, and otherwise the empty row behind the new step, which is   *)
(* then the last one.                                                        *)
THEOREM SelectionIsKept == Spec => SelectionFollows
<1> DEFINE A == /\ ForwardKey \/ BackKey => Contents'[current_item' + 1] = Contents[current_item + 1]
                /\ NewKey /\ list.size < TOTALSTEP_NUM =>
                      IF current_item < list.size
                      THEN Contents'[current_item' + 1] = Default
                      ELSE current_item' = list'.size /\ Contents'[current_item'] = Default
<1>1. ASSUME IInv, ForwardKey
      PROVE  Contents'[current_item' + 1] = Contents[current_item + 1]
  <2>1. /\ current_item' + 1 = current_item /\ current_item \in 1..list.size
        /\ current_item # current_item + 1
    BY <1>1, ForwardEffect, ContentsFacts, PoolAssumption
  <2> QED BY <1>1, <2>1, ForwardEffect
<1>2. ASSUME IInv, BackKey
      PROVE  Contents'[current_item' + 1] = Contents[current_item + 1]
  <2>1. /\ current_item' + 1 = current_item + 2 /\ current_item + 2 \in 1..list.size
        /\ current_item + 2 # current_item + 1
    BY <1>2, BackEffect, ContentsFacts, PoolAssumption
  <2> QED BY <1>2, <2>1, BackEffect
<1>3. ASSUME IInv, NewKey, list.size < TOTALSTEP_NUM
      PROVE  IF current_item < list.size
             THEN Contents'[current_item' + 1] = Default
             ELSE current_item' = list'.size /\ Contents'[current_item'] = Default
  <2> DEFINE at == IF current_item < list.size THEN current_item + 1 ELSE list.size
  <2>1. /\ current_item' = IF current_item < list.size THEN current_item + 1 ELSE list'.size
        /\ at \in 1..list.size
        /\ list'.size = list.size + 1
        /\ \A k \in 1..list.size + 1 :
             Contents'[k] = IF k <= at THEN Contents[k]
                            ELSE IF k = at + 1 THEN Default ELSE Contents[k - 1]
    BY <1>3, NewEffect
  <2>2. at = IF current_item < list.size THEN current_item + 1 ELSE list.size
    OBVIOUS
  <2> HIDE DEF at
  <2>3. at + 1 \in 1..list.size + 1 /\ ~(at + 1 <= at)
    BY <1>3, <2>1, ContentsFacts, PoolAssumption
  <2>4. Contents'[at + 1] = Default
    BY <2>1, <2>3
  <2> QED BY <2>1, <2>2, <2>4
<1>4. IInv /\ [Next]_vars => [A]_vars
  BY <1>1, <1>2, <1>3
<1>5. Spec => [][A]_vars
  <2> HIDE DEF A
  <2> QED BY <1>4, Invariant, PTL DEF Spec
<1> QED BY <1>5 DEF SelectionFollows

-----------------------------------------------------------------------------
\* The two parts of a sequence, before and behind a cut.
LEMMA Cut ==
  ASSUME NEW s \in Seq(Payloads), NEW m \in 0..Len(s)
  PROVE  /\ SubSeq(s, 1, m) \in Seq(Payloads) /\ Len(SubSeq(s, 1, m)) = m
         /\ \A k \in 1..m : SubSeq(s, 1, m)[k] = s[k]
         /\ SubSeq(s, m + 1, Len(s)) \in Seq(Payloads)
         /\ Len(SubSeq(s, m + 1, Len(s))) = Len(s) - m
         /\ \A k \in 1..Len(s) - m : SubSeq(s, m + 1, Len(s))[k] = s[m + k]
<1>1. Len(s) \in Nat /\ m \in Nat /\ m <= Len(s) /\ \A k \in 1..Len(s) : s[k] \in Payloads
  OBVIOUS
<1>2. /\ SubSeq(s, 1, m) \in Seq(Payloads) /\ Len(SubSeq(s, 1, m)) = m
      /\ \A k \in 1..m : SubSeq(s, 1, m)[k] = s[k]
  <2> DEFINE front == SubSeq(s, 1, m)
  <2>1. 1 \in Int /\ m \in Int /\ \A k \in 1..m : s[k] \in Payloads
    BY <1>1
  <2>2. /\ front \in Seq(Payloads)
        /\ Len(front) = IF 1 <= m THEN m - 1 + 1 ELSE 0
        /\ \A k \in 1..m - 1 + 1 : front[k] = s[1 + k - 1]
    BY <2>1, SubSeqProperties
  <2> HIDE DEF front
  <2>3. m - 1 + 1 = m /\ (~(1 <= m) => m = 0) /\ \A k \in 1..m : 1 + k - 1 = k
    BY <1>1
  <2>4. Len(front) = m
    BY <2>2, <2>3
  <2>5. ASSUME NEW k \in 1..m PROVE front[k] = s[k]
    BY <2>2, <2>3
  <2> QED BY <2>2, <2>4, <2>5 DEF front
<1>3. /\ SubSeq(s, m + 1, Len(s)) \in Seq(Payloads)
      /\ Len(SubSeq(s, m + 1, Len(s))) = Len(s) - m
      /\ \A k \in 1..Len(s) - m : SubSeq(s, m + 1, Len(s))[k] = s[m + k]
  <2> DEFINE a == m + 1
             n == Len(s)
             back == SubSeq(s, a, n)
  <2>1. a \in Int /\ n \in Int /\ \A k \in a..n : s[k] \in Payloads
    BY <1>1
  <2>2. /\ n - a + 1 = Len(s) - m /\ (~(a <= n) => Len(s) - m = 0)
        /\ \A k \in 1..Len(s) - m : a + k - 1 = m + k
    BY <1>1
  <2> HIDE DEF a, n
  <2>3. /\ back \in Seq(Payloads)
        /\ Len(back) = IF a <= n THEN n - a + 1 ELSE 0
        /\ \A k \in 1..n - a + 1 : back[k] = s[a + k - 1]
    BY <2>1, SubSeqProperties
  <2> HIDE DEF back
  <2>4. Len(back) = Len(s) - m
    BY <2>3, <2>2
  <2>5. ASSUME NEW k \in 1..Len(s) - m PROVE back[k] = s[m + k]
    BY <2>3, <2>2
  <2> QED BY <2>3, <2>4, <2>5 DEF back, a, n
<1> QED BY <1>2, <1>3

\* InsertAt, member by member.
LEMMA InsertAtIs ==
  ASSUME NEW s \in Seq(Payloads), NEW at \in 1..Len(s), NEW t \in Seq(Payloads),
         Len(t) = Len(s) + 1,
         \A k \in 1..Len(s) + 1 :
           t[k] = IF k <= at THEN s[k] ELSE IF k = at + 1 THEN Default ELSE s[k - 1]
  PROVE  t = Seq_!InsertAt(s, at + 1, Default)
<1> DEFINE front == SubSeq(s, 1, at)
           back == SubSeq(s, at + 1, Len(s))
           one == << Default >>
           both == front \o one
           u == both \o back
<1>1. Len(s) \in Nat /\ at \in Nat /\ at <= Len(s) /\ \A k \in 1..Len(s) : s[k] \in Payloads
  OBVIOUS
<1>2. Seq_!InsertAt(s, at + 1, Default) = u
  <2>1. (at + 1) - 1 = at
    BY <1>1
  <2> QED BY <2>1 DEF Seq_!InsertAt
<1>3. /\ front \in Seq(Payloads) /\ Len(front) = at
      /\ \A k \in 1..at : front[k] = s[k]
  <2>1. at \in 0..Len(s)
    BY <1>1
  <2> QED BY <2>1, Cut
<1>4. /\ back \in Seq(Payloads) /\ Len(back) = Len(s) - at
      /\ \A k \in 1..Len(s) - at : back[k] = s[at + k]
  <2>1. at \in 0..Len(s)
    BY <1>1
  <2> QED BY <2>1, Cut
<1>5. one \in Seq(Payloads) /\ Len(one) = 1 /\ one[1] = Default
  BY PoolAssumption
<1> HIDE DEF front, back, one
<1>6. /\ both \in Seq(Payloads) /\ Len(both) = at + 1
      /\ \A k \in 1..at + 1 : both[k] = IF k <= at THEN s[k] ELSE Default
  <2>1. /\ both \in Seq(Payloads) /\ Len(both) = Len(front) + Len(one)
        /\ \A k \in 1..Len(front) + Len(one) :
             both[k] = IF k <= Len(front) THEN front[k] ELSE one[k - Len(front)]
    BY <1>3, <1>5, ConcatProperties
  <2> HIDE DEF both
  <2>2. \A k \in 1..at + 1 : (k <= at => k \in 1..at) /\ (~(k <= at) => k - at = 1)
    BY <1>1
  <2> QED BY <1>3, <1>5, <2>1, <2>2
<1> HIDE DEF both
<1>7. /\ u \in Seq(Payloads) /\ Len(u) = Len(s) + 1
      /\ \A k \in 1..Len(s) + 1 : u[k] = IF k <= at + 1 THEN both[k] ELSE back[k - (at + 1)]
  <2>1. /\ u \in Seq(Payloads) /\ Len(u) = Len(both) + Len(back)
        /\ \A k \in 1..Len(both) + Len(back) :
             u[k] = IF k <= Len(both) THEN both[k] ELSE back[k - Len(both)]
    BY <1>4, <1>6, ConcatProperties
  <2>2. Len(both) + Len(back) = Len(s) + 1
    BY <1>1, <1>4, <1>6
  <2> HIDE DEF u
  <2> QED BY <1>6, <2>1, <2>2
<1> HIDE DEF u
<1>8. ASSUME NEW k \in 1..Len(s) + 1 PROVE t[k] = u[k]
  <2>1. CASE k <= at + 1
    <3>1. k \in 1..at + 1 /\ (~(k <= at) => k = at + 1)
      BY <1>1, <2>1
    <3> QED BY <1>6, <1>7, <2>1, <3>1
  <2>2. CASE ~(k <= at + 1)
    <3>1. /\ k - (at + 1) \in 1..Len(s) - at /\ at + (k - (at + 1)) = k - 1
          /\ ~(k <= at) /\ k # at + 1
      BY <1>1, <2>2
    <3>2. t[k] = s[k - 1]
      BY <3>1
    <3>3. u[k] = back[k - (at + 1)]
      BY <1>7, <2>2
    <3> QED BY <1>4, <3>1, <3>2, <3>3
  <2> QED BY <2>1, <2>2
<1> QED BY <1>2, <1>7, <1>8, SeqEqual

\* RemoveAt, member by member.
LEMMA RemoveAtIs ==
  ASSUME NEW s \in Seq(Payloads), NEW at \in 1..Len(s), NEW t \in Seq(Payloads),
         Len(t) = Len(s) - 1,
         \A k \in 1..Len(s) - 1 : t[k] = IF k < at THEN s[k] ELSE s[k + 1]
  PROVE  t = Seq_!RemoveAt(s, at)
<1> DEFINE front == SubSeq(s, 1, at - 1)
           back == SubSeq(s, at + 1, Len(s))
           u == front \o back
<1>1. Len(s) \in Nat /\ at \in Nat \ {0} /\ at <= Len(s) /\ \A k \in 1..Len(s) : s[k] \in Payloads
  OBVIOUS
<1>2. Seq_!RemoveAt(s, at) = u
  BY DEF Seq_!RemoveAt
<1>3. /\ front \in Seq(Payloads) /\ Len(front) = at - 1
      /\ \A k \in 1..at - 1 : front[k] = s[k]
  <2>1. at - 1 \in 0..Len(s)
    BY <1>1
  <2> QED BY <2>1, Cut
<1>4. /\ back \in Seq(Payloads) /\ Len(back) = Len(s) - at
      /\ \A k \in 1..Len(s) - at : back[k] = s[at + k]
  <2>1. at \in 0..Len(s)
    BY <1>1
  <2> QED BY <2>1, Cut
<1> HIDE DEF front, back
<1>5. /\ u \in Seq(Payloads) /\ Len(u) = Len(s) - 1
      /\ \A k \in 1..Len(s) - 1 : u[k] = IF k <= at - 1 THEN front[k] ELSE back[k - (at - 1)]
  <2>1. /\ u \in Seq(Payloads) /\ Len(u) = Len(front) + Len(back)
        /\ \A k \in 1..Len(front) + Len(back) :
             u[k] = IF k <= Len(front) THEN front[k] ELSE back[k - Len(front)]
    BY <1>3, <1>4, ConcatProperties
  <2>2. Len(front) + Len(back) = Len(s) - 1
    BY <1>1, <1>3, <1>4
  <2> HIDE DEF u
  <2> QED BY <1>3, <2>1, <2>2
<1> HIDE DEF u
<1>6. ASSUME NEW k \in 1..Len(s) - 1 PROVE t[k] = u[k]
  <2>1. CASE k < at
    <3>1. k \in 1..at - 1 /\ k <= at - 1
      BY <1>1, <2>1
    <3> QED BY <1>3, <1>5, <2>1, <3>1
  <2>2. CASE ~(k < at)
    <3>1. /\ k - (at - 1) \in 1..Len(s) - at /\ at + (k - (at - 1)) = k + 1 /\ ~(k <= at - 1)
      BY <1>1, <2>2
    <3> QED BY <1>4, <1>5, <2>2, <3>1
  <2> QED BY <2>1, <2>2
<1> QED BY <1>2, <1>5, <1>6, SeqEqual

\* Every key is a step of the sequence or leaves it alone.
LEMMA StepSequence == ASSUME IInv, [Next]_vars PROVE [Seq_!Next]_Contents
<1>1. /\ list.size \in 1..TOTALSTEP_NUM /\ TOTALSTEP_NUM \in Nat
      /\ Contents \in Seq(Payloads) /\ Len(Contents) = list.size
      /\ DOMAIN Contents = 1..list.size
      /\ Contents \in [1..list.size -> Payloads]
  BY ContentsFacts, PoolAssumption
<1>2. ASSUME list' = list PROVE Contents' = Contents
  BY <1>2 DEF Contents
<1>3. ASSUME NEW k \in 1..list.size,
             Seq_!New(k) \/ Seq_!Delete(k) \/ Seq_!Exchange(k) \/ \E p \in Payloads : Seq_!Edit(k, p)
      PROVE  Seq_!Next
  BY <1>1, <1>3 DEF Seq_!Next
<1>4. CASE Open \/ Close \/ Move \/ UNCHANGED vars
  <2>1. list' = list
    BY <1>4, MoveEffect DEF Open, Close, vars
  <2> QED BY <1>2, <2>1
<1>5. CASE \E p \in Payloads : EditKey(p)
  <2>1. PICK p \in Payloads : EditKey(p)
    BY <1>5
  <2> DEFINE k == current_item + 1
             to == [Contents EXCEPT ![k] = p]
  <2>2. k \in 1..list.size
    BY <1>1, <2>1 DEF EditKey, OnStep, IInv
  <2>3. /\ Contents' \in [1..list.size -> Payloads]
        /\ \A j \in 1..list.size : Contents'[j] = IF j = k THEN p ELSE Contents[j]
    BY <2>1, EditEffect
  <2> HIDE DEF k
  <2>4. Contents' = to
    <3>1. to \in [1..list.size -> Payloads]
      BY <1>1
    <3>2. \A j \in 1..list.size : to[j] = IF j = k THEN p ELSE Contents[j]
      BY <1>1
    <3> HIDE DEF to
    <3>3. \A j \in 1..list.size : Contents'[j] = to[j]
      BY <2>3, <3>2
    <3>4. Contents' \in [1..list.size -> Payloads]
      BY <2>3
    <3>5. PICK c : c = Contents'
      OBVIOUS
    <3>6. /\ c \in [1..list.size -> Payloads] /\ to \in [1..list.size -> Payloads]
          /\ \A j \in 1..list.size : c[j] = to[j]
      BY <3>1, <3>3, <3>4, <3>5
    <3>7. c = to
      <4>1. /\ c = [j \in 1..list.size |-> c[j]]
            /\ to = [j \in 1..list.size |-> to[j]]
        BY ONLY <3>6
      <4>2. [j \in 1..list.size |-> c[j]] = [j \in 1..list.size |-> to[j]]
        BY ONLY <3>6
      <4> QED BY ONLY <4>1, <4>2
    <3> QED BY <3>5, <3>7
  <2>5. Seq_!Edit(k, p)
    BY <2>4 DEF Seq_!Edit
  <2> QED BY <1>3, <2>2, <2>5
<1>6. CASE NewKey
  <2> DEFINE at == IF current_item < list.size THEN current_item + 1 ELSE list.size
  <2>1. /\ at \in 1..list.size
        /\ list.size = TOTALSTEP_NUM => list' = list
        /\ list.size < TOTALSTEP_NUM =>
             /\ Contents' \in [1..list.size + 1 -> Payloads]
             /\ \A k \in 1..list.size + 1 :
                  Contents'[k] = IF k <= at THEN Contents[k]
                                 ELSE IF k = at + 1 THEN Default ELSE Contents[k - 1]
    BY <1>6, NewEffect
  <2> HIDE DEF at
  <2>2. CASE list.size < TOTALSTEP_NUM
    <3>1. Contents' \in [1..list.size + 1 -> Payloads] /\ list.size + 1 \in Nat
      BY <1>1, <2>1, <2>2
    <3>2. Contents' \in Seq(Payloads) /\ Len(Contents') = Len(Contents) + 1 /\ at \in 1..Len(Contents)
      BY <1>1, <2>1, <3>1
    <3>3. Contents' = Seq_!InsertAt(Contents, at + 1, Default)
      BY <1>1, <2>1, <2>2, <3>2, InsertAtIs
    <3>4. Seq_!New(at)
      BY <1>1, <2>2, <3>3 DEF Seq_!New
    <3> QED BY <1>3, <2>1, <3>4
  <2>3. CASE ~(list.size < TOTALSTEP_NUM)
    BY <1>1, <1>2, <2>1, <2>3
  <2> QED BY <2>2, <2>3
<1>7. CASE DeleteKey
  <2> DEFINE at == current_item + 1
  <2>1. /\ at \in 1..list.size
        /\ list.size = 1 => list' = list
        /\ list.size > 1 =>
             /\ Contents' \in [1..list.size - 1 -> Payloads]
             /\ \A k \in 1..list.size - 1 :
                  Contents'[k] = IF k < at THEN Contents[k] ELSE Contents[k + 1]
    BY <1>7, DeleteEffect
  <2> HIDE DEF at
  <2>2. CASE list.size > 1
    <3>1. Contents' \in Seq(Payloads) /\ Len(Contents') = Len(Contents) - 1 /\ at \in 1..Len(Contents)
      BY <1>1, <2>1, <2>2
    <3>2. Contents' = Seq_!RemoveAt(Contents, at)
      BY <1>1, <2>1, <2>2, <3>1, RemoveAtIs
    <3>3. Seq_!Delete(at)
      BY <1>1, <2>2, <3>2 DEF Seq_!Delete
    <3> QED BY <1>3, <2>1, <3>3
  <2>3. CASE ~(list.size > 1)
    BY <1>1, <1>2, <2>1, <2>3
  <2> QED BY <2>2, <2>3
<1>8. ASSUME NEW k \in 1..list.size - 1,
             Contents' \in [1..list.size -> Payloads],
             \A j \in 1..list.size :
               Contents'[j] = IF j = k + 1 THEN Contents[k]
                              ELSE IF j = k THEN Contents[k + 1] ELSE Contents[j]
      PROVE  Seq_!Next
  <2> DEFINE to == [Contents EXCEPT ![k] = Contents[k + 1], ![k + 1] = Contents[k]]
  <2>1. k \in 1..list.size /\ k + 1 \in 1..list.size /\ k < list.size /\ k # k + 1
    BY <1>1
  <2>2. Contents[k] \in Payloads /\ Contents[k + 1] \in Payloads
    BY <1>1, <2>1
  <2>3. /\ to \in [1..list.size -> Payloads]
        /\ \A j \in 1..list.size : to[j] = IF j = k + 1 THEN Contents[k]
                                           ELSE IF j = k THEN Contents[k + 1] ELSE Contents[j]
    BY <1>1, <2>1, <2>2
  <2> HIDE DEF to
  <2>4. Contents' = to
    <3>1. \A j \in 1..list.size : Contents'[j] = to[j]
      BY <1>8, <2>3
    <3>2. /\ Contents' \in [1..list.size -> Payloads]
          /\ to \in [1..list.size -> Payloads]
      BY <1>8, <2>3
    <3>3. PICK c : c = Contents'
      OBVIOUS
    <3>4. /\ c \in [1..list.size -> Payloads] /\ to \in [1..list.size -> Payloads]
          /\ \A j \in 1..list.size : c[j] = to[j]
      BY <3>1, <3>2, <3>3
    <3>5. c = to
      <4>1. /\ c = [j \in 1..list.size |-> c[j]]
            /\ to = [j \in 1..list.size |-> to[j]]
        BY ONLY <3>4
      <4>2. [j \in 1..list.size |-> c[j]] = [j \in 1..list.size |-> to[j]]
        BY ONLY <3>4
      <4> QED BY ONLY <4>1, <4>2
    <3> QED BY <3>3, <3>5
  <2>5. Seq_!Exchange(k)
    BY <1>1, <2>1, <2>4 DEF Seq_!Exchange, to
  <2> QED BY <1>3, <2>1, <2>5
<1>9. CASE ForwardKey
  BY <1>8, <1>9, ForwardEffect
<1>10. CASE BackKey
  <2> DEFINE k == current_item + 1
  <2>1. /\ k \in 1..list.size - 1 /\ k + 1 = current_item + 2 /\ k # k + 1
    BY <1>1, <1>10, BackEffect
  <2>2. /\ Contents' \in [1..list.size -> Payloads]
        /\ \A j \in 1..list.size :
             Contents'[j] = IF j = k THEN Contents[k + 1]
                            ELSE IF j = k + 1 THEN Contents[k] ELSE Contents[j]
    BY <1>10, <2>1, BackEffect
  <2> HIDE DEF k
  <2> QED BY <1>8, <2>1, <2>2
<1> QED BY <1>4, <1>5, <1>6, <1>7, <1>9, <1>10 DEF Next

\* The panel implements the editor of a sequence of StepSeq.
THEOREM Refinement == Spec => Sequence
<1>1. Init => Seq_!Init
  <2> SUFFICES ASSUME Init PROVE Seq_!Init
    OBVIOUS
  <2>1. IInv
    BY InitInv
  <2> QED BY <2>1, ContentsFacts DEF Seq_!Init
<1>2. IInv /\ [Next]_vars => [Seq_!Next]_Contents
  BY StepSequence
<1> QED BY <1>1, <1>2, Invariant, PTL DEF Spec, Sequence, Seq_!Spec
=============================================================================
