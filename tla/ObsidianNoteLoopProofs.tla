----------------------- MODULE ObsidianNoteLoopProofs -----------------------
(***************************************************************************)
(* SyncMatchesNoteLoop for every set of records and contents, and any      *)
(* finite set of locators.  It is about a fold, so the lemmas come first   *)
(* that take the place of induction: over a number, over the subsets of a  *)
(* finite set, and on how a finite set is numbered.                        *)
(***************************************************************************)
EXTENDS ObsidianNoteLoop, MemoryRepositoryProofs, FiniteSetTheorems

-----------------------------------------------------------------------------
(* Induction and numberings.                                               *)

\* Induction up to a number: what holds of 0, and of a number whenever it holds
\* of the one before it.
LEMMA UpTo ==
    ASSUME NEW n \in Nat, NEW T, 0 \in T, \A k \in 1..n : k - 1 \in T => k \in T
    PROVE  \A k \in 0..n : k \in T
<1> DEFINE Rest == {k \in 0..n : k \notin T}
<1>1. SUFFICES ASSUME Rest # {} PROVE FALSE
  OBVIOUS
<1>2. PICK m \in Rest : \A k \in Rest : ~(<<k, m>> \in OpToRel(<, Nat))
  <2>1. Rest \subseteq Nat
    OBVIOUS
  <2> HIDE DEF Rest
  <2> QED BY <1>1, <2>1, NatLessThanWellFounded, WFMin
<1>3. m \in 1..n /\ m - 1 \in 0..n /\ m - 1 < m /\ m - 1 \in Nat /\ m \in Nat
  OBVIOUS
<1>4. <<m - 1, m>> \in OpToRel(<, Nat)
  BY <1>3 DEF OpToRel
<1>5. m - 1 \in T
  BY <1>2, <1>3, <1>4
<1> QED BY <1>3, <1>5

\* Induction over the subsets of a finite set.
LEMMA UpToSet ==
    ASSUME NEW S, IsFiniteSet(S), NEW T,
           \A U \in SUBSET S : (\A x \in U : U \ {x} \in T) => U \in T
    PROVE  \A U \in SUBSET S : U \in T
<1>1. SUFFICES ASSUME (SUBSET S) \ T # {} PROVE FALSE
  OBVIOUS
<1>2. FiniteSubsetsOf(S) = SUBSET S
  BY FS_FiniteSubsetsOfFinite
<1>3. PICK m \in (SUBSET S) \ T :
            \A k \in (SUBSET S) \ T : ~(<<k, m>> \in StrictSubsetOrdering(S))
  <2>1. (SUBSET S) \ T \in SUBSET FiniteSubsetsOf(S)
    BY <1>2
  <2> QED BY <1>1, <2>1, FS_StrictSubsetOrderingWellFounded, WFMin
<1>4. ASSUME NEW x \in m PROVE m \ {x} \in T
  <2>1. m \ {x} \in SUBSET S /\ m \ {x} \subseteq m /\ m \ {x} # m
    BY <1>3
  <2>2. <<m \ {x}, m>> \in StrictSubsetOrdering(S)
    <3>1. <<m \ {x}, m>> \in (SUBSET S) \X (SUBSET S)
      BY <2>1, <1>3
    <3> QED BY <2>1, <3>1 DEF StrictSubsetOrdering
  <2> QED BY <1>3, <2>1, <2>2
<1> QED BY <1>3, <1>4

\* A numbering of a finite set without repetitions reaches every element.
LEMMA NumberingIsOnto ==
    ASSUME NEW S, IsFiniteSet(S), NEW q \in SetToSeqs(S)
    PROVE  /\ Cardinality(S) \in Nat
           /\ q \in [1..Cardinality(S) -> S]
           /\ q \in Seq(S)
           /\ Len(q) = Cardinality(S)
           /\ \A i, j \in 1..Len(q) : q[i] = q[j] => i = j
           /\ \A x \in S : \E i \in 1..Len(q) : q[i] = x
<1> DEFINE n == Cardinality(S)
<1>1. n \in Nat
  BY FS_CardinalityType
<1>2. q \in [1..n -> S] /\ \A i, j \in 1..n : i # j => q[i] # q[j]
  BY DEF SetToSeqs
<1>3. q \in Seq(S) /\ Len(q) = n
  BY <1>1, <1>2
<1>4. q \in Injection(1..n, S)
  BY <1>2 DEF Injection, IsInjective
<1>5. Cardinality(1..n) = n
  BY <1>1, FS_Interval
<1>6. q \in Surjection(1..n, S)
  BY <1>4, <1>5, FS_Injection
<1> QED BY <1>1, <1>2, <1>3, <1>6 DEF Surjection

\* A finite set with a strict total order can be numbered in that order.
LEMMA Sortable ==
    ASSUME NEW S, IsFiniteSet(S), NEW R,
           \A x, y \in S : x # y => <<x, y>> \in R \/ <<y, x>> \in R,
           \A x, y, z \in S : <<x, y>> \in R /\ <<y, z>> \in R => <<x, z>> \in R
    PROVE  \E q \in SetToSeqs(S) :
                \A i, j \in DOMAIN q : i < j => <<q[i], q[j]>> \in R
<1> DEFINE Greatest == {U \in SUBSET S : U # {} =>
                          \E g \in U : \A x \in U \ {g} : <<x, g>> \in R}
           Sorted == {U \in SUBSET S : \E q \in SetToSeqs(U) :
                          \A i, j \in DOMAIN q : i < j => <<q[i], q[j]>> \in R}
<1>1. ASSUME NEW U \in SUBSET S PROVE U \in Greatest
  <2>1. ASSUME NEW V \in SUBSET S, \A x \in V : V \ {x} \in Greatest
        PROVE  V \in Greatest
    <3>1. SUFFICES ASSUME V # {}
                   PROVE  \E g \in V : \A x \in V \ {g} : <<x, g>> \in R
      OBVIOUS
    <3>2. PICK y \in V : TRUE
      BY <3>1
    <3>3. CASE V \ {y} = {}
      BY <3>2, <3>3
    <3>4. CASE V \ {y} # {}
      <4>1. PICK g \in V \ {y} : \A x \in (V \ {y}) \ {g} : <<x, g>> \in R
        BY <2>1, <3>2, <3>4
      <4>2. CASE <<y, g>> \in R
        BY <4>1, <4>2
      <4>3. CASE <<g, y>> \in R
        <5>1. \A x \in V \ {y} : <<x, y>> \in R
          BY <4>1, <4>3, <3>2
        <5> QED BY <5>1, <3>2
      <4> QED BY <4>1, <4>2, <4>3, <3>2
    <3> QED BY <3>3, <3>4
  <2> HIDE DEF Greatest
  <2> QED BY <2>1, UpToSet
<1>2. ASSUME NEW U \in SUBSET S PROVE U \in Sorted
  <2>1. ASSUME NEW V \in SUBSET S, \A x \in V : V \ {x} \in Sorted
        PROVE  V \in Sorted
    <3>1. CASE V = {}
      <4>1. <<>> \in SetToSeqs(V)
        BY <3>1, FS_EmptySet DEF SetToSeqs
      <4> QED BY <4>1
    <3>2. CASE V # {}
      <4>1. PICK g \in V : \A x \in V \ {g} : <<x, g>> \in R
        BY <1>1, <3>2
      <4>2. PICK q \in SetToSeqs(V \ {g}) :
                    \A i, j \in DOMAIN q : i < j => <<q[i], q[j]>> \in R
        BY <2>1, <4>1
      <4>3. IsFiniteSet(V) /\ IsFiniteSet(V \ {g})
        BY FS_Subset
      <4> DEFINE k == Cardinality(V \ {g})
      <4>4. k \in Nat /\ Cardinality(V) = k + 1
        BY <4>1, <4>3, FS_CardinalityType, FS_RemoveElement
      <4>5. q \in [1..k -> V \ {g}] /\ \A i, j \in 1..k : i # j => q[i] # q[j]
        BY <4>2 DEF SetToSeqs
      <4> DEFINE p == [i \in 1..(k + 1) |-> IF i = k + 1 THEN g ELSE q[i]]
      <4> HIDE DEF k
      <4>6. p \in SetToSeqs(V)
        <5>1. \A i \in 1..(k + 1) : i = k + 1 \/ i \in 1..k
          BY <4>4
        <5>2. p \in [1..(k + 1) -> V]
          BY <4>1, <4>5, <5>1
        <5>3. \A i, j \in 1..(k + 1) : i # j => p[i] # p[j]
          BY <4>5, <5>1
        <5> QED BY <4>4, <5>2, <5>3 DEF SetToSeqs
      <4>7. \A i, j \in DOMAIN p : i < j => <<p[i], p[j]>> \in R
        BY <4>1, <4>2, <4>4, <4>5
      <4> QED BY <4>6, <4>7
    <3> QED BY <3>1, <3>2
  <2> HIDE DEF Sorted
  <2> QED BY <2>1, UpToSet
<1> QED BY <1>2
\* The greatest of some places of a sequence.
LEMMA GreatestPlace ==
    ASSUME NEW n \in Nat, NEW u \in SUBSET (1..n), u # {}
    PROVE  Max(u) \in u /\ \A x \in u : x <= Max(u)
<1> DEFINE Rest == {n - x : x \in u}
<1>0. \A x \in u : x \in Nat /\ x <= n /\ n - x \in Nat
  OBVIOUS
<1>1. Rest # {} /\ Rest \subseteq Nat
  BY <1>0
<1>2. PICK d \in Rest : \A e \in Rest : ~(<<e, d>> \in OpToRel(<, Nat))
  <2> HIDE DEF Rest
  <2> QED BY <1>1, NatLessThanWellFounded, WFMin
<1>3. PICK m \in u : d = n - m
  OBVIOUS
<1>4. ASSUME NEW x \in u, x > m PROVE FALSE
  <2>1. n - x \in Rest /\ n - x \in Nat /\ d \in Nat /\ n - x < d
    BY <1>0, <1>1, <1>3, <1>4
  <2>2. <<n - x, d>> \in OpToRel(<, Nat)
    BY <2>1 DEF OpToRel
  <2> HIDE DEF Rest
  <2> QED BY <1>2, <2>1, <2>2, Zenon
<1> HIDE DEF Rest
<1>5. ASSUME NEW x \in u PROVE m >= x
  <2>1. x \in Nat /\ m \in Nat
    BY <1>0
  <2>2. ~(x > m)
    BY <1>4
  <2> QED BY <2>1, <2>2
<1>6. \E y \in u : \A x \in u : y >= x
  BY <1>5
<1>7. Max(u) \in u /\ \A x \in u : Max(u) >= x
  BY <1>6 DEF Max
<1> QED BY <1>0, <1>7

\* The first k places of a sequence.
LEMMA FirstPlaces ==
    ASSUME NEW n \in Nat, NEW k \in 1..n
    PROVE  /\ k \in Nat /\ k - 1 \in Nat /\ k - 1 \in 0..n
           /\ 1..k \in SUBSET (1..n) /\ 1..k # {} /\ k \in 1..k
           /\ (1..k) \ {k} = 1..(k - 1)
           /\ Max(1..k) = k
<1>1. k \in Nat /\ k - 1 \in Nat /\ k - 1 \in 0..n /\ k <= n
  OBVIOUS
<1>2. 1..k \in SUBSET (1..n) /\ k \in 1..k /\ (1..k) \ {k} = 1..(k - 1)
  BY <1>1
<1>3. Max(1..k) \in 1..k /\ k <= Max(1..k)
  BY <1>2, GreatestPlace
<1> QED BY <1>1, <1>2, <1>3


-----------------------------------------------------------------------------
(* The loop.                                                               *)

\* The loop has a value after each note: FoldLeft is the last of them.
LEMMA NoteLoop ==
    ASSUME NEW snap, NEW fresh, NEW n \in Nat, DOMAIN NotesInOrder(snap) = 1..n
    PROVE  \E acc :
              /\ acc[0] = [bindings |-> bindings, records |-> records]
              /\ \A k \in 1..n :
                    acc[k] = NoteStep(snap, fresh, acc[k - 1], NotesInOrder(snap)[k])
              /\ AfterNotes(snap, fresh) = acc[n]
<1> DEFINE base == [bindings |-> bindings, records |-> records]
           q == NotesInOrder(snap)
           Turn(g, u) == IF u = {} THEN base
                         ELSE NoteStep(snap, fresh, g[u \ {Max(u)}], q[Max(u)])
           Turns(g, k) == g = [u \in SUBSET (1..k) |-> Turn(g, u)]
           Defined == {k \in 0..n : \E g : Turns(g, k)}
<1>1. 0 \in Defined
  <2> DEFINE g == [u \in SUBSET (1..0) |-> base]
  <2>1. \A u \in SUBSET (1..0) : u = {}
    OBVIOUS
  <2>2. Turns(g, 0)
    BY <2>1
  <2>3. \E f : Turns(f, 0)
    <3> HIDE DEF g, Turns
    <3> QED BY <2>2
  <2> HIDE DEF g, Turns
  <2> QED BY <2>3
<1>2. ASSUME NEW k \in 1..n, k - 1 \in Defined PROVE k \in Defined
  <2>1. PICK g : Turns(g, k - 1)
    BY <1>2
  <2> DEFINE h == [u \in SUBSET (1..k) |->
                     IF k \in u THEN NoteStep(snap, fresh, g[u \ {k}], q[k]) ELSE g[u]]
  <2>2. ASSUME NEW u \in SUBSET (1..k) PROVE h[u] = Turn(h, u)
    <3>1. CASE k \in u
      <4>1. Max(u) = k
        <5>1. k \in Nat /\ u # {} /\ u \in SUBSET (1..k)
          BY <3>1, FirstPlaces
        <5>2. Max(u) \in 1..k /\ k <= Max(u)
          BY <3>1, <5>1, GreatestPlace
        <5> QED BY <5>1, <5>2
      <4>2. u \ {k} \in SUBSET (1..k) /\ k \notin u \ {k} /\ u # {}
        BY <3>1
      <4>3. h[u \ {k}] = g[u \ {k}]
        BY <4>2
      <4> QED BY <3>1, <4>1, <4>2, <4>3
    <3>2. CASE k \notin u
      <4>1. u \in SUBSET (1..(k - 1)) /\ k - 1 \in Nat
        BY <3>2
      <4>2. CASE u = {}
        BY <2>1, <3>2, <4>1, <4>2
      <4>3. CASE u # {}
        <5>1. Max(u) \in u
          BY <4>1, <4>3, GreatestPlace
        <5>2. u \ {Max(u)} \in SUBSET (1..k) /\ k \notin u \ {Max(u)}
          BY <3>2, <5>1
        <5>3. h[u \ {Max(u)}] = g[u \ {Max(u)}] /\ h[u] = g[u]
          BY <3>2, <5>2
        <5> QED BY <2>1, <4>1, <4>3, <5>3
      <4> QED BY <4>2, <4>3
    <3> QED BY <3>1, <3>2
  <2>3. h = [u \in SUBSET (1..k) |-> h[u]]
    OBVIOUS
  <2>4. Turns(h, k)
    <3> HIDE DEF h, Turn
    <3> QED BY <2>2, <2>3
  <2>5. \E f : Turns(f, k)
    <3> HIDE DEF h, Turns
    <3> QED BY <2>4
  <2> HIDE DEF h, Turns
  <2> QED BY <2>5, FirstPlaces
<1> DEFINE iter == CHOOSE g : Turns(g, n)
<1>3. Turns(iter, n)
  <2>1. n \in Defined
    <3> HIDE DEF Defined
    <3> QED BY <1>1, <1>2, UpTo
  <2> QED BY <2>1
<1>4. AfterNotes(snap, fresh) = iter[1..n]
  BY DEF AfterNotes, FoldLeft, MapThenFoldSet
<1> DEFINE acc == [k \in 0..n |-> iter[1..k]]
<1> HIDE DEF iter
<1>5. acc[0] = base
  BY <1>3
<1>6. ASSUME NEW k \in 1..n PROVE acc[k] = NoteStep(snap, fresh, acc[k - 1], q[k])
  <2>1. acc[k] = iter[1..k] /\ acc[k - 1] = iter[1..(k - 1)]
    BY FirstPlaces
  <2>2. iter[1..k] = Turn(iter, 1..k)
    BY <1>3, FirstPlaces
  <2>3. Turn(iter, 1..k) = NoteStep(snap, fresh, iter[1..(k - 1)], q[k])
    BY FirstPlaces
  <2> QED BY <2>1, <2>2, <2>3
<1>7. acc[n] = iter[1..n]
  OBVIOUS
<1> HIDE DEF acc
<1> QED BY <1>4, <1>5, <1>6, <1>7
-----------------------------------------------------------------------------
(* What the loop over the notes has written after the notes V.             *)

NotesOf(snap) == {l \in Locators : snap[l] # None}

BoundAfter(snap, fresh, V) ==
    [o \in Locators |->
        IF o \in V THEN [content |-> snap[o], record |-> OwnerOf(snap, fresh, o)]
        ELSE IF \E l \in V : IsRename(snap, l) /\ OriginOf(snap, l) = o THEN None
        ELSE bindings[o]]

RecordsAfter(snap, fresh, V) ==
    [r \in Records |->
        IF \E l \in V : OwnerOf(snap, fresh, l) = r
        THEN LET l == CHOOSE l \in V : OwnerOf(snap, fresh, l) = r
             IN  NoteRevision(snap[l], l)
        ELSE records[r]]

After(snap, fresh, V) ==
    [bindings |-> BoundAfter(snap, fresh, V), records |-> RecordsAfter(snap, fresh, V)]

\* The notes before l are done, and l is not.
UpToNote(snap, l, V) ==
    /\ V \subseteq NotesOf(snap)
    /\ l \in NotesOf(snap) \ V
    /\ \A m \in NotesOf(snap) : m < l => m \in V
    /\ \A m \in V : m < l

\* The first locator with a property that some locator has.
LEMMA FirstLocator ==
    ASSUME NEW U, U \subseteq Locators, U # {}
    PROVE  \E l \in U : \A m \in U : ~(m < l)
<1>1. U \subseteq Nat
  BY LocatorsAssumption
<1>2. PICK l \in U : \A m \in U : ~(<<m, l>> \in OpToRel(<, Nat))
  BY <1>1, NatLessThanWellFounded, WFMin
<1>3. ASSUME NEW m \in U, m < l PROVE FALSE
  <2>1. <<m, l>> \in OpToRel(<, Nat)
    BY <1>1, <1>3 DEF OpToRel
  <2> QED BY <1>2, <2>1
<1> QED BY <1>3

\* The bindings of the same bytes that the loop still finds at absent locators.
LEMMA OriginsLeft ==
    ASSUME TypeOK, IsFiniteSet(Locators), NEW snap \in Snapshot,
           NEW fresh \in [NewNotes(snap) -> Records],
           NEW V, NEW l, UpToNote(snap, l, V), bindings[l] = None,
           NEW absent,
           absent = {o \in Locators :
                       /\ BoundAfter(snap, fresh, V)[o] # None
                       /\ BoundAfter(snap, fresh, V)[o].content = snap[l]
                       /\ snap[o] = None}
    PROVE  /\ Cardinality(absent) = 1 <=> IsRename(snap, l)
           /\ IsRename(snap, l) => absent = {OriginOf(snap, l)}
<1> DEFINE Moved(o) == \E m \in V : IsRename(snap, m) /\ OriginOf(snap, m) = o
<1>1. /\ l \in Locators /\ snap[l] # None /\ l \notin V
      /\ \A m \in V : m \in Locators /\ snap[m] # None /\ m < l
      /\ \A m \in Locators : snap[m] # None /\ m < l => m \in V
  BY DEF UpToNote, NotesOf
<1>2. absent = {o \in Origins(snap, snap[l]) : ~Moved(o)}
  BY <1>1 DEF BoundAfter, Origins
<1>3. ASSUME NEW o \in Origins(snap, snap[l]), NEW m \in V,
             IsRename(snap, m), OriginOf(snap, m) = o
      PROVE  snap[m] = snap[l] /\ bindings[m] = None /\ Origins(snap, snap[l]) = {o}
  BY <1>1, <1>3, OwnerOfNote DEF Origins
<1>4. ASSUME IsRename(snap, l) PROVE absent = {OriginOf(snap, l)}
  <2>1. Origins(snap, snap[l]) = {OriginOf(snap, l)}
    BY <1>1, <1>4, OwnerOfNote
  <2>2. \A m \in Locators : m < l /\ bindings[m] = None => snap[m] # snap[l]
    BY <1>4 DEF IsRename
  <2>3. \A o \in Origins(snap, snap[l]) : ~Moved(o)
    BY <1>1, <1>3, <2>2
  <2> QED BY <1>2, <2>1, <2>3
<1>5. ASSUME Cardinality(absent) = 1 PROVE IsRename(snap, l)
  <2>1. IsFiniteSet(absent)
    BY FS_Subset, absent \in SUBSET Locators
  <2>2. PICK o : absent = {o}
    BY <1>5, <2>1, FS_Singleton
  <2>3. o \in Origins(snap, snap[l]) /\ ~Moved(o)
    BY <1>2, <2>2
  <2>4. Origins(snap, snap[l]) = {o}
    BY <1>2, <1>3, <2>2, <2>3
  <2>5. ASSUME NEW m \in Locators, m < l, bindings[m] = None, snap[m] = snap[l]
        PROVE  FALSE
    <3> DEFINE U == {k \in Locators : k < l /\ bindings[k] = None /\ snap[k] = snap[l]}
    <3>1. PICK k \in U : \A j \in U : ~(j < k)
      <4>1. U \subseteq Locators /\ U # {}
        BY <2>5
      <4> HIDE DEF U
      <4> QED BY <4>1, FirstLocator
    <3>2. \A j \in Locators : j < k /\ bindings[j] = None => snap[j] # snap[k]
      BY <1>1, <3>1, LocatorsAssumption
    <3>3. IsRename(snap, k)
      BY <1>1, <2>3, <2>4, <3>1, <3>2 DEF IsRename, Origins
    <3>4. k \in V /\ Origins(snap, snap[k]) = {OriginOf(snap, k)}
      BY <1>1, <3>1, <3>3, OwnerOfNote
    <3>5. OriginOf(snap, k) = o
      BY <2>4, <3>1, <3>4
    <3> QED BY <2>3, <3>3, <3>4, <3>5
  <2> QED BY <1>1, <2>3, <2>4, <2>5 DEF IsRename, Origins
<1>6. IsRename(snap, l) => Cardinality(absent) = 1
  BY <1>4, FS_Singleton
<1> QED BY <1>4, <1>5, <1>6

\* In one synchronization the notes have different owners.
LEMMA OwnersDiffer ==
    ASSUME TypeOK, BindingsMirrorRecords, NEW snap \in Snapshot,
           NEW fresh \in [NewNotes(snap) -> Records], FreshIds(snap, fresh),
           NEW l \in NotesOf(snap), NEW m \in NotesOf(snap),
           OwnerOf(snap, fresh, l) = OwnerOf(snap, fresh, m)
    PROVE  l = m
<1>1. l \in Locators /\ m \in Locators
  BY DEF NotesOf
<1>2. /\ SyncedBindings(snap, fresh)[l] =
            [content |-> snap[l], record |-> OwnerOf(snap, fresh, l)]
      /\ SyncedBindings(snap, fresh)[m] =
            [content |-> snap[m], record |-> OwnerOf(snap, fresh, m)]
  BY DEF NotesOf, SyncedBindings
<1>3. /\ snap[l] \in Contents /\ snap[m] \in Contents
      /\ OwnerOf(snap, fresh, l) \in Records /\ OwnerOf(snap, fresh, m) \in Records
  BY OwnerOfNote DEF NotesOf, Snapshot
<1>4. SyncedBindings(snap, fresh)[l] # None /\ SyncedBindings(snap, fresh)[m] # None
  BY <1>2, <1>3, NoneIsNoRow DEF Binding
<1> QED BY <1>1, <1>2, <1>4, OneLocatorPerRecord

\* One turn of the loop does what the operators say of one more note.
LEMMA NoteStepAdds ==
    ASSUME TypeOK, BindingsMirrorRecords, IsFiniteSet(Locators), NEW snap \in Snapshot,
           NEW fresh \in [NewNotes(snap) -> Records], FreshIds(snap, fresh),
           NEW V, NEW l, UpToNote(snap, l, V)
    PROVE  NoteStep(snap, fresh, After(snap, fresh, V), l) = After(snap, fresh, V \cup {l})
<1> DEFINE acc == After(snap, fresh, V)
           absent == {o \in Locators : /\ acc.bindings[o] # None
                                       /\ acc.bindings[o].content = snap[l]
                                       /\ snap[o] = None}
           known == acc.bindings[l] # None
           renamed == ~known /\ Cardinality(absent) = 1
           previous == CHOOSE o \in absent : TRUE
           owner == IF known THEN acc.bindings[l].record
                    ELSE IF renamed THEN acc.bindings[previous].record
                    ELSE fresh[l]
           B == [o \in Locators |->
                    IF o = l THEN [content |-> snap[l], record |-> owner]
                    ELSE IF renamed /\ o = previous THEN None
                    ELSE acc.bindings[o]]
           R == [acc.records EXCEPT ![owner] = NoteRevision(snap[l], l)]
<1>1. NoteStep(snap, fresh, acc, l) = [bindings |-> B, records |-> R]
  BY DEF NoteStep
<1>2. acc.bindings = BoundAfter(snap, fresh, V) /\ acc.records = RecordsAfter(snap, fresh, V)
  BY DEF After
<1> HIDE DEF acc
<1>3. /\ l \in Locators /\ snap[l] # None /\ l \notin V
      /\ V \cup {l} \subseteq NotesOf(snap) /\ V \subseteq Locators
      /\ \A m \in V : m \in Locators /\ snap[m] # None
  BY DEF UpToNote, NotesOf
<1>4. \A m \in Locators : IsRename(snap, m) =>
          snap[OriginOf(snap, m)] = None /\ snap[m] # None
  BY OwnerOfNote DEF IsRename
<1>5. acc.bindings[l] = bindings[l]
  BY <1>2, <1>3, <1>4 DEF BoundAfter
<1>6. renamed <=> IsRename(snap, l)
  <2>1. bindings[l] # None => ~IsRename(snap, l)
    BY DEF IsRename
  <2>2. bindings[l] = None => (Cardinality(absent) = 1 <=> IsRename(snap, l))
    BY <1>2, OriginsLeft
  <2> HIDE DEF absent
  <2> QED BY <1>5, <2>1, <2>2
<1>7. IsRename(snap, l) =>
        /\ previous = OriginOf(snap, l)
        /\ previous \in absent
        /\ acc.bindings[previous] = bindings[previous]
  <2> SUFFICES ASSUME IsRename(snap, l) PROVE
        /\ previous = OriginOf(snap, l)
        /\ previous \in absent
        /\ acc.bindings[previous] = bindings[previous]
    OBVIOUS
  <2>1. bindings[l] = None
    BY DEF IsRename
  <2>2. absent = {OriginOf(snap, l)}
    <3>1. absent = {o \in Locators : /\ BoundAfter(snap, fresh, V)[o] # None
                                     /\ BoundAfter(snap, fresh, V)[o].content = snap[l]
                                     /\ snap[o] = None}
      BY <1>2
    <3> HIDE DEF absent
    <3> QED BY <2>1, <3>1, OriginsLeft
  <2>3. previous = OriginOf(snap, l) /\ previous \in absent
    <3> HIDE DEF absent
    <3> QED BY <2>2
  <2>4. previous \in Locators /\ acc.bindings[previous] # None /\ snap[previous] = None
    <3> HIDE DEF previous
    <3> QED BY <2>3
  <2>5. acc.bindings[previous] = bindings[previous]
    <3> HIDE DEF previous
    <3> QED BY <1>2, <1>3, <2>4 DEF BoundAfter
  <2> QED BY <2>3, <2>5
<1>8. owner = OwnerOf(snap, fresh, l)
  <2> HIDE DEF renamed, previous
  <2>1. CASE bindings[l] # None
    BY <1>5, <2>1 DEF OwnerOf
  <2>2. CASE bindings[l] = None /\ IsRename(snap, l)
    BY <1>5, <1>6, <1>7, <2>2 DEF OwnerOf
  <2>3. CASE bindings[l] = None /\ ~IsRename(snap, l)
    BY <1>5, <1>6, <2>3 DEF OwnerOf
  <2> QED BY <2>1, <2>2, <2>3
<1> HIDE DEF owner, renamed, previous
<1>9. B = BoundAfter(snap, fresh, V \cup {l})
  <2>1. ASSUME NEW o \in Locators
        PROVE  B[o] = BoundAfter(snap, fresh, V \cup {l})[o]
    <3>1. CASE o = l
      BY <1>8, <3>1 DEF BoundAfter
    <3>2. CASE o # l /\ IsRename(snap, l) /\ o = OriginOf(snap, l)
      BY <1>3, <1>4, <1>6, <1>7, <3>2 DEF BoundAfter
    <3>3. CASE o # l /\ ~(IsRename(snap, l) /\ o = OriginOf(snap, l))
      <4>1. B[o] = BoundAfter(snap, fresh, V)[o]
        BY <1>2, <1>6, <1>7, <3>3
      <4> QED BY <3>3, <4>1 DEF BoundAfter
    <3> QED BY <3>1, <3>2, <3>3
  <2> QED BY <2>1 DEF BoundAfter
<1>10. R = RecordsAfter(snap, fresh, V \cup {l})
  <2>1. owner \in Records
    BY <1>3, <1>8, OwnerOfNote
  <2>2. ASSUME NEW r \in Records
        PROVE  R[r] = RecordsAfter(snap, fresh, V \cup {l})[r]
    <3>1. R[r] = IF r = owner THEN NoteRevision(snap[l], l)
                 ELSE RecordsAfter(snap, fresh, V)[r]
      BY <1>2, <2>1 DEF RecordsAfter
    <3>2. CASE r = owner
      <4>1. \A m \in V \cup {l} : OwnerOf(snap, fresh, m) = r <=> m = l
        BY <1>3, <1>8, <3>2, OwnersDiffer
      <4>2. (CHOOSE m \in V \cup {l} : OwnerOf(snap, fresh, m) = r) = l
        BY <4>1
      <4> QED BY <3>1, <3>2, <4>1, <4>2 DEF RecordsAfter
    <3>3. CASE r # owner
      <4>1. \A m : (m \in V /\ OwnerOf(snap, fresh, m) = r)
                    <=> (m \in V \cup {l} /\ OwnerOf(snap, fresh, m) = r)
        BY <1>8, <3>3
      <4>2. (CHOOSE m \in V \cup {l} : OwnerOf(snap, fresh, m) = r)
              = (CHOOSE m \in V : OwnerOf(snap, fresh, m) = r)
        BY <4>1
      <4> QED BY <3>1, <3>3, <4>1, <4>2 DEF RecordsAfter
    <3> QED BY <3>2, <3>3
  <2> QED BY <1>2, <2>2 DEF RecordsAfter
<1> HIDE DEF B, R
<1> QED BY <1>1, <1>9, <1>10 DEF After, acc

\* After all notes, and the marking of what is missing, stands what Sync writes.
LEMMA MarkedIsSynced ==
    ASSUME TypeOK, BindingsMirrorRecords, NEW snap \in Snapshot,
           NEW fresh \in [NewNotes(snap) -> Records], FreshIds(snap, fresh)
    PROVE  MarkMissing(snap, After(snap, fresh, NotesOf(snap))) =
             [bindings |-> SyncedBindings(snap, fresh),
              records  |-> [r \in Records |-> SyncedRecord(snap, fresh, r)]]
<1> DEFINE acc == After(snap, fresh, NotesOf(snap))
           bound == SyncedBindings(snap, fresh)
           Gone(r) == \E o \in Locators : /\ acc.records[r] # None
                                          /\ snap[o] = None
                                          /\ acc.bindings[o] # None
                                          /\ acc.bindings[o].record = r
           Marked == [r \in Records |->
                        IF Gone(r) THEN [acc.records[r] EXCEPT !.missing = TRUE]
                        ELSE acc.records[r]]
<1>1. acc.bindings = bound
  <2>1. acc.bindings = BoundAfter(snap, fresh, NotesOf(snap))
    BY DEF After
  <2>2. ASSUME NEW o \in Locators PROVE BoundAfter(snap, fresh, NotesOf(snap))[o] = bound[o]
    <3>1. (\E l \in NotesOf(snap) : IsRename(snap, l) /\ OriginOf(snap, l) = o)
            <=> MovedAway(snap, o)
      BY DEF MovedAway, NotesOf, IsRename
    <3> QED BY <3>1 DEF BoundAfter, SyncedBindings, NotesOf
  <2> QED BY <2>1, <2>2 DEF BoundAfter, SyncedBindings
<1>2. acc.records = RecordsAfter(snap, fresh, NotesOf(snap))
  BY DEF After
<1>3. MarkMissing(snap, acc) = [acc EXCEPT !.records = Marked]
  BY DEF MarkMissing
<1>4. [acc EXCEPT !.records = Marked] = [bindings |-> acc.bindings, records |-> Marked]
  <2> HIDE DEF Marked
  <2> QED BY DEF After
<1> HIDE DEF acc
<1>5. ASSUME NEW r \in Records PROVE Marked[r] = SyncedRecord(snap, fresh, r)
  <2>1. \A l \in NotesOf(snap) : /\ l \in Locators /\ snap[l] # None
                                 /\ bound[l] = [content |-> snap[l],
                                                record |-> OwnerOf(snap, fresh, l)]
    BY DEF SyncedBindings, NotesOf
  <2> HIDE DEF bound, Marked
  <2>2. CASE \E l \in Locators : /\ snap[l] \in Contents
                                 /\ bound[l] = [content |-> snap[l], record |-> r]
                                 /\ SyncedRecord(snap, fresh, r) = NoteRevision(snap[l], l)
    <3>1. PICK l \in Locators : /\ snap[l] \in Contents
                                /\ bound[l] = [content |-> snap[l], record |-> r]
                                /\ SyncedRecord(snap, fresh, r) = NoteRevision(snap[l], l)
      BY <2>2
    <3>2. snap[l] # None /\ bound[l] # None /\ bound[l].record = r
      BY <3>1, NoneAssumption, NoneIsNoRow DEF Binding
    <3>3. l \in NotesOf(snap) /\ OwnerOf(snap, fresh, l) = r
      <4>1. l \in NotesOf(snap)
        BY <3>1, <3>2 DEF NotesOf
      <4>2. bound[l].record = OwnerOf(snap, fresh, l)
        <5>1. bound[l] = [content |-> snap[l], record |-> OwnerOf(snap, fresh, l)]
          BY <2>1, <4>1
        <5> QED BY <5>1
      <4> QED BY <3>2, <4>1, <4>2
    <3>4. (CHOOSE m \in NotesOf(snap) : OwnerOf(snap, fresh, m) = r) = l
      BY <3>3, OwnersDiffer
    <3>5. acc.records[r] = NoteRevision(snap[l], l)
      BY <1>2, <3>3, <3>4 DEF RecordsAfter
    <3>6. ~Gone(r)
      BY <1>1, <3>2, <3>1, OneLocatorPerRecord DEF bound
    <3> QED BY <3>1, <3>5, <3>6 DEF Marked
  <2>3. CASE \E l \in Locators :
                 /\ snap[l] = None
                 /\ bound[l] = bindings[l]
                 /\ bindings[l] # None
                 /\ bindings[l].record = r
                 /\ SyncedRecord(snap, fresh, r) = [records[r] EXCEPT !.missing = TRUE]
    <3>1. PICK l \in Locators :
                 /\ snap[l] = None
                 /\ bound[l] = bindings[l]
                 /\ bindings[l] # None
                 /\ bindings[l].record = r
                 /\ SyncedRecord(snap, fresh, r) = [records[r] EXCEPT !.missing = TRUE]
      BY <2>3
    <3>2. \A m \in NotesOf(snap) : OwnerOf(snap, fresh, m) # r
      <4>1. SUFFICES ASSUME NEW m \in NotesOf(snap), OwnerOf(snap, fresh, m) = r PROVE FALSE
        OBVIOUS
      <4>2. snap[m] \in Contents /\ m \in Locators
        BY <2>1 DEF Snapshot
      <4>3. bound[m] # None /\ bound[m].record = r
        <5>1. bound[m] = [content |-> snap[m], record |-> r]
          BY <2>1, <4>1
        <5>2. bound[m] \in Binding
          BY <4>2, <5>1 DEF Binding
        <5> QED BY <5>1, <5>2, NoneIsNoRow
      <4>4. snap[m] # None /\ bound[l] # None /\ bound[l].record = r
        BY <2>1, <3>1
      <4>5. m = l
        BY <3>1, <4>2, <4>3, <4>4, OneLocatorPerRecord DEF bound
      <4> QED BY <3>1, <4>4, <4>5
    <3>3. acc.records[r] = records[r] /\ records[r] # None
      BY <1>2, <3>1, <3>2, Mirror DEF RecordsAfter, Stored
    <3>4. Gone(r)
      BY <1>1, <3>1, <3>3
    <3> QED BY <3>1, <3>3, <3>4 DEF Marked
  <2>4. CASE /\ \A l \in Locators : bound[l] # None => bound[l].record # r
             /\ SyncedRecord(snap, fresh, r) = records[r]
    <3>1. \A m \in NotesOf(snap) : OwnerOf(snap, fresh, m) # r
      <4>1. SUFFICES ASSUME NEW m \in NotesOf(snap), OwnerOf(snap, fresh, m) = r PROVE FALSE
        OBVIOUS
      <4>2. snap[m] \in Contents /\ m \in Locators
        BY <2>1 DEF Snapshot
      <4>3. bound[m] # None /\ bound[m].record = r
        <5>1. bound[m] = [content |-> snap[m], record |-> r]
          BY <2>1, <4>1
        <5>2. bound[m] \in Binding
          BY <4>2, <5>1 DEF Binding
        <5> QED BY <5>1, <5>2, NoneIsNoRow
      <4> QED BY <2>4, <4>2, <4>3
    <3>2. acc.records[r] = records[r]
      BY <1>2, <3>1 DEF RecordsAfter
    <3>3. ~Gone(r)
      BY <1>1, <2>4
    <3> QED BY <2>4, <3>2, <3>3 DEF Marked
  <2> QED BY <2>2, <2>3, <2>4, SyncedByBinding DEF bound
<1>6. Marked = [r \in Records |-> SyncedRecord(snap, fresh, r)]
  <2>1. Marked = [r \in Records |-> Marked[r]]
    OBVIOUS
  <2> HIDE DEF Marked
  <2> QED BY <1>5, <2>1
<1> HIDE DEF Marked
<1> QED BY <1>1, <1>3, <1>4, <1>6 DEF acc

\* The loop over the notes in their order, and the second loop, write what the
\* operators say.
LEMMA LoopIsSync ==
    ASSUME TypeOK, BindingsMirrorRecords, IsFiniteSet(Locators), NEW snap \in Snapshot,
           NEW fresh \in [NewNotes(snap) -> Records], FreshIds(snap, fresh)
    PROVE  MarkMissing(snap, AfterNotes(snap, fresh)) =
             [bindings |-> SyncedBindings(snap, fresh),
              records  |-> [r \in Records |-> SyncedRecord(snap, fresh, r)]]
<1> DEFINE q == NotesInOrder(snap)
           n == Len(q)
           V(k) == {q[i] : i \in 1..k}
           base == [bindings |-> bindings, records |-> records]
<1>1. IsFiniteSet(NotesOf(snap))
  BY FS_Subset, NotesOf(snap) \in SUBSET Locators DEF NotesOf
<1>2. q \in SetToSeqs(NotesOf(snap)) /\ \A i, j \in DOMAIN q : i < j => q[i] < q[j]
  <2> DEFINE R == {p \in Locators \X Locators : p[1] < p[2]}
  <2>1. NotesOf(snap) \subseteq Locators /\ Locators \subseteq Nat
    BY LocatorsAssumption DEF NotesOf
  <2>2. \A x, y \in NotesOf(snap) : <<x, y>> \in R <=> x < y
    BY <2>1
  <2>3. /\ \A x, y \in NotesOf(snap) : x # y => x < y \/ y < x
        /\ \A x, y, z \in NotesOf(snap) : x < y /\ y < z => x < z
    <3>1. \A x \in NotesOf(snap) : x \in Nat
      BY <2>1
    <3> HIDE DEF R
    <3> QED BY <3>1
  <2> HIDE DEF R
  <2>4. PICK p \in SetToSeqs(NotesOf(snap)) :
               \A i, j \in DOMAIN p : i < j => <<p[i], p[j]>> \in R
    BY <1>1, <2>2, <2>3, Sortable
  <2>5. \A i, j \in DOMAIN p : p[i] \in NotesOf(snap) /\ p[j] \in NotesOf(snap)
    BY <1>1, NumberingIsOnto
  <2>6. \A i, j \in DOMAIN p : i < j => p[i] < p[j]
    BY <2>2, <2>4, <2>5
  <2> QED BY <2>6 DEF NotesInOrder, NotesOf
<1> HIDE DEF q
<1>3. /\ q \in Seq(NotesOf(snap)) /\ n \in Nat /\ DOMAIN q = 1..n
      /\ \A i, j \in 1..n : q[i] = q[j] => i = j
      /\ \A i \in 1..n : q[i] \in NotesOf(snap)
      /\ \A l \in NotesOf(snap) : \E i \in 1..n : q[i] = l
  BY <1>1, <1>2, NumberingIsOnto
<1> HIDE DEF n
<1>4. PICK acc :
        /\ acc[0] = base
        /\ \A k \in 1..n : acc[k] = NoteStep(snap, fresh, acc[k - 1], q[k])
        /\ AfterNotes(snap, fresh) = acc[n]
  <2>1. n \in Nat /\ DOMAIN NotesInOrder(snap) = 1..n
    BY <1>3 DEF q
  <2>2. \E acc :
          /\ acc[0] = [bindings |-> bindings, records |-> records]
          /\ \A k \in 1..n :
                acc[k] = NoteStep(snap, fresh, acc[k - 1], NotesInOrder(snap)[k])
          /\ AfterNotes(snap, fresh) = acc[n]
    BY ONLY <2>1, NoteLoop
  <2> QED BY <2>2 DEF q
<1> HIDE DEF base
<1>5. base = After(snap, fresh, {})
  <2>1. BoundAfter(snap, fresh, {}) = bindings /\ RecordsAfter(snap, fresh, {}) = records
    BY DEF BoundAfter, RecordsAfter, TypeOK
  <2> QED BY <2>1 DEF After, base
<1> DEFINE Done == {k \in 0..n : acc[k] = After(snap, fresh, V(k))}
<1>6. 0 \in Done
  <2>1. V(0) = {}
    OBVIOUS
  <2>2. 0 \in 0..n
    BY <1>3
  <2> HIDE DEF V
  <2> QED BY <1>4, <1>5, <2>1, <2>2
<1>7. ASSUME NEW k \in 1..n, k - 1 \in Done PROVE k \in Done
  <2>1. k \in Nat /\ k - 1 \in Nat /\ k \in 0..n
    BY <1>3, FirstPlaces
  <2>2. V(k) = V(k - 1) \cup {q[k]}
    BY <1>3, <2>1
  <2>3. UpToNote(snap, q[k], V(k - 1))
    <3>1. \A i \in 1..(k - 1) : i \in 1..n /\ i < k
      BY <1>3, <2>1
    <3>2. V(k - 1) \subseteq NotesOf(snap) /\ q[k] \in NotesOf(snap) /\ q[k] \notin V(k - 1)
      BY <1>3, <3>1
    <3>3. \A m \in V(k - 1) : m < q[k]
      BY <1>2, <1>3, <3>1
    <3>4. ASSUME NEW m \in NotesOf(snap), m < q[k] PROVE m \in V(k - 1)
      <4>1. PICK i \in 1..n : q[i] = m
        BY <1>3
      <4>2. /\ NotesOf(snap) \subseteq Nat
            /\ ~(q[k] < m) /\ m # q[k]
        <5>1. NotesOf(snap) \subseteq Nat
          BY LocatorsAssumption DEF NotesOf
        <5>2. m \in Nat /\ q[k] \in Nat
          BY <1>3, <5>1
        <5> QED BY <3>4, <5>1, <5>2
      <4>3. i < k
        BY <1>2, <1>3, <4>1, <4>2
      <4> QED BY <1>3, <2>1, <4>1, <4>3
    <3> HIDE DEF V
    <3> QED BY <3>2, <3>3, <3>4 DEF UpToNote
  <2>4. acc[k] = NoteStep(snap, fresh, After(snap, fresh, V(k - 1)), q[k])
    BY <1>4, <1>7
  <2> HIDE DEF V
  <2> QED BY <2>1, <2>2, <2>3, <2>4, NoteStepAdds
<1>8. n \in Done
  <2>1. n \in Nat /\ n \in 0..n
    BY <1>3
  <2> HIDE DEF Done
  <2> QED BY <1>6, <1>7, <2>1, UpTo
<1>9. V(n) = NotesOf(snap)
  BY <1>3
<1>10. AfterNotes(snap, fresh) = After(snap, fresh, NotesOf(snap))
  BY <1>4, <1>8, <1>9
<1> QED BY <1>10, MarkedIsSynced

\* Every synchronization of a workspace does what the loops of the code do.
THEOREM SyncDoesTheNoteLoop ==
    ASSUME IsFiniteSet(Locators)
    PROVE  Spec => []SyncMatchesNoteLoop
<1>1. TypeOK /\ BindingsMirrorRecords => SyncMatchesNoteLoop
  BY LoopIsSync DEF SyncMatchesNoteLoop
<1> QED BY <1>1, TypeCorrect, BindingsMirrorRecordsHolds, PTL
=============================================================================
