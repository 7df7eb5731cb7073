----------------------- MODULE ContextSelectionProofs -----------------------
(***************************************************************************)
(* Proofs about ContextSelection for every query, budget and order of the  *)
(* identities, and any finite set of records.  The lemmas on induction and *)
(* on numberings are those of ObsidianNoteLoopProofs.                      *)
(***************************************************************************)
EXTENDS ContextSelection, ObsidianNoteLoopProofs

-----------------------------------------------------------------------------
(* The tokens of a set of records.                                         *)

FirstOf(U) == CHOOSE x \in U : TRUE

\* FoldSet takes the elements of a finite set away, one by one.
LEMMA TokensUnfold ==
    ASSUME NEW S, IsFiniteSet(S)
    PROVE  TokensIn(S) = IF S = {} THEN 0
                         ELSE TokensIn(S \ {FirstOf(S)}) + TokensOf(FirstOf(S))
<1> DEFINE Turn(g, u) == IF u = {} THEN 0
                         ELSE g[u \ {FirstOf(u)}] + TokensOf(FirstOf(u))
           Sums(g, U) == g = [u \in SUBSET U |-> Turn(g, u)]
           iter(U) == CHOOSE g : Sums(g, U)
<1>1. \A U : TokensIn(U) = iter(U)[U]
  BY DEF TokensIn, FoldSet, MapThenFoldSet, FirstOf
<1>2. ASSUME NEW U \in SUBSET S PROVE \E g : Sums(g, U)
  <2> DEFINE Upto(g, k) == /\ g = [u \in SUBSET U |-> g[u]]
                           /\ \A u \in SUBSET U : Cardinality(u) <= k => g[u] = Turn(g, u)
             Defined == {k \in 0..Cardinality(U) : \E g : Upto(g, k)}
  <2>1. IsFiniteSet(U) /\ Cardinality(U) \in Nat
    BY FS_Subset, FS_CardinalityType
  <2>2. \A u \in SUBSET U : /\ IsFiniteSet(u) /\ Cardinality(u) \in Nat
                            /\ Cardinality(u) <= Cardinality(U)
                            /\ Cardinality(u) = 0 <=> u = {}
    BY <2>1, FS_Subset, FS_CardinalityType, FS_EmptySet
  <2>3. \A u \in SUBSET U : u # {} =>
            /\ u \ {FirstOf(u)} \in SUBSET U
            /\ Cardinality(u \ {FirstOf(u)}) = Cardinality(u) - 1
    <3> SUFFICES ASSUME NEW u \in SUBSET U, u # {}
                 PROVE  /\ u \ {FirstOf(u)} \in SUBSET U
                        /\ Cardinality(u \ {FirstOf(u)}) = Cardinality(u) - 1
      OBVIOUS
    <3>1. FirstOf(u) \in u
      BY DEF FirstOf
    <3> QED BY <2>2, <3>1, FS_RemoveElement
  <2>4. 0 \in Defined
    <3> DEFINE g == [u \in SUBSET U |-> 0]
    <3>1. \A u \in SUBSET U : Cardinality(u) <= 0 => g[u] = Turn(g, u)
      BY <2>2
    <3>2. g = [u \in SUBSET U |-> g[u]]
      OBVIOUS
    <3> HIDE DEF g, Turn
    <3>3. Upto(g, 0)
      BY <3>1, <3>2
    <3> HIDE DEF Upto
    <3> QED BY <2>1, <3>3
  <2>5. ASSUME NEW k \in 1..Cardinality(U), k - 1 \in Defined PROVE k \in Defined
    <3>1. PICK g : Upto(g, k - 1)
      BY <2>5
    <3> DEFINE h == [u \in SUBSET U |->
                       IF Cardinality(u) <= k - 1 THEN g[u] ELSE Turn(g, u)]
    <3>2. ASSUME NEW u \in SUBSET U, Cardinality(u) <= k PROVE h[u] = Turn(h, u)
      <4>1. h[u] = Turn(g, u)
        BY <3>1
      <4>2. CASE u = {}
        BY <4>1, <4>2
      <4>3. CASE u # {}
        <5>1. u \ {FirstOf(u)} \in SUBSET U /\ Cardinality(u \ {FirstOf(u)}) <= k - 1
          BY <2>1, <2>2, <2>3, <3>2, <4>3
        <5>2. h[u \ {FirstOf(u)}] = g[u \ {FirstOf(u)}]
          BY <5>1
        <5> QED BY <4>1, <4>3, <5>2
      <4> QED BY <4>2, <4>3
    <3>3. h = [u \in SUBSET U |-> h[u]]
      OBVIOUS
    <3> HIDE DEF h, Turn
    <3>4. Upto(h, k)
      BY <3>2, <3>3
    <3> HIDE DEF Upto
    <3> QED BY <2>1, <3>4
  <2>6. Cardinality(U) \in Defined
    <3> HIDE DEF Defined
    <3> QED BY <2>1, <2>4, <2>5, UpTo
  <2>7. PICK g : Upto(g, Cardinality(U))
    BY <2>6
  <2>8. Sums(g, U)
    <3> HIDE DEF Turn
    <3> QED BY <2>2, <2>7
  <2> HIDE DEF Sums
  <2> QED BY <2>8
<1>3. \A U \in SUBSET S : Sums(iter(U), U)
  <2> HIDE DEF Sums
  <2> QED BY <1>2
<1>4. \A U \in SUBSET S : \A u \in SUBSET U : iter(U)[u] = Turn(iter(U), u)
  <2> HIDE DEF iter, Turn
  <2> QED BY <1>3
<1> HIDE DEF iter
<1>5. ASSUME NEW U \in SUBSET S PROVE iter(U)[U] = iter(S)[U]
  <2> DEFINE Same == {u \in SUBSET U : iter(U)[u] = iter(S)[u]}
  <2>1. ASSUME NEW u \in SUBSET U, \A x \in u : u \ {x} \in Same PROVE u \in Same
    <3>1. CASE u = {}
      BY <1>4, <3>1
    <3>2. CASE u # {}
      <4>1. FirstOf(u) \in u
        BY <3>2 DEF FirstOf
      <4>2. iter(U)[u \ {FirstOf(u)}] = iter(S)[u \ {FirstOf(u)}]
        BY <2>1, <4>1
      <4> QED BY <1>4, <3>2, <4>2
    <3> QED BY <3>1, <3>2
  <2>2. IsFiniteSet(U)
    BY FS_Subset
  <2>3. U \in Same
    <3> HIDE DEF Same
    <3> QED BY <2>1, <2>2, UpToSet
  <2> QED BY <2>3
<1>6. CASE S = {}
  BY <1>1, <1>4, <1>6
<1>7. CASE S # {}
  <2>1. S \ {FirstOf(S)} \in SUBSET S
    OBVIOUS
  <2>2. TokensIn(S \ {FirstOf(S)}) = iter(S)[S \ {FirstOf(S)}]
    BY <1>1, <1>5, <2>1
  <2> QED BY <1>1, <1>4, <1>7, <2>2
<1> QED BY <1>6, <1>7

\* The tokens of a stored record are counted by a natural number.
LEMMA TokensType ==
    ASSUME TypeOK
    PROVE  \A r \in Stored : records[r].content \in Contents /\ TokensOf(r) \in Nat
<1>1. \A r \in Stored : records[r] \in Revision
  BY DEF TypeOK, Stored
<1>2. \A r \in Stored : records[r].content \in Contents
  BY <1>1 DEF Revision
<1> QED BY <1>2, TokensAssumption DEF TokensOf

\* No records have no tokens.
LEMMA TokensOfNone == TokensIn({}) = 0
  BY FS_EmptySet, TokensUnfold

\* So are those of a finite set of records.
LEMMA TokensNatural ==
    ASSUME TypeOK, NEW S \in SUBSET Stored, IsFiniteSet(S)
    PROVE  \A U \in SUBSET S : TokensIn(U) \in Nat
<1> DEFINE Counted == {U \in SUBSET S : TokensIn(U) \in Nat}
<1>1. ASSUME NEW U \in SUBSET S, \A x \in U : U \ {x} \in Counted PROVE U \in Counted
  <2>1. IsFiniteSet(U)
    BY FS_Subset
  <2>2. CASE U = {}
    BY <2>2, TokensOfNone
  <2>3. CASE U # {}
    <3>1. FirstOf(U) \in U
      BY <2>3 DEF FirstOf
    <3>2. TokensIn(U \ {FirstOf(U)}) \in Nat /\ TokensOf(FirstOf(U)) \in Nat
      BY <1>1, <3>1, TokensType
    <3>3. TokensIn(U) = TokensIn(U \ {FirstOf(U)}) + TokensOf(FirstOf(U))
      BY <2>1, <2>3, TokensUnfold
    <3> QED BY <3>2, <3>3
  <2> QED BY <2>2, <2>3
<1>2. \A U \in SUBSET S : U \in Counted
  <2> HIDE DEF Counted
  <2> QED BY <1>1, UpToSet
<1> QED BY <1>2

\* The count of a set does not depend on the order in which it is taken.
LEMMA TokensAdd ==
    ASSUME TypeOK, NEW S \in SUBSET Stored, IsFiniteSet(S)
    PROVE  \A r \in S : TokensIn(S) = TokensIn(S \ {r}) + TokensOf(r)
<1> DEFINE Counted == {U \in SUBSET S :
                          \A r \in U : TokensIn(U) = TokensIn(U \ {r}) + TokensOf(r)}
<1>1. \A U \in SUBSET S : TokensIn(U) \in Nat
  BY TokensNatural
<1>2. \A r \in S : TokensOf(r) \in Nat
  BY TokensType
<1>3. ASSUME NEW U \in SUBSET S, \A x \in U : U \ {x} \in Counted PROVE U \in Counted
  <2>1. SUFFICES ASSUME NEW r \in U PROVE TokensIn(U) = TokensIn(U \ {r}) + TokensOf(r)
    OBVIOUS
  <2> DEFINE f == FirstOf(U)
  <2>2. f \in U /\ TokensIn(U) = TokensIn(U \ {f}) + TokensOf(f)
    <3>1. IsFiniteSet(U)
      BY FS_Subset
    <3> QED BY <2>1, <3>1, TokensUnfold DEF FirstOf
  <2> HIDE DEF f
  <2>3. CASE r = f
    BY <2>2, <2>3
  <2>4. CASE r # f
    <3>1. (U \ {f}) \ {r} = (U \ {r}) \ {f} /\ r \in U \ {f} /\ f \in U \ {r}
      BY <2>2, <2>4
    <3>2. TokensIn(U \ {f}) = TokensIn((U \ {f}) \ {r}) + TokensOf(r)
      BY <1>3, <2>2, <3>1
    <3>3. TokensIn(U \ {r}) = TokensIn((U \ {f}) \ {r}) + TokensOf(f)
      BY <1>3, <3>1
    <3>4. /\ TokensIn((U \ {f}) \ {r}) \in Nat
          /\ TokensOf(r) \in Nat /\ TokensOf(f) \in Nat
      BY <1>1, <1>2, <2>2
    <3> QED BY <2>2, <3>2, <3>3, <3>4
  <2> QED BY <2>3, <2>4
<1>4. S \in Counted
  <2> HIDE DEF Counted
  <2> QED BY <1>3, UpToSet
<1> QED BY <1>4
-----------------------------------------------------------------------------
(* The ranking.                                                            *)

\* What the ranking is for the rest of this module: it lists each matching
\* record once, and a better one before a lesser one.
LEMMA RankedInOrder ==
    ASSUME TypeOK, IsFiniteSet(Records), NEW score \in Queries, NEW place \in Orders
    PROVE  LET q == Ranked(score, place)
               n == Len(q)
           IN  /\ n \in Nat /\ DOMAIN q = 1..n /\ q \in Seq(Matches(score))
               /\ \A i, j \in 1..n : q[i] = q[j] => i = j
               /\ \A i \in 1..n : q[i] \in Matches(score)
               /\ \A r \in Matches(score) : \E i \in 1..n : q[i] = r
               /\ \A i, j \in 1..n : Better(score, place, q[i], q[j]) <=> i < j
<1> DEFINE M == Matches(score)
           B(r, s) == Better(score, place, r, s)
           R == {p \in M \X M : B(p[1], p[2])}
           q == Ranked(score, place)
           n == Len(q)
<1>1. M \subseteq Stored /\ M \subseteq Records /\ IsFiniteSet(M)
  <2>1. M \subseteq Stored /\ M \subseteq Records
    BY DEF Matches, ExcludedFor, Stored
  <2> QED BY <2>1, FS_Subset
<1>2. \A r \in M : score[records[r].content] \in Nat /\ place[r] \in Nat
  <2>1. score \in [Contents -> Nat] /\ place \in [Records -> 1..Cardinality(Records)]
    BY QueriesAssumption DEF Orders
  <2>2. \A r \in M : records[r].content \in Contents /\ r \in Records
    BY <1>1, TokensType
  <2>3. Cardinality(Records) \in Nat
    BY FS_CardinalityType
  <2> HIDE DEF M
  <2> QED BY <2>1, <2>2, <2>3
<1>3. \A r, s \in M : r # s => place[r] # place[s]
  BY <1>1 DEF Orders, IsInjective
<1> HIDE DEF M
<1>4. /\ \A r, s \in M : r # s => B(r, s) \/ B(s, r)
      /\ \A r, s \in M : ~(B(r, s) /\ B(s, r))
      /\ \A r, s, t \in M : B(r, s) /\ B(s, t) => B(r, t)
  <2>1. ASSUME NEW r \in M, NEW s \in M, r # s PROVE B(r, s) \/ B(s, r)
    BY <1>2, <1>3, <2>1 DEF Better
  <2>2. ASSUME NEW r \in M, NEW s \in M PROVE ~(B(r, s) /\ B(s, r))
    BY <1>2 DEF Better
  <2>3. ASSUME NEW r \in M, NEW s \in M, NEW t \in M, B(r, s), B(s, t) PROVE B(r, t)
    BY <1>2, <2>3 DEF Better
  <2> QED BY <2>1, <2>2, <2>3
<1> HIDE DEF B
<1>5. PICK p \in SetToSeqs(M) : \A i, j \in DOMAIN p : i < j => B(p[i], p[j])
  <2>1. \A r, s \in M : <<r, s>> \in R <=> B(r, s)
    OBVIOUS
  <2> HIDE DEF R
  <2>2. PICK p \in SetToSeqs(M) : \A i, j \in DOMAIN p : i < j => <<p[i], p[j]>> \in R
    BY <1>1, <1>4, <2>1, Sortable
  <2>3. \A i \in DOMAIN p : p[i] \in M
    BY <1>1, NumberingIsOnto
  <2> QED BY <2>1, <2>2, <2>3
<1>6. q \in SetToSeqs(M) /\ \A i, j \in DOMAIN q : i < j => B(q[i], q[j])
  BY <1>5 DEF Ranked, M, B
<1> HIDE DEF q
<1>7. /\ n \in Nat /\ DOMAIN q = 1..n /\ q \in Seq(M)
      /\ \A i, j \in 1..n : q[i] = q[j] => i = j
      /\ \A i \in 1..n : q[i] \in M
      /\ \A r \in M : \E i \in 1..n : q[i] = r
  BY <1>1, <1>6, NumberingIsOnto
<1> HIDE DEF n
<1>8. ASSUME NEW i \in 1..n, NEW j \in 1..n PROVE B(q[i], q[j]) <=> i < j
  <2>1. CASE i < j
    BY <1>6, <1>7, <2>1
  <2>2. CASE i = j
    BY <1>4, <1>7, <2>2
  <2>3. CASE j < i
    BY <1>4, <1>6, <1>7, <2>3
  <2> QED BY <1>7, <2>1, <2>2, <2>3
<1> QED BY <1>7, <1>8 DEF q, n, M, B
-----------------------------------------------------------------------------
(* The selection, record by record.                                        *)

\* What a turn of compile_context leaves for the manifest.
ManifestOf(taken, score) ==
    [items |-> taken.items, total |-> taken.total, token_budget |-> ToSet(taken.over),
     no_query_match |-> ExcludedFor("none") \ Matches(score)]

NothingTaken == [items |-> <<>>, over |-> <<>>, total |-> 0]

\* The selection has a value after each record: FoldLeft is the last of them.
LEMMA SelectionLoop ==
    ASSUME NEW score, NEW budget, NEW place, NEW n \in Nat,
           DOMAIN Ranked(score, place) = 1..n
    PROVE  \E acc :
              /\ acc[0] = NothingTaken
              /\ \A k \in 1..n :
                    acc[k] = Take(acc[k - 1], Ranked(score, place)[k], budget)
              /\ Manifest(score, budget, place) = ManifestOf(acc[n], score)
<1> DEFINE base == NothingTaken
           q == Ranked(score, place)
           Turn(g, u) == IF u = {} THEN base
                         ELSE Take(g[u \ {Max(u)}], q[Max(u)], budget)
           Turns(g, k) == g = [u \in SUBSET (1..k) |-> Turn(g, u)]
           Defined == {k \in 0..n : \E g : Turns(g, k)}
<1>1. 0 \in Defined
  <2> DEFINE g == [u \in SUBSET (1..0) |-> base]
  <2>1. \A u \in SUBSET (1..0) : u = {}
    OBVIOUS
  <2>2. Turns(g, 0)
    BY <2>1
  <2>3. \E f : Turns(f, 0)
    <3> HIDE DEF g, Turns
    <3> QED BY <2>2
  <2> HIDE DEF g, Turns
  <2> QED BY <2>3
<1>2. ASSUME NEW k \in 1..n, k - 1 \in Defined PROVE k \in Defined
  <2>1. PICK g : Turns(g, k - 1)
    BY <1>2
  <2> DEFINE h == [u \in SUBSET (1..k) |->
                     IF k \in u THEN Take(g[u \ {k}], q[k], budget) ELSE g[u]]
  <2>2. ASSUME NEW u \in SUBSET (1..k) PROVE h[u] = Turn(h, u)
    <3>1. CASE k \in u
      <4>1. Max(u) = k
        <5>1. k \in Nat /\ u # {} /\ u \in SUBSET (1..k)
          BY <3>1, FirstPlaces
        <5>2. Max(u) \in 1..k /\ k <= Max(u)
          BY <3>1, <5>1, GreatestPlace
        <5> QED BY <5>1, <5>2
      <4>2. u \ {k} \in SUBSET (1..k) /\ k \notin u \ {k} /\ u # {}
        BY <3>1
      <4>3. h[u \ {k}] = g[u \ {k}]
        BY <4>2
      <4> QED BY <3>1, <4>1, <4>2, <4>3
    <3>2. CASE k \notin u
      <4>1. u \in SUBSET (1..(k - 1)) /\ k - 1 \in Nat
        BY <3>2
      <4>2. CASE u = {}
        BY <2>1, <3>2, <4>1, <4>2
      <4>3. CASE u # {}
        <5>1. Max(u) \in u
          BY <4>1, <4>3, GreatestPlace
        <5>2. u \ {Max(u)} \in SUBSET (1..k) /\ k \notin u \ {Max(u)}
          BY <3>2, <5>1
        <5>3. h[u \ {Max(u)}] = g[u \ {Max(u)}] /\ h[u] = g[u]
          BY <3>2, <5>2
        <5> QED BY <2>1, <4>1, <4>3, <5>3
      <4> QED BY <4>2, <4>3
    <3> QED BY <3>1, <3>2
  <2>3. h = [u \in SUBSET (1..k) |-> h[u]]
    OBVIOUS
  <2>4. Turns(h, k)
    <3> HIDE DEF h, Turn
    <3> QED BY <2>2, <2>3
  <2>5. \E f : Turns(f, k)
    <3> HIDE DEF h, Turns
    <3> QED BY <2>4
  <2> HIDE DEF h, Turns
  <2> QED BY <2>5, FirstPlaces
<1> DEFINE iter == CHOOSE g : Turns(g, n)
<1>3. Turns(iter, n)
  <2>1. n \in Defined
    <3> HIDE DEF Defined
    <3> QED BY <1>1, <1>2, UpTo
  <2> QED BY <2>1
<1>4. Manifest(score, budget, place) = ManifestOf(iter[1..n], score)
  BY DEF Manifest, FoldLeft, MapThenFoldSet, ManifestOf, NothingTaken
<1> DEFINE acc == [k \in 0..n |-> iter[1..k]]
<1> HIDE DEF iter
<1>5. acc[0] = base
  BY <1>3
<1>6. ASSUME NEW k \in 1..n PROVE acc[k] = Take(acc[k - 1], q[k], budget)
  <2>1. acc[k] = iter[1..k] /\ acc[k - 1] = iter[1..(k - 1)]
    BY FirstPlaces
  <2>2. iter[1..k] = Turn(iter, 1..k)
    BY <1>3, FirstPlaces
  <2>3. Turn(iter, 1..k) = Take(iter[1..(k - 1)], q[k], budget)
    BY FirstPlaces
  <2> QED BY <2>1, <2>2, <2>3
<1>7. acc[n] = iter[1..n]
  OBVIOUS
<1> HIDE DEF acc
<1> QED BY <1>4, <1>5, <1>6, <1>7

\* What stands after the records q[1], ..., q[k] of a ranking.
SelectionInv(taken, q, k, budget) ==
    LET Seen(i) == {q[j] : j \in 1..i}
        items == ToSet(taken.items)
        over == ToSet(taken.over)
    IN  /\ taken = [items |-> taken.items, over |-> taken.over, total |-> taken.total]
        /\ taken.items \in Seq(Stored) /\ taken.over \in Seq(Stored)
        /\ IsInjective(taken.items)
        /\ items \cup over = Seen(k) /\ items \cap over = {}
        /\ taken.total = TokensIn(items) /\ taken.total <= budget
        /\ \A i \in 1..k :
              q[i] \in over <=> TokensIn(items \cap Seen(i - 1)) + TokensOf(q[i]) > budget

\* Appending to a sequence adds one element to its set.
LEMMA AppendedSet ==
    ASSUME NEW S, NEW s \in Seq(S), NEW e \in S
    PROVE  /\ Append(s, e) \in Seq(S)
           /\ ToSet(Append(s, e)) = ToSet(s) \cup {e}
           /\ ToSet(s) \subseteq S
           /\ IsInjective(s) /\ e \notin ToSet(s) => IsInjective(Append(s, e))
<1>1. /\ Append(s, e) \in Seq(S) /\ Len(s) \in Nat
      /\ DOMAIN s = 1..Len(s) /\ DOMAIN Append(s, e) = 1..(Len(s) + 1)
      /\ \A i \in 1..Len(s) : Append(s, e)[i] = s[i] /\ s[i] \in S
      /\ Append(s, e)[Len(s) + 1] = e
  OBVIOUS
<1>2. \A i \in 1..(Len(s) + 1) : i = Len(s) + 1 \/ i \in 1..Len(s)
  BY <1>1
<1>3. 1..Len(s) \subseteq 1..(Len(s) + 1) /\ Len(s) + 1 \in 1..(Len(s) + 1)
  BY <1>1
<1>4. ToSet(Append(s, e)) = ToSet(s) \cup {e}
  BY <1>1, <1>2, <1>3 DEF ToSet
<1>5. ASSUME IsInjective(s), e \notin ToSet(s) PROVE IsInjective(Append(s, e))
  BY <1>1, <1>2, <1>5 DEF ToSet, IsInjective
<1> QED BY <1>1, <1>4, <1>5 DEF ToSet

\* One turn of the selection.
LEMMA TakeKeeps ==
    ASSUME TypeOK, NEW budget \in Nat, NEW n \in Nat, NEW q, NEW k \in 1..n,
           IsFiniteSet(Stored),
           \A i, j \in 1..n : q[i] = q[j] => i = j,
           \A i \in 1..n : q[i] \in Stored,
           NEW taken, SelectionInv(taken, q, k - 1, budget)
    PROVE  SelectionInv(Take(taken, q[k], budget), q, k, budget)
<1> DEFINE Seen(i) == {q[j] : j \in 1..i}
           items == ToSet(taken.items)
           over == ToSet(taken.over)
           r == q[k]
           next == Take(taken, r, budget)
<1>1. /\ taken = [items |-> taken.items, over |-> taken.over, total |-> taken.total]
      /\ taken.items \in Seq(Stored) /\ taken.over \in Seq(Stored)
      /\ IsInjective(taken.items)
      /\ items \cup over = Seen(k - 1) /\ items \cap over = {}
      /\ taken.total = TokensIn(items) /\ taken.total <= budget
      /\ \A i \in 1..(k - 1) :
            q[i] \in over <=> TokensIn(items \cap Seen(i - 1)) + TokensOf(q[i]) > budget
  BY DEF SelectionInv
<1>2. /\ k \in Nat /\ k - 1 \in Nat /\ k - 1 \in 0..n /\ k <= n
      /\ \A i \in 1..k : i = k \/ i \in 1..(k - 1)
      /\ \A i \in 1..k : i \in 1..n /\ i - 1 \in Nat
      /\ \A i \in 1..k : \A j \in 1..(i - 1) : j \in 1..n /\ j < k
  <2>1. k \in Nat /\ k - 1 \in Nat /\ k - 1 \in 0..n /\ k <= n
    OBVIOUS
  <2> QED BY <2>1
<1>3. Seen(k) = Seen(k - 1) \cup {r} /\ r \notin Seen(k - 1) /\ r \in Stored
  BY <1>2
<1>4. \A i \in 1..k : r \notin Seen(i - 1)
  BY <1>2
<1>5. \A i \in 1..(k - 1) : q[i] # r
  BY <1>2
<1>6. items \subseteq Stored /\ IsFiniteSet(items) /\ IsFiniteSet(items \cup {r})
  <2>1. items \subseteq Stored
    BY <1>1 DEF ToSet
  <2> QED BY <1>3, <2>1, FS_Subset
<1>7. TokensIn(items) \in Nat /\ TokensOf(r) \in Nat
  BY <1>3, <1>6, TokensNatural, TokensType
<1>8. r \notin items /\ r \notin over
  BY <1>1, <1>3
<1>9. items \cap Seen(k - 1) = items
  BY <1>1
<1> HIDE DEF Seen, items, over, r
<1>10. CASE taken.total + TokensOf(r) > budget
  <2>1. next = [items |-> taken.items, over |-> Append(taken.over, r), total |-> taken.total]
    BY <1>1, <1>10 DEF Take
  <2>2. ToSet(next.over) = over \cup {r} /\ next.over \in Seq(Stored)
    BY <1>1, <1>3, <2>1, AppendedSet DEF over
  <2>3. next.items = taken.items /\ next.total = taken.total /\ ToSet(next.items) = items
    BY <2>1 DEF items
  <2> HIDE DEF next
  <2>4. ASSUME NEW i \in 1..k
        PROVE  q[i] \in over \cup {r}
                 <=> TokensIn(items \cap Seen(i - 1)) + TokensOf(q[i]) > budget
    <3>1. CASE i = k
      BY <1>1, <1>9, <1>10, <3>1 DEF r
    <3>2. CASE i \in 1..(k - 1)
      BY <1>1, <1>5, <3>2
    <3> QED BY <1>2, <3>1, <3>2
  <2>5. items \cup (over \cup {r}) = Seen(k) /\ items \cap (over \cup {r}) = {}
    BY <1>1, <1>3, <1>8
  <2>6. next = [items |-> next.items, over |-> next.over, total |-> next.total]
    BY <2>1 DEF next
  <2> QED BY <1>1, <2>2, <2>3, <2>4, <2>5, <2>6 DEF SelectionInv, Seen, next, r
<1>11. CASE ~(taken.total + TokensOf(r) > budget)
  <2>1. next = [items |-> Append(taken.items, r), over |-> taken.over,
                total |-> taken.total + TokensOf(r)]
    BY <1>1, <1>11 DEF Take
  <2>2. /\ ToSet(next.items) = items \cup {r} /\ next.items \in Seq(Stored)
        /\ IsInjective(next.items)
    BY <1>1, <1>3, <1>8, <2>1, AppendedSet DEF items
  <2>3. /\ next.over = taken.over /\ ToSet(next.over) = over
        /\ next.total = taken.total + TokensOf(r)
    BY <2>1 DEF over
  <2>4. next = [items |-> next.items, over |-> next.over, total |-> next.total]
    BY <2>1
  <2> HIDE DEF next
  <2>5. next.total = TokensIn(items \cup {r}) /\ next.total <= budget
    <3>1. (items \cup {r}) \ {r} = items /\ items \cup {r} \subseteq Stored
      BY <1>3, <1>6, <1>8
    <3>2. TokensIn(items \cup {r}) = TokensIn(items) + TokensOf(r)
      BY <1>6, <3>1, TokensAdd
    <3> QED BY <1>1, <1>7, <1>11, <2>3, <3>2
  <2>6. ASSUME NEW i \in 1..k
        PROVE  q[i] \in over
                 <=> TokensIn((items \cup {r}) \cap Seen(i - 1)) + TokensOf(q[i]) > budget
    <3>1. (items \cup {r}) \cap Seen(i - 1) = items \cap Seen(i - 1)
      BY <1>4
    <3>2. CASE i = k
      BY <1>1, <1>8, <1>9, <1>11, <3>1, <3>2 DEF r
    <3>3. CASE i \in 1..(k - 1)
      BY <1>1, <3>1, <3>3
    <3> QED BY <1>2, <3>2, <3>3
  <2>7. (items \cup {r}) \cup over = Seen(k) /\ (items \cup {r}) \cap over = {}
    BY <1>1, <1>3, <1>8
  <2>8. next.over \in Seq(Stored)
    BY <1>1, <2>3
  <2> QED BY <2>2, <2>3, <2>4, <2>5, <2>6, <2>7, <2>8 DEF SelectionInv, Seen, next, r
<1> QED BY <1>10, <1>11

\* What the manifest of a query says, given the ranking q of its matches.
LEMMA ManifestIs ==
    ASSUME TypeOK, IsFiniteSet(Records), NEW score \in Queries, NEW budget \in Budgets,
           NEW place \in Orders
    PROVE  LET q == Ranked(score, place)
               n == Len(q)
           IN  \E taken : /\ SelectionInv(taken, q, n, budget)
                          /\ Manifest(score, budget, place) = ManifestOf(taken, score)
<1> DEFINE q == Ranked(score, place)
           n == Len(q)
<1>1. /\ n \in Nat /\ DOMAIN q = 1..n
      /\ \A i, j \in 1..n : q[i] = q[j] => i = j
      /\ \A i \in 1..n : q[i] \in Matches(score)
  BY RankedInOrder
<1>2. Matches(score) \subseteq Stored /\ IsFiniteSet(Stored) /\ budget \in Nat
  <2>1. Matches(score) \subseteq Stored /\ Stored \in SUBSET Records
    BY DEF Matches, ExcludedFor, Stored
  <2> QED BY <2>1, FS_Subset, BudgetsAssumption
<1> HIDE DEF n
<1>3. PICK acc : /\ acc[0] = NothingTaken
                 /\ \A k \in 1..n : acc[k] = Take(acc[k - 1], q[k], budget)
                 /\ Manifest(score, budget, place) = ManifestOf(acc[n], score)
  BY <1>1, SelectionLoop
<1> HIDE DEF q
<1> DEFINE Done == {k \in 0..n : SelectionInv(acc[k], q, k, budget)}
<1>4. 0 \in Done
  <2> DEFINE t == NothingTaken
  <2>1. /\ {q[j] : j \in 1..0} = {} /\ ~ \E i \in 1..0 : TRUE
        /\ <<>> \in Seq(Stored) /\ ToSet(<<>>) = {} /\ IsInjective(<<>>)
    BY DEF ToSet, IsInjective
  <2>2. /\ t = [items |-> t.items, over |-> t.over, total |-> t.total]
        /\ t.items = <<>> /\ t.over = <<>> /\ t.total = 0
    BY DEF NothingTaken
  <2> HIDE DEF t
  <2>3. t.total = TokensIn({}) /\ t.total <= budget
    BY <1>2, <2>2, TokensOfNone
  <2>4. SelectionInv(t, q, 0, budget)
    BY <2>1, <2>2, <2>3 DEF SelectionInv
  <2>5. 0 \in 0..n
    BY <1>1
  <2> QED BY <1>3, <2>4, <2>5 DEF t
<1>5. ASSUME NEW k \in 1..n, k - 1 \in Done PROVE k \in Done
  <2>1. \A i \in 1..n : q[i] \in Stored
    BY <1>1, <1>2
  <2>2. SelectionInv(Take(acc[k - 1], q[k], budget), q, k, budget)
    BY <1>1, <1>2, <1>5, <2>1, TakeKeeps
  <2>3. k \in 0..n
    BY <1>1
  <2> QED BY <1>3, <2>2, <2>3
<1>6. n \in Done
  <2>1. n \in 0..n
    BY <1>1
  <2> HIDE DEF Done
  <2> QED BY <1>1, <1>4, <1>5, <2>1, UpTo
<1> QED BY <1>3, <1>6 DEF q, n

-----------------------------------------------------------------------------
(* The properties.                                                         *)

\* A matching record is left out exactly when it does not fit beside the better
\* ranked items.
LEMMA RankDecides ==
    ASSUME TypeOK, IsFiniteSet(Records)
    PROVE  BudgetGoesByRank
<1> SUFFICES ASSUME NEW score \in Queries, NEW budget \in Budgets, NEW place \in Orders,
                    NEW s \in Matches(score)
             PROVE  LET m == Manifest(score, budget, place)
                    IN  s \in m.token_budget
                        <=> TokensIn({r \in ToSet(m.items) : Better(score, place, r, s)})
                              + TokensOf(s) > budget
  BY DEF BudgetGoesByRank
<1> DEFINE q == Ranked(score, place)
           n == Len(q)
           m == Manifest(score, budget, place)
           Seen(i) == {q[j] : j \in 1..i}
<1>1. /\ n \in Nat
      /\ \A r \in Matches(score) : \E i \in 1..n : q[i] = r
      /\ \A i, j \in 1..n : Better(score, place, q[i], q[j]) <=> i < j
  BY RankedInOrder
<1>2. PICK taken : SelectionInv(taken, q, n, budget) /\ m = ManifestOf(taken, score)
  BY ManifestIs
<1>3. m.items = taken.items /\ m.token_budget = ToSet(taken.over)
  BY <1>2 DEF ManifestOf
<1>4. /\ ToSet(m.items) \cup m.token_budget = Seen(n)
      /\ \A i \in 1..n :
            q[i] \in m.token_budget
            <=> TokensIn(ToSet(m.items) \cap Seen(i - 1)) + TokensOf(q[i]) > budget
  BY <1>2, <1>3 DEF SelectionInv
<1> HIDE DEF q, n, m
<1>5. PICK i \in 1..n : q[i] = s
  BY <1>1
<1>6. {r \in ToSet(m.items) : Better(score, place, r, s)} = ToSet(m.items) \cap Seen(i - 1)
  <2>1. \A j \in 1..n : Better(score, place, q[j], s) <=> j < i
    BY <1>1, <1>5
  <2>2. \A j \in 1..n : j < i <=> j \in 1..(i - 1)
    BY <1>1
  <2>3. \A j \in 1..(i - 1) : j \in 1..n /\ j < i
    BY <1>1
  <2>4. \A r \in ToSet(m.items) : \E j \in 1..n : r = q[j]
    BY <1>4
  <2>5. ASSUME NEW r \in ToSet(m.items)
        PROVE  Better(score, place, r, s) <=> r \in Seen(i - 1)
    BY <2>1, <2>2, <2>3, <2>4
  <2> HIDE DEF Seen
  <2> QED BY <2>5
<1> HIDE DEF Seen
<1> QED BY <1>4, <1>5, <1>6 DEF m

\* The items of a manifest are counted once each.
LEMMA ItemsCounted ==
    ASSUME NEW S, NEW s \in Seq(S), IsInjective(s)
    PROVE  IsFiniteSet(ToSet(s)) /\ Cardinality(ToSet(s)) = Len(s)
<1>1. Len(s) \in Nat /\ DOMAIN s = 1..Len(s) /\ s \in [1..Len(s) -> ToSet(s)]
  BY DEF ToSet
<1>2. IsFiniteSet(1..Len(s)) /\ Cardinality(1..Len(s)) = Len(s)
  BY <1>1, FS_Interval
<1>3. s \in Surjection(1..Len(s), ToSet(s)) /\ s \in Injection(1..Len(s), ToSet(s))
  BY <1>1 DEF Surjection, Injection, ToSet
<1> QED BY <1>2, <1>3, FS_Surjection

\* Two sets without a common element.
LEMMA DisjointUnion ==
    ASSUME NEW A, NEW B, IsFiniteSet(A), IsFiniteSet(B), A \cap B = {}
    PROVE  Cardinality(A \cup B) = Cardinality(A) + Cardinality(B)
<1>1. Cardinality(A \cap B) = 0
  BY FS_EmptySet
<1>2. Cardinality(A) \in Nat /\ Cardinality(B) \in Nat
  BY FS_CardinalityType
<1>3. Cardinality(A \cup B) = Cardinality(A) + Cardinality(B) - Cardinality(A \cap B)
  BY FS_Union
<1> QED BY <1>1, <1>2, <1>3

\* Four sets that divide a fifth.
LEMMA FourParts ==
    ASSUME NEW A, NEW B, NEW C, NEW D, IsFiniteSet(A \cup B \cup C \cup D),
           A \cap B = {}, (A \cup B) \cap C = {}, (A \cup B \cup C) \cap D = {}
    PROVE  Cardinality(A) + Cardinality(B) + Cardinality(C) + Cardinality(D)
             = Cardinality(A \cup B \cup C \cup D)
<1>1. /\ IsFiniteSet(A) /\ IsFiniteSet(B) /\ IsFiniteSet(C) /\ IsFiniteSet(D)
      /\ IsFiniteSet(A \cup B) /\ IsFiniteSet(A \cup B \cup C)
  BY FS_Subset
<1>2. /\ Cardinality(A) \in Nat /\ Cardinality(B) \in Nat
      /\ Cardinality(C) \in Nat /\ Cardinality(D) \in Nat
  BY <1>1, FS_CardinalityType
<1>3. Cardinality(A \cup B) = Cardinality(A) + Cardinality(B)
  BY <1>1, DisjointUnion
<1>4. Cardinality(A \cup B \cup C) = Cardinality(A \cup B) + Cardinality(C)
  BY <1>1, DisjointUnion
<1>5. Cardinality(A \cup B \cup C \cup D) = Cardinality(A \cup B \cup C) + Cardinality(D)
  BY <1>1, DisjointUnion
<1> QED BY <1>2, <1>3, <1>4, <1>5

\* Eligible memory is what is approved and not missing.
LEMMA EligibleIsRetrievable ==
    ASSUME TypeOK, LatestRowExists
    PROVE  ExcludedFor("none") = {r \in Stored : Retrievable(r)}
<1> SUFFICES ASSUME NEW r \in Stored PROVE Exclusion(r) = "none" <=> Retrievable(r)
  BY DEF ExcludedFor
<1>1. r \in Records /\ records[r] # None /\ records[r].content \in Contents
  BY TokensType DEF Stored
<1>2. AuthorityOf(r) = "approved" <=> Standing(r, records[r].content) = "approved"
  BY DEF AuthorityOf
<1>3. AuthorityOf(r) = "approved" <=> Approved(r)
  BY <1>1, <1>2, StandingIsLatest DEF StandingFacts, Approved, Decisions
<1> QED BY <1>3 DEF Exclusion, Retrievable

\* Every stored record appears in the recall once, in its place.
LEMMA RecallAccounts ==
    ASSUME TypeOK, LatestRowExists, IsFiniteSet(Records)
    PROVE  RecallAccountsForMemory
<1> DEFINE excluded == UNION {ExcludedFor(x) : x \in {"superseded", "not_approved",
                                                     "missing_source"}}
           eligible == ExcludedFor("none")
<1>1. excluded = Stored \ eligible /\ eligible \subseteq Stored
  BY DEF ExcludedFor, Exclusion
<1>2. IsFiniteSet(Stored) /\ Stored \in SUBSET Records
  <2>1. Stored \in SUBSET Records
    BY DEF Stored
  <2> QED BY <2>1, FS_Subset
<1>3. eligible = {r \in Stored : Retrievable(r)}
  BY EligibleIsRetrievable
<1> HIDE DEF excluded, eligible
<1>4. SUFFICES ASSUME NEW score \in Queries, NEW budget \in Budgets, NEW place \in Orders
               PROVE  LET m == Recall(score, budget, place)
                      IN  /\ m = None <=> eligible = {}
                          /\ m # None =>
                               /\ ValidManifest(m, budget)
                               /\ Len(m.items) + Cardinality(m.token_budget)
                                    + Cardinality(m.no_query_match) + Cardinality(excluded)
                                    = Cardinality(Stored)
                               /\ ToSet(m.items) \cup m.token_budget \cup m.no_query_match
                                    = eligible
  <2>1. eligible = {} <=> \A r \in Stored : ~Retrievable(r)
    BY <1>3
  <2> QED BY <1>3, <2>1, ZenonT(30) DEF RecallAccountsForMemory, excluded
<1> DEFINE q == Ranked(score, place)
           n == Len(q)
           M == Matches(score)
           m == Manifest(score, budget, place)
<1>5. Recall(score, budget, place) = IF eligible = {} THEN None ELSE m
  BY DEF Recall, eligible
<1>6. /\ \A r \in M : \E i \in 1..n : q[i] = r
      /\ \A i \in 1..n : q[i] \in M
  BY RankedInOrder
<1>7. M \subseteq eligible
  BY DEF Matches, eligible
<1>8. PICK taken : SelectionInv(taken, q, n, budget) /\ m = ManifestOf(taken, score)
  BY ManifestIs
<1>9. /\ m.items = taken.items /\ m.total = taken.total
      /\ m.token_budget = ToSet(taken.over) /\ m.no_query_match = eligible \ M
  BY <1>8 DEF ManifestOf, eligible
<1>10. /\ m.items \in Seq(Stored) /\ IsInjective(m.items)
       /\ ToSet(m.items) \cup m.token_budget = {q[j] : j \in 1..n}
       /\ ToSet(m.items) \cap m.token_budget = {}
       /\ m.total = TokensIn(ToSet(m.items)) /\ m.total <= budget
  BY <1>8, <1>9 DEF SelectionInv
<1>11. m # None
  <2>1. m = [items |-> m.items, total |-> m.total, token_budget |-> m.token_budget,
             no_query_match |-> m.no_query_match]
    BY <1>8 DEF ManifestOf
  <2>2. m.items \in Seq(Records) /\ m.token_budget \in SUBSET Records
        /\ m.no_query_match \in SUBSET Records /\ ToSet(m.items) \in SUBSET Stored
    <3>1. ToSet(m.items) \in SUBSET Stored /\ m.items \in Seq(Records)
      BY <1>2, <1>10 DEF ToSet
    <3>2. {q[j] : j \in 1..n} \subseteq Stored
      BY <1>1, <1>6, <1>7
    <3> QED BY <1>1, <1>2, <1>9, <1>10, <3>1, <3>2
  <2>3. m.total \in Nat
    <3>1. IsFiniteSet(ToSet(m.items))
      BY <1>2, <2>2, FS_Subset
    <3> QED BY <1>10, <2>2, <3>1, TokensNatural
  <2> HIDE DEF m
  <2> QED BY <2>1, <2>2, <2>3, NoneIsNoManifest
<1> HIDE DEF q, n, m
<1>12. ToSet(m.items) \cup m.token_budget = M
  BY <1>6, <1>10
<1> HIDE DEF M
<1>13. ValidManifest(m, budget)
  BY <1>9, <1>10, <1>12 DEF ValidManifest
<1>14. ToSet(m.items) \cup m.token_budget \cup m.no_query_match = eligible
  BY <1>7, <1>9, <1>12
<1>15. Len(m.items) + Cardinality(m.token_budget) + Cardinality(m.no_query_match)
         + Cardinality(excluded) = Cardinality(Stored)
  <2>1. /\ (ToSet(m.items) \cup m.token_budget) \cap m.no_query_match = {}
        /\ (ToSet(m.items) \cup m.token_budget \cup m.no_query_match) \cap excluded = {}
        /\ ToSet(m.items) \cup m.token_budget \cup m.no_query_match \cup excluded = Stored
    BY <1>1, <1>9, <1>12, <1>14
  <2>2. Cardinality(ToSet(m.items)) = Len(m.items)
    BY <1>10, ItemsCounted
  <2> QED BY <1>2, <1>10, <2>1, <2>2, FourParts
<1> QED BY <1>5, <1>11, <1>13, <1>14, <1>15

\* Whatever reviews and synchronizations led here, a recall accounts for every
\* stored record, and its manifest is one the validators accept.
THEOREM RecallAlwaysAccounts ==
    ASSUME IsFiniteSet(Records)
    PROVE  Spec => []RecallAccountsForMemory
<1>1. TypeOK /\ ReviewInv => RecallAccountsForMemory
  BY RecallAccounts DEF ReviewInv
<1> QED BY <1>1, TypeCorrect, ReviewInvariant, PTL

\* In every reachable store the budget goes to the better ranked memory.
THEOREM BudgetAlwaysGoesByRank ==
    ASSUME IsFiniteSet(Records)
    PROVE  Spec => []BudgetGoesByRank
<1>1. TypeOK => BudgetGoesByRank
  BY RankDecides
<1> QED BY <1>1, TypeCorrect, PTL
=============================================================================
