------------------------ MODULE AccountBook_proofs ------------------------
(***************************************************************************)
(* What holds of AccountBook for any accounts, calls and amounts: the      *)
(* balances remain the sums of the postings.  What a sum over a set is,    *)
(* and that a posting adds to it, is proved from the definition of the     *)
(* library's fold.                                                         *)
(***************************************************************************)
EXTENDS AccountBook, FiniteSetTheorems, WellFoundedInduction, TLAPS

-----------------------------------------------------------------------------
(* Sums over finite sets of entries, as MapThenSumSet takes them: it picks *)
(* an element, adds its delta to the sum of the rest, and comes to the     *)
(* same whatever it picks.                                                 *)

Total(S) == MapThenSumSet(LAMBDA e : e.delta, S)
First(t) == CHOOSE x \in t : TRUE

Onward(g, t) == First(t).delta + g[t \ {First(t)}]

\* g sums up the subsets of S the way Total does.
Sums(g, S) ==
    g = [t \in SUBSET S |-> IF t = {} THEN 0 ELSE Onward(g, t)]

\* No member of T is a proper subset of x.
Minimal(x, T) == \A y \in T : y \subseteq x => y = x

LEMMA Smallest ==
    ASSUME NEW S, IsFiniteSet(S), NEW T, T \subseteq SUBSET S, T # {}
    PROVE  \E x \in T : Minimal(x, T)
<1>1. IsWellFoundedOn(StrictSubsetOrdering(S), SUBSET S)
  BY FS_StrictSubsetOrderingWellFounded, FS_FiniteSubsetsOfFinite
<1>2. PICK x \in T : \A y \in T : ~(<<y, x>> \in StrictSubsetOrdering(S))
  BY <1>1, WFMin
<1>3. ASSUME NEW y \in T, y \subseteq x, y # x PROVE <<y, x>> \in StrictSubsetOrdering(S)
  BY <1>3 DEF StrictSubsetOrdering
<1>4. ASSUME NEW y \in T, y \subseteq x PROVE y = x
  BY <1>2, <1>3, <1>4, Zenon
<1> QED BY <1>4 DEF Minimal

LEMMA FirstIn == \A t : t # {} => First(t) \in t
BY DEF First

\* What Sums says of each subset.
LEMMA SumStep ==
    ASSUME NEW S, NEW g, Sums(g, S), NEW t \in SUBSET S
    PROVE  /\ t = {} => g[t] = 0
           /\ t # {} => g[t] = Onward(g, t)
BY DEF Sums


\* Two such functions agree where both are defined.
LEMMA SumsAgree ==
    ASSUME NEW S, IsFiniteSet(S), NEW U, NEW V, U \subseteq S, V \subseteq S,
           NEW g, NEW h, Sums(g, U), Sums(h, V)
    PROVE  \A t \in SUBSET (U \cap V) : g[t] = h[t]
<1> DEFINE T == {t \in SUBSET (U \cap V) : g[t] # h[t]}
<1> SUFFICES ASSUME T # {} PROVE FALSE
  OBVIOUS
<1>1. T \subseteq SUBSET S
  OBVIOUS
<1> HIDE DEF T
<1>2. PICK t \in T : Minimal(t, T)
  BY <1>1, Smallest
<1> USE DEF T
<1>3. t # {}
  BY SumStep
<1>4. t \ {First(t)} \notin T
  BY <1>2, <1>3, FirstIn DEF Minimal
<1>5. g[t \ {First(t)}] = h[t \ {First(t)}]
  BY <1>4
<1>6. t \in SUBSET U /\ t \in SUBSET V
  OBVIOUS
<1> QED BY <1>3, <1>5, <1>6, SumStep DEF Onward

\* There is one for every finite set: a smallest subset without one would have it from those
\* of its own subsets.
LEMMA SumsExist ==
    ASSUME NEW S, IsFiniteSet(S)
    PROVE  \E g : Sums(g, S)
<1> DEFINE T == {t \in SUBSET S : ~\E g : Sums(g, t)}
<1> SUFFICES ASSUME T # {} PROVE FALSE
  OBVIOUS
<1>0. T \subseteq SUBSET S
  OBVIOUS
<1> HIDE DEF T
<1>1. PICK s \in T : Minimal(s, T)
  BY <1>0, Smallest
<1> USE DEF T
<1>2. \A x \in s : \E g : Sums(g, s \ {x})
  BY <1>1 DEF Minimal
<1> DEFINE f == [x \in s |-> CHOOSE g : Sums(g, s \ {x})]
           G == [t \in SUBSET s |->
                    IF t = s
                    THEN IF s = {} THEN 0 ELSE Onward(f[First(s)], s)
                    ELSE f[First(s \ t)][t]]
<1>3. \A x \in s : Sums(f[x], s \ {x})
  BY <1>2
<1> HIDE DEF f
<1>4. \A x, y \in s : \A t \in SUBSET s : x \notin t /\ y \notin t => f[x][t] = f[y][t]
  <2> SUFFICES ASSUME NEW x \in s, NEW y \in s, NEW t \in SUBSET s, x \notin t, y \notin t
               PROVE  f[x][t] = f[y][t]
    OBVIOUS
  <2>1. s \ {x} \subseteq S /\ s \ {y} \subseteq S /\ t \in SUBSET ((s \ {x}) \cap (s \ {y}))
    OBVIOUS
  <2>2. Sums(f[x], s \ {x}) /\ Sums(f[y], s \ {y})
    BY <1>3
  <2>3. \A v \in SUBSET ((s \ {x}) \cap (s \ {y})) : f[x][v] = f[y][v]
    BY <2>1, <2>2, SumsAgree
  <2> QED BY <2>1, <2>3
<1>5. \A t \in SUBSET s : t # s => First(s \ t) \in s /\ First(s \ t) \notin t
  BY FirstIn
<1>6. \A t \in SUBSET s : G[t] = IF t = {} THEN 0 ELSE Onward(G, t)
  <2> SUFFICES ASSUME NEW t \in SUBSET s
               PROVE  G[t] = IF t = {} THEN 0 ELSE Onward(G, t)
    OBVIOUS
  <2>1. CASE t = {} /\ t = s
    BY <2>1
  <2>2. CASE t = {} /\ t # s
    <3>1. Sums(f[First(s \ t)], s \ {First(s \ t)}) /\ t \in SUBSET (s \ {First(s \ t)})
      BY <1>3, <1>5, <2>2
    <3>2. f[First(s \ t)][t] = 0
      BY <2>2, <3>1, SumStep, Zenon
    <3> QED BY <2>2, <3>2
  <2>3. CASE t # {}
    <3> DEFINE u == t \ {First(t)}
    <3>1. First(t) \in t /\ First(t) \notin u /\ u \in SUBSET s /\ u # s
      BY <2>3, FirstIn
    <3>2. G[u] = f[First(s \ u)][u]
      BY <3>1
    <3>3. CASE t = s
      BY <1>4, <1>5, <2>3, <3>1, <3>2, <3>3 DEF Onward
    <3>4. CASE t # s
      <4>1. G[t] = f[First(s \ t)][t]
        BY <3>4
      <4>2. f[First(s \ t)][t] = First(t).delta + f[First(s \ t)][u]
        <5>1. Sums(f[First(s \ t)], s \ {First(s \ t)}) /\ t \in SUBSET (s \ {First(s \ t)})
          BY <1>3, <1>5, <3>4
        <5>2. f[First(s \ t)][t] = Onward(f[First(s \ t)], t)
          BY <2>3, <5>1, SumStep
        <5> QED BY <5>2 DEF Onward
      <4>3. f[First(s \ t)][u] = f[First(s \ u)][u]
        <5>1. /\ First(s \ t) \in s /\ First(s \ t) \notin u
              /\ First(s \ u) \in s /\ First(s \ u) \notin u
          BY <1>5, <3>1, <3>4
        <5> HIDE DEF u
        <5> QED BY <1>4, <3>1, <5>1, Zenon
      <4> QED BY <2>3, <3>2, <4>1, <4>2, <4>3 DEF Onward
    <3> QED BY <3>3, <3>4
  <2> QED BY <2>1, <2>2, <2>3
<1>7. Sums(G, s)
  <2> HIDE DEF G
  <2>1. G = [t \in SUBSET s |-> G[t]]
    BY DEF G
  <2>2. [t \in SUBSET s |-> G[t]] =
        [t \in SUBSET s |-> IF t = {} THEN 0 ELSE Onward(G, t)]
    BY <1>6
  <2> QED BY <2>1, <2>2 DEF Sums
<1> QED BY <1>1, <1>7

\* So Total has a value that can be reasoned about.
LEMMA TotalShape ==
    ASSUME NEW S, IsFiniteSet(S)
    PROVE  \E g : Sums(g, S) /\ Total(S) = g[S]
<1> DEFINE g == CHOOSE g : Sums(g, S)
<1>1. Total(S) = g[S]
  BY DEF Total, MapThenSumSet, MapThenFoldSet, Sums, Onward, First
<1> QED BY <1>1, SumsExist

\* Any element may be the first.
LEMMA SumTake ==
    ASSUME NEW S, IsFiniteSet(S), \A e \in S : e.delta \in Int, NEW g, Sums(g, S)
    PROVE  \A t \in SUBSET S : g[t] \in Int /\ \A x \in t : g[t] = x.delta + g[t \ {x}]
<1> DEFINE Fine(t) == g[t] \in Int /\ \A x \in t : g[t] = x.delta + g[t \ {x}]
           T == {t \in SUBSET S : ~Fine(t)}
<1> SUFFICES ASSUME T # {} PROVE FALSE
  OBVIOUS
<1>0. T \subseteq SUBSET S
  OBVIOUS
<1> HIDE DEF T
<1>1. PICK t \in T : Minimal(t, T)
  BY <1>0, Smallest
<1>2. t \in SUBSET S /\ ~Fine(t)
  BY DEF T
<1> HIDE DEF Fine
<1>3. \A u \in SUBSET t : u # t => Fine(u)
  BY <1>1, <1>2 DEF T, Minimal
<1>4. t # {}
  <2>1. ASSUME t = {} PROVE g[t] = 0
    BY <1>2, <2>1, SumStep
  <2> QED BY <1>2, <2>1 DEF Fine
<1> DEFINE c == First(t)
<1>5. c \in t /\ g[t] = c.delta + g[t \ {c}]
  BY <1>2, <1>4, FirstIn, SumStep DEF Onward
<1> HIDE DEF c
<1>6. \A x \in t : Fine(t \ {x}) /\ x.delta \in Int
  BY <1>2, <1>3
<1>7. g[t] \in Int
  <2>1. Fine(t \ {c}) /\ c.delta \in Int
    BY <1>5, <1>6
  <2>2. g[t \ {c}] \in Int
    BY <2>1 DEF Fine
  <2> QED BY <1>5, <2>1, <2>2
<1>8. ASSUME NEW x \in t PROVE g[t] = x.delta + g[t \ {x}]
  <2>1. CASE x = c
    BY <1>5, <2>1
  <2>2. CASE x # c
    <3>1. g[t \ {c}] = x.delta + g[(t \ {c}) \ {x}]
      BY <1>5, <1>6, <2>2 DEF Fine
    <3>2. g[t \ {x}] = c.delta + g[(t \ {x}) \ {c}]
      BY <1>5, <1>6, <2>2 DEF Fine
    <3>3. (t \ {c}) \ {x} = (t \ {x}) \ {c}
      OBVIOUS
    <3>4. Fine((t \ {c}) \ {x})
      BY <1>3, <1>5
    <3>5. g[(t \ {c}) \ {x}] \in Int /\ c.delta \in Int /\ x.delta \in Int
      BY <1>5, <1>6, <3>4 DEF Fine
    <3>6. g[t \ {x}] = c.delta + g[(t \ {c}) \ {x}]
      BY <3>2, <3>3
    <3>7. g[t] = c.delta + (x.delta + g[(t \ {c}) \ {x}])
      BY <1>5, <3>1
    <3> HIDE DEF Fine
    <3> QED BY <3>5, <3>6, <3>7
  <2> QED BY <2>1, <2>2
<1> QED BY <1>2, <1>7, <1>8 DEF Fine

\* A new entry adds its delta.
LEMMA TotalAdds ==
    ASSUME NEW S, IsFiniteSet(S), \A e \in S : e.delta \in Int,
           NEW x, x \notin S, x.delta \in Int
    PROVE  /\ Total(S) \in Int
           /\ Total(S \cup {x}) = Total(S) + x.delta
<1> DEFINE U == S \cup {x}
<1>1. IsFiniteSet(U) /\ \A e \in U : e.delta \in Int
  BY FS_AddElement
<1> HIDE DEF U
<1>2. PICK g : Sums(g, S) /\ Total(S) = g[S]
  BY TotalShape
<1>3. PICK h : Sums(h, U) /\ Total(U) = h[U]
  BY <1>1, TotalShape
<1>4. U \ {x} = S /\ x \in U /\ S \subseteq U
  BY DEF U
<1>5. h[U] = x.delta + h[U \ {x}]
  BY <1>1, <1>3, <1>4, SumTake
<1>6. g[S] = h[S]
  <2>1. \A t \in SUBSET (S \cap U) : g[t] = h[t]
    <3>1. S \subseteq U /\ U \subseteq U /\ Sums(g, S) /\ Sums(h, U) /\ IsFiniteSet(U)
      BY <1>1, <1>2, <1>3, <1>4
    <3>2. \A t \in SUBSET (S \cap U) : g[t] = h[t]
      BY ONLY <3>1, SumsAgree
    <3> QED BY <3>2
  <2> QED BY <1>4, <2>1
<1>7. g[S] \in Int
  BY <1>2, SumTake
<1>8. h[U] = x.delta + g[S]
  BY <1>4, <1>5, <1>6
<1>9. Total(U) = Total(S) + x.delta /\ Total(S) \in Int
  BY <1>2, <1>3, <1>7, <1>8
<1> QED BY <1>9 DEF U

LEMMA TotalOfNone == Total({}) = 0
<1>1. PICK g : Sums(g, {}) /\ Total({}) = g[{}]
  BY TotalShape, FS_EmptySet
<1> QED BY <1>1, SumStep
-----------------------------------------------------------------------------
(* The balances.                                                           *)

Numbers ==
    /\ Amounts \subseteq Nat
    /\ MaxBalance \in Nat
    /\ Opening \in [Accounts -> 0..MaxBalance]

\* The entries of account a.
Of(a) == {e \in journal : e.account = a}

LEMMA PostedIsTotal == \A a : Posted(a) = Total(Of(a))
BY DEF Posted, Total, Of

\* The inductive invariant.
Summed ==
    /\ BookTypeOK
    /\ IsFiniteSet(journal)
    /\ \A a \in Accounts : balance[a] = Opening[a] + Total(Of(a))

LEMMA SummedIsEnough == Summed => BookTypeOK /\ BalanceIsJournalSum
BY PostedIsTotal DEF Summed, BalanceIsJournalSum

LEMMA InitSummed ==
    ASSUME Numbers, BookInit
    PROVE  Summed
<1>1. journal = {} /\ \A a : Of(a) = {}
  BY DEF BookInit, Of
<1>2. \A a \in Accounts : balance[a] = Opening[a] /\ Opening[a] \in Int
  BY DEF BookInit, Numbers
<1>3. \A a \in Accounts : balance[a] = Opening[a] + Total(Of(a))
  <2> SUFFICES ASSUME NEW a \in Accounts
               PROVE  balance[a] = Opening[a] + Total(Of(a))
    OBVIOUS
  <2>1. Total(Of(a)) = 0
    BY <1>1, TotalOfNone
  <2> QED BY <1>2, <2>1
<1>4. IsFiniteSet(journal)
  BY <1>1, FS_EmptySet
<1>5. BookTypeOK
  BY DEF BookInit, Numbers, BookTypeOK
<1> QED BY <1>3, <1>4, <1>5 DEF Summed

\* A posting adds its amount to the balance and to the sum of its account, and to no other.
LEMMA PostKeepsSummed ==
    ASSUME Numbers, Summed, NEW c \in Calls, NEW b \in Accounts, NEW d \in Deltas, Post(c, b, d)
    PROVE  Summed'
<1>0. d \in Int /\ Deltas \subseteq Int
  <2>1. \A x \in Amounts : x \in Int /\ -x \in Int
    BY DEF Numbers
  <2> QED BY <2>1 DEF Deltas
<1>1. PICK y : y = [call |-> c, account |-> b, delta |-> d]
  OBVIOUS
<1>2. y.call = c /\ y.account = b /\ y.delta = d /\ y \in Entries
  BY <1>1 DEF Entries
<1>3. /\ journal' = journal \cup {y} /\ y \notin journal
      /\ balance' = [balance EXCEPT ![b] = @ + d]
      /\ balance[b] + d \in 0..MaxBalance
  BY <1>1, <1>2 DEF Post
<1>4. BookTypeOK'
  BY <1>2, <1>3 DEF BookTypeOK, Summed
<1>5. IsFiniteSet(journal) /\ IsFiniteSet(journal')
  BY <1>3, FS_AddElement DEF Summed
<1>6. ASSUME NEW a \in Accounts
      PROVE  balance'[a] = Opening[a] + Total(Of(a)')
  <2>1. /\ balance[a] = Opening[a] + Total(Of(a))
        /\ balance'[a] = IF a = b THEN balance[a] + d ELSE balance[a]
    BY <1>3 DEF Summed, BookTypeOK
  <2>2. CASE a = b
    <3>1. Of(a)' = Of(a) \cup {y} /\ y \notin Of(a)
      BY <1>2, <1>3, <2>2 DEF Of
    <3>2. IsFiniteSet(Of(a)) /\ \A e \in Of(a) : e.delta \in Int
      <4>1. Of(a) \subseteq journal /\ journal \subseteq Entries
        BY DEF Of, Summed, BookTypeOK
      <4> QED BY <1>0, <1>5, <4>1, FS_Subset DEF Entries
    <3>3. Total(Of(a)) \in Int /\ Total(Of(a) \cup {y}) = Total(Of(a)) + d
      BY <1>0, <1>2, <3>1, <3>2, TotalAdds
    <3>4. Opening[a] \in Int
      BY DEF Numbers
    <3> QED BY <1>0, <2>1, <2>2, <3>1, <3>3, <3>4
  <2>3. CASE a # b
    <3>1. Of(a)' = Of(a)
      BY <1>2, <1>3, <2>3 DEF Of
    <3> QED BY <2>1, <2>3, <3>1
  <2> QED BY <2>2, <2>3
<1> QED BY <1>4, <1>5, <1>6 DEF Summed

\* Every balance is its opening balance plus what was posted to it.
THEOREM BooksBalance ==
    ASSUME Numbers
    PROVE  BookSpec => [](BookTypeOK /\ BalanceIsJournalSum)
<1>1. BookInit => Summed
  BY InitSummed
<1>2. Summed /\ [BookNext]_bookVars => Summed'
  <2> SUFFICES ASSUME Summed, [BookNext]_bookVars PROVE Summed'
    OBVIOUS
  <2>1. CASE BookNext
    BY <2>1, PostKeepsSummed DEF BookNext
  <2>2. CASE UNCHANGED bookVars
    <3>1. balance' = balance /\ journal' = journal /\ \A a : Of(a)' = Of(a)
      BY <2>2 DEF bookVars, Of
    <3> QED BY <3>1 DEF Summed, BookTypeOK
  <2> QED BY <2>1, <2>2
<1> QED BY <1>1, <1>2, SummedIsEnough, PTL DEF BookSpec
=============================================================================
