--------------------------- MODULE History_proofs ---------------------------
(***************************************************************************)
(* Proofs about History, for any recorders, repositories, findings, clock   *)
(* and number of runs.  The first part is about the operators: what folding *)
(* runs into an index computes is the ledger of the runs, whatever order    *)
(* they are read in; the second is about the directory's recorders.         *)
(*                                                                         *)
(* Induction over sets of runs is by a set G of those for which a fact      *)
(* holds: a set whose proper subsets in G put it in G is in G.              *)
(***************************************************************************)
EXTENDS History, FiniteSetTheorems, WellFoundedInduction, TLAPS

LEMMA SubsetInduction ==
    ASSUME NEW S, IsFiniteSet(S), NEW G,
           \A T \in SUBSET S : (\A U \in SUBSET T : U # T => U \in G) => T \in G
    PROVE  S \in G
<1> SUFFICES ASSUME S \notin G PROVE FALSE
  OBVIOUS
<1> DEFINE bad == {T \in SUBSET S : T \notin G}
<1>1. IsWellFoundedOn(StrictSubsetOrdering(S), SUBSET S)
  <2>1. IsWellFoundedOn(StrictSubsetOrdering(S), FiniteSubsetsOf(S))
    BY FS_StrictSubsetOrderingWellFounded
  <2>2. FiniteSubsetsOf(S) = SUBSET S
    BY FS_FiniteSubsetsOfFinite
  <2> QED
    BY <2>1, <2>2, Zenon
<1>2. bad # {} /\ bad \subseteq SUBSET S
  OBVIOUS
<1> HIDE DEF bad
<1>3. PICK T \in bad : \A U \in bad : <<U, T>> \notin StrictSubsetOrdering(S)
  BY <1>1, <1>2, WFMin
<1>4. \A U \in SUBSET T : U # T => U \in G
  BY <1>2, <1>3 DEF StrictSubsetOrdering, bad
<1> QED
  BY <1>3, <1>4 DEF bad

-----------------------------------------------------------------------------
(***************************************************************************)
(* The order of runs.                                                       *)
(***************************************************************************)
\* Runs that ids tell apart.
Orderly(S) ==
    /\ S \subseteq Snapshot /\ IsFiniteSet(S)
    /\ \A s \in S, t \in S : Id(s) = Id(t) => s = t

Oldest(S) == CHOOSE s \in S : \A t \in S \ {s} : Before(s, t)

LEMMA SnapshotTime ==
    ASSUME NEW s \in Snapshot PROVE s.at \in Nat /\ s.hash \in Nat
<1>1. s.at \in Time /\ s.hash \in Hashes
  BY DEF Snapshot
<1>2. MaxTime \in Nat /\ Hashes \subseteq Nat
  BY HistoryAssumption
<1>3. s.at \in Nat
  BY <1>1, <1>2 DEF Time
<1>4. s.hash \in Nat
  BY <1>1, <1>2
<1> QED
  BY <1>3, <1>4

LEMMA BeforeIsAnOrder ==
    ASSUME NEW r \in Snapshot, NEW s \in Snapshot, NEW t \in Snapshot
    PROVE  /\ ~Before(r, r)
           /\ Before(r, s) => ~Before(s, r)
           /\ Before(r, s) /\ Before(s, t) => Before(r, t)
           /\ Id(r) # Id(s) => Before(r, s) \/ Before(s, r)
           /\ Before(r, s) => r.at <= s.at
<1>1. r.at \in Nat /\ r.hash \in Nat /\ s.at \in Nat /\ s.hash \in Nat /\ t.at \in Nat /\ t.hash \in Nat
  BY SnapshotTime
<1> QED
  BY <1>1 DEF Before, Id

LEMMA OrderlySubset ==
    ASSUME NEW S, Orderly(S), NEW R \in SUBSET S PROVE Orderly(R)
BY FS_Subset DEF Orderly

\* Orderly runs are before one another or after.
LEMMA OrderlyTotal ==
    ASSUME NEW S, Orderly(S), NEW s \in S, NEW t \in S, s # t
    PROVE  Before(s, t) \/ Before(t, s)
BY BeforeIsAnOrder DEF Orderly

LEMMA NewestIsNewest ==
    ASSUME NEW S, Orderly(S), S # {}
    PROVE  /\ Newest(S) \in S /\ IsNewest(Newest(S), S)
           /\ \A s \in S : IsNewest(s, S) => s = Newest(S)
<1> DEFINE G == {T \in SUBSET S : T = {} \/ \E s \in T : IsNewest(s, T)}
<1>1. ASSUME NEW T \in SUBSET S, \A U \in SUBSET T : U # T => U \in G PROVE T \in G
  <2> SUFFICES ASSUME T # {} PROVE \E s \in T : IsNewest(s, T)
    OBVIOUS
  <2>1. PICK x \in T : TRUE
    OBVIOUS
  <2>2. T \ {x} \in G
    BY <1>1, <2>1
  <2>3. CASE T \ {x} = {}
    BY <2>1, <2>3 DEF IsNewest
  <2>4. CASE T \ {x} # {}
    <3>1. PICK s \in T \ {x} : IsNewest(s, T \ {x})
      BY <2>2, <2>4
    <3>2. CASE Before(x, s)
      BY <3>1, <3>2 DEF IsNewest
    <3>3. CASE Before(s, x)
      <4>1. ASSUME NEW t \in T \ {x} PROVE Before(t, x)
        <5>1. t = s \/ Before(t, s)
          BY <3>1 DEF IsNewest
        <5>2. t \in Snapshot /\ s \in Snapshot /\ x \in Snapshot
          BY DEF Orderly
        <5> QED
          BY <3>3, <5>1, <5>2, BeforeIsAnOrder
      <4> QED
        BY <4>1 DEF IsNewest
    <3> QED
      BY <3>1, <3>2, <3>3, OrderlyTotal
  <2> QED
    BY <2>3, <2>4
<1>2. S \in G
  <2> HIDE DEF G
  <2> QED
    BY <1>1, SubsetInduction DEF Orderly
<1>3. \E s \in S : IsNewest(s, S)
  BY <1>2
<1>4. Newest(S) \in S /\ IsNewest(Newest(S), S)
  BY <1>3 DEF Newest
<1>5. ASSUME NEW s \in S, IsNewest(s, S), s # Newest(S) PROVE FALSE
  <2>1. Before(s, Newest(S)) /\ Before(Newest(S), s)
    BY <1>4, <1>5 DEF IsNewest
  <2> QED
    BY <1>4, <2>1, BeforeIsAnOrder DEF Orderly
<1> QED
  BY <1>4, <1>5

LEMMA OldestIsOldest ==
    ASSUME NEW S, Orderly(S), S # {}
    PROVE  /\ Oldest(S) \in S /\ \A t \in S \ {Oldest(S)} : Before(Oldest(S), t)
           /\ \A s \in S : (\A t \in S \ {s} : Before(s, t)) => s = Oldest(S)
<1> DEFINE G == {T \in SUBSET S : T = {} \/ \E s \in T : \A t \in T \ {s} : Before(s, t)}
<1>1. ASSUME NEW T \in SUBSET S, \A U \in SUBSET T : U # T => U \in G PROVE T \in G
  <2> SUFFICES ASSUME T # {} PROVE \E s \in T : \A t \in T \ {s} : Before(s, t)
    OBVIOUS
  <2>1. PICK x \in T : TRUE
    OBVIOUS
  <2>2. T \ {x} \in G
    BY <1>1, <2>1
  <2>3. CASE T \ {x} = {}
    BY <2>1, <2>3
  <2>4. CASE T \ {x} # {}
    <3>1. PICK s \in T \ {x} : \A t \in (T \ {x}) \ {s} : Before(s, t)
      BY <2>2, <2>4
    <3>2. CASE Before(s, x)
      BY <3>1, <3>2
    <3>3. CASE Before(x, s)
      <4>1. ASSUME NEW t \in T \ {x} PROVE Before(x, t)
        <5>1. t = s \/ Before(s, t)
          BY <3>1
        <5>2. t \in Snapshot /\ s \in Snapshot /\ x \in Snapshot
          BY DEF Orderly
        <5> QED
          BY <3>3, <5>1, <5>2, BeforeIsAnOrder
      <4> QED
        BY <4>1
    <3> QED
      BY <3>1, <3>2, <3>3, OrderlyTotal
  <2> QED
    BY <2>3, <2>4
<1>2. S \in G
  <2> HIDE DEF G
  <2> QED
    BY <1>1, SubsetInduction DEF Orderly
<1>3. \E s \in S : \A t \in S \ {s} : Before(s, t)
  BY <1>2
<1>4. Oldest(S) \in S /\ \A t \in S \ {Oldest(S)} : Before(Oldest(S), t)
  BY <1>3 DEF Oldest
<1>5. ASSUME NEW s \in S, \A t \in S \ {s} : Before(s, t), s # Oldest(S) PROVE FALSE
  <2>1. Before(s, Oldest(S)) /\ Before(Oldest(S), s)
    BY <1>4, <1>5
  <2> QED
    BY <1>4, <2>1, BeforeIsAnOrder DEF Orderly
<1> QED
  BY <1>4, <1>5

-----------------------------------------------------------------------------
(***************************************************************************)
(* FoldAll, unfolded: the newest run is folded last.                        *)
(***************************************************************************)
Step(f, T, ix) ==
    IF T = {} THEN ix
    ELSE Only({Only({Fold(before, last) : before \in {f[T \ {last}]}}) : last \in {Newest(T)}})
IsFold(f, S, ix) == f = [T \in SUBSET S |-> Step(f, T, ix)]
AFold(S, ix) == CHOOSE f : IsFold(f, S, ix)

LEMMA StepIs ==
    ASSUME NEW f, NEW T, NEW ix
    PROVE  Step(f, T, ix) = IF T = {} THEN ix ELSE Fold(f[T \ {Newest(T)}], Newest(T))
<1>1. \A x : Only({x}) = x
  BY DEF Only
<1>2. CASE T = {}
  BY <1>2 DEF Step
<1>3. CASE T # {}
  <2> DEFINE n == Newest(T)
             inner(l) == {Fold(before, l) : before \in {f[T \ {l}]}}
  <2>1. \A l : inner(l) = {Fold(f[T \ {l}], l)}
    OBVIOUS
  <2>2. \A l : Only(inner(l)) = Fold(f[T \ {l}], l)
    BY <1>1, <2>1
  <2>3. {Only(inner(l)) : l \in {n}} = {Only(inner(n))}
    OBVIOUS
  <2>4. Step(f, T, ix) = Only({Only(inner(l)) : l \in {n}})
    BY <1>3 DEF Step
  <2> QED
    BY <1>1, <1>3, <2>2, <2>3, <2>4
<1> QED
  BY <1>2, <1>3

LEMMA FoldAt ==
    ASSUME NEW S, NEW ix, NEW f, IsFold(f, S, ix), NEW T \in SUBSET S
    PROVE  f[T] = IF T = {} THEN ix ELSE Fold(f[T \ {Newest(T)}], Newest(T))
<1>1. f[T] = Step(f, T, ix)
  BY DEF IsFold
<1> QED
  BY <1>1, StepIs

LEMMA FoldAllIs == ASSUME NEW S, NEW ix PROVE FoldAll(S, ix) = AFold(S, ix)[S]
BY DEF FoldAll, AFold, IsFold, Step

\* Two folds agree where both are defined.
LEMMA FoldsAgree ==
    ASSUME NEW S, NEW R, NEW ix, NEW f, NEW g, IsFold(f, S, ix), IsFold(g, R, ix),
           NEW T, Orderly(T), T \in SUBSET S, T \in SUBSET R
    PROVE  f[T] = g[T]
<1> DEFINE G == {U \in SUBSET T : f[U] = g[U]}
<1>1. ASSUME NEW U \in SUBSET T, \A V \in SUBSET U : V # U => V \in G PROVE U \in G
  <2>1. U \in SUBSET S /\ U \in SUBSET R
    OBVIOUS
  <2>2. f[U] = (IF U = {} THEN ix ELSE Fold(f[U \ {Newest(U)}], Newest(U)))
    BY <2>1, FoldAt
  <2>3. g[U] = (IF U = {} THEN ix ELSE Fold(g[U \ {Newest(U)}], Newest(U)))
    BY <2>1, FoldAt
  <2>4. U # {} => Newest(U) \in U
    BY OrderlySubset, NewestIsNewest
  <2>5. U # {} => U \ {Newest(U)} \in G
    BY <1>1, <2>4
  <2>6. U # {} => f[U \ {Newest(U)}] = g[U \ {Newest(U)}]
    BY <2>5
  <2> QED
    BY <2>2, <2>3, <2>6
<1>2. T \in G
  <2> HIDE DEF G
  <2> QED
    BY <1>1, SubsetInduction DEF Orderly
<1> QED
  BY <1>2

LEMMA FoldExists ==
    ASSUME NEW S, NEW ix, Orderly(S) PROVE IsFold(AFold(S, ix), S, ix)
<1> DEFINE G == {T \in SUBSET S : \E f : IsFold(f, T, ix)}
<1>1. ASSUME NEW T \in SUBSET S, \A U \in SUBSET T : U # T => U \in G PROVE T \in G
  <2> DEFINE val(U) == AFold(U, ix)[U]
             f == [U \in SUBSET T |->
                     IF U = {} THEN ix
                     ELSE IF U = T THEN Fold(val(U \ {Newest(U)}), Newest(U)) ELSE val(U)]
  <2>1. \A U \in SUBSET T : U # T => IsFold(AFold(U, ix), U, ix)
    <3> SUFFICES ASSUME NEW U \in SUBSET T, U # T PROVE IsFold(AFold(U, ix), U, ix)
      OBVIOUS
    <3>1. \E g : IsFold(g, U, ix)
      BY <1>1
    <3> QED
      BY <3>1 DEF AFold
  <2>2. ASSUME NEW U \in SUBSET T, U # {}
        PROVE  /\ Newest(U) \in U /\ U \ {Newest(U)} \in SUBSET T /\ U \ {Newest(U)} # T
               /\ Orderly(U \ {Newest(U)})
    <3>1. Orderly(U)
      BY OrderlySubset
    <3>2. Newest(U) \in U
      BY <2>2, <3>1, NewestIsNewest
    <3> QED
      BY <3>1, <3>2, OrderlySubset
  <2>3. ASSUME NEW U \in SUBSET T, U # T, U # {}
        PROVE  val(U) = Fold(val(U \ {Newest(U)}), Newest(U))
    <3> DEFINE W == U \ {Newest(U)}
    <3>1. AFold(U, ix)[U] = Fold(AFold(U, ix)[W], Newest(U))
      BY <2>1, <2>3, FoldAt
    <3>2. AFold(U, ix)[W] = AFold(W, ix)[W]
      <4>1. IsFold(AFold(U, ix), U, ix) /\ IsFold(AFold(W, ix), W, ix)
        BY <2>1, <2>2, <2>3
      <4>2. Orderly(W) /\ W \in SUBSET U /\ W \in SUBSET W
        BY <2>2, <2>3
      <4> HIDE DEF W
      <4> QED
        BY <4>1, <4>2, FoldsAgree
    <3> QED
      BY <3>1, <3>2
  <2>4. val({}) = ix \/ T = {}
    <3> SUFFICES ASSUME T # {} PROVE AFold({}, ix)[{}] = ix
      OBVIOUS
    <3>1. IsFold(AFold({}, ix), {}, ix)
      BY <2>1
    <3> QED
      BY <3>1, FoldAt
  <2>5. ASSUME NEW U \in SUBSET T
        PROVE  f[U] = IF U = {} THEN ix ELSE Fold(f[U \ {Newest(U)}], Newest(U))
    <3>1. CASE U = {}
      BY <3>1
    <3>2. CASE U # {}
      <4> DEFINE W == U \ {Newest(U)}
      <4>1. f[W] = val(W)
        BY <2>2, <2>4, <3>2
      <4>2. f[U] = Fold(val(W), Newest(U))
        BY <2>3, <3>2
      <4> HIDE DEF f
      <4> QED
        BY <3>2, <4>1, <4>2
    <3> QED
      BY <3>1, <3>2
  <2>6. IsFold(f, T, ix)
    <3>1. \A U \in SUBSET T : f[U] = Step(f, U, ix)
      <4> HIDE DEF f
      <4> QED
        BY <2>5, StepIs
    <3>2. f = [U \in SUBSET T |-> f[U]]
      OBVIOUS
    <3> HIDE DEF f
    <3> QED
      BY <3>1, <3>2 DEF IsFold
  <2> HIDE DEF f
  <2> QED
    BY <2>6
<1>2. S \in G
  <2> HIDE DEF G
  <2> QED
    BY <1>1, SubsetInduction DEF Orderly
<1> QED
  BY <1>2 DEF AFold

LEMMA FoldAllUnfolds ==
    ASSUME NEW S, NEW ix, Orderly(S)
    PROVE  FoldAll(S, ix) = IF S = {} THEN ix
                            ELSE Fold(FoldAll(S \ {Newest(S)}, ix), Newest(S))
<1> DEFINE W == S \ {Newest(S)}
<1>1. AFold(S, ix)[S] = IF S = {} THEN ix ELSE Fold(AFold(S, ix)[W], Newest(S))
  BY FoldExists, FoldAt
<1>2. AFold(S, ix)[W] = AFold(W, ix)[W]
  <2>1. Orderly(W) /\ W \in SUBSET S /\ W \in SUBSET W
    BY OrderlySubset
  <2>2. IsFold(AFold(S, ix), S, ix) /\ IsFold(AFold(W, ix), W, ix)
    BY <2>1, FoldExists
  <2> HIDE DEF W
  <2> QED
    BY <2>1, <2>2, FoldsAgree
<1> QED
  BY <1>1, <1>2, FoldAllIs

-----------------------------------------------------------------------------
(***************************************************************************)
(* What the ledger says of a finding k, in the words of History.            *)
(***************************************************************************)
Sightings(R, k) == {r \in R : k \in Touched(r)}
Clean(R, k) == {r \in R : r.exit # 2 /\ k.repo \in r.read /\ k \notin Touched(r)}
Prior(R, k, r) == {s \in Sightings(R, k) : Before(s, r)}
Returns(R, k) ==
    {r \in Sightings(R, k) :
        /\ Prior(R, k, r) # {}
        /\ \E c \in Clean(R, k) : Before(Newest(Prior(R, k, r)), c) /\ Before(c, r)}
Gone(R, k) == {c \in Clean(R, k) : Before(Newest(Sightings(R, k)), c)}
Entry(R, k) ==
    [status |-> IF Gone(R, k) # {} THEN "fixed"
                ELSE IF k \in Newest(Sightings(R, k)).ignored THEN "ignored" ELSE "open",
     first |-> Oldest(Sightings(R, k)).at,
     fixed |-> IF Gone(R, k) # {} THEN Oldest(Gone(R, k)).at ELSE 0,
     reopened |-> Cardinality(Returns(R, k))]
Told(R) == UNION {Touched(r) : r \in R}

LEMMA LedgerWords ==
    /\ \A r, s : Ledger!Earlier(r, s) <=> Before(r, s)
    /\ \A S : Ledger!Last(S) = Newest(S)
    /\ \A S : Ledger!First(S) = Oldest(S)
    /\ \A R, k : Ledger!Sightings(R, k) = Sightings(R, k)
    /\ \A R, k : Ledger!Clean(R, k) = Clean(R, k)
<1>1. \A r, s : Ledger!Earlier(r, s) <=> Before(r, s)
  BY DEF Ledger!Earlier, Before
<1>2. \A S : Ledger!Last(S) = Newest(S)
  BY DEF Ledger!Last, Ledger!Earlier, Newest, IsNewest, Before
<1>3. \A S : Ledger!First(S) = Oldest(S)
  BY DEF Ledger!First, Ledger!Earlier, Oldest, Before
<1>4. \A R, k : Ledger!Sightings(R, k) = Sightings(R, k)
  BY DEF Ledger!Sightings, Ledger!Sights, Sightings, Touched
<1>5. \A R, k : Ledger!Clean(R, k) = Clean(R, k)
  BY DEF Ledger!Clean, Ledger!Vouches, Ledger!Sights, Clean, Touched
<1> QED
  BY <1>1, <1>2, <1>3, <1>4, <1>5

LEMMA LedgerIs == ASSUME NEW R PROVE Ledger!LedgerOf(R) = [k \in Told(R) |-> Entry(R, k)]
<1>1. ASSUME NEW k PROVE Ledger!Comebacks(R, k) = Returns(R, k)
  <2>1. \A r : {s \in Ledger!Sightings(R, k) : Ledger!Earlier(s, r)} = Prior(R, k, r)
    BY LedgerWords DEF Prior
  <2> QED
    BY <2>1, LedgerWords DEF Ledger!Comebacks, Returns
<1>2. ASSUME NEW k PROVE {c \in Ledger!Clean(R, k) : Ledger!Earlier(Newest(Sightings(R, k)), c)} = Gone(R, k)
  BY LedgerWords DEF Gone
<1>3. ASSUME NEW k PROVE Ledger!Told(R, k) = Entry(R, k)
  <2> DEFINE last == Ledger!Last(Ledger!Sightings(R, k))
             gone == {c \in Ledger!Clean(R, k) : Ledger!Earlier(last, c)}
  <2>1. last = Newest(Sightings(R, k)) /\ Ledger!Sightings(R, k) = Sightings(R, k)
    BY LedgerWords
  <2>2. gone = Gone(R, k)
    BY <1>2, <2>1
  <2>3. \A S : Ledger!First(S) = Oldest(S)
    BY LedgerWords
  <2>4. Ledger!Told(R, k) =
          [status |-> IF gone # {} THEN "fixed"
                      ELSE IF k \in last.ignored THEN "ignored" ELSE "open",
           first |-> Ledger!First(Ledger!Sightings(R, k)).at,
           fixed |-> IF gone # {} THEN Ledger!First(gone).at ELSE 0,
           reopened |-> Cardinality(Ledger!Comebacks(R, k))]
    BY DEF Ledger!Told, Ledger!Cardinality, Cardinality
  <2> HIDE DEF last, gone
  <2>5. Ledger!Told(R, k) =
          [status |-> IF Gone(R, k) # {} THEN "fixed"
                      ELSE IF k \in Newest(Sightings(R, k)).ignored THEN "ignored" ELSE "open",
           first |-> Oldest(Sightings(R, k)).at,
           fixed |-> IF Gone(R, k) # {} THEN Oldest(Gone(R, k)).at ELSE 0,
           reopened |-> Cardinality(Returns(R, k))]
    BY <1>1, <2>1, <2>2, <2>3, <2>4
  <2> QED
    BY <2>5 DEF Entry
<1>4. UNION {r.seen \cup r.ignored : r \in R} = Told(R)
  BY DEF Told, Touched
<1> QED
  BY <1>3, <1>4 DEF Ledger!LedgerOf

LEMMA NewestOfMore ==
    ASSUME NEW S, Orderly(S), NEW n \in S, NEW Q \in SUBSET S, n \notin Q,
           \A q \in Q : Before(q, n)
    PROVE  /\ Newest(Q \cup {n}) = n
           /\ Oldest(Q \cup {n}) = IF Q = {} THEN n ELSE Oldest(Q)
<1>1. Orderly(Q \cup {n}) /\ Orderly(Q)
  BY OrderlySubset
<1>2. IsNewest(n, Q \cup {n})
  BY DEF IsNewest
<1>3. Newest(Q \cup {n}) = n
  BY <1>1, <1>2, NewestIsNewest
<1>4. CASE Q = {}
  <2>1. \A t \in (Q \cup {n}) \ {n} : Before(n, t)
    BY <1>4
  <2> QED
    BY <1>1, <1>3, <1>4, <2>1, OldestIsOldest
<1>5. CASE Q # {}
  <2>1. Oldest(Q) \in Q /\ \A t \in Q \ {Oldest(Q)} : Before(Oldest(Q), t)
    BY <1>1, <1>5, OldestIsOldest
  <2>2. \A t \in (Q \cup {n}) \ {Oldest(Q)} : Before(Oldest(Q), t)
    BY <2>1
  <2> QED
    BY <1>1, <1>3, <1>5, <2>1, <2>2, OldestIsOldest
<1> QED
  BY <1>4, <1>5

\* The newest run of T, added to the others.
LEMMA AddedLast ==
    ASSUME NEW T, Orderly(T), T # {}
    PROVE  LET n == Newest(T)
               R == T \ {n}
           IN  /\ n \in T /\ Orderly(R) /\ \A r \in R : Before(r, n) /\ ~Before(n, r)
               /\ ~Before(n, n)
BY NewestIsNewest, OrderlySubset, BeforeIsAnOrder DEF IsNewest, Orderly

LEMMA SubsetsOrderly ==
    ASSUME NEW R, Orderly(R), NEW k
    PROVE  /\ Sightings(R, k) \subseteq R /\ Orderly(Sightings(R, k))
           /\ Clean(R, k) \subseteq R /\ Orderly(Clean(R, k))
           /\ Gone(R, k) \subseteq R /\ Orderly(Gone(R, k))
           /\ Returns(R, k) \subseteq R /\ IsFiniteSet(Returns(R, k))
<1>1. Sightings(R, k) \subseteq R /\ Clean(R, k) \subseteq R /\ Gone(R, k) \subseteq R
  BY DEF Sightings, Clean, Gone
<1>2. Returns(R, k) \subseteq R
  BY DEF Returns, Sightings
<1> QED
  BY <1>1, <1>2, OrderlySubset DEF Orderly

LEMMA ReturnsBefore ==
    ASSUME NEW T, Orderly(T), T # {}, NEW k, NEW n, n = Newest(T), NEW R, R = T \ {n},
           NEW r \in R
    PROVE  r \in Returns(T, k) <=> r \in Returns(R, k)
<1>1. n \in T /\ ~Before(n, r) /\ (\A q \in R : Before(q, n) /\ ~Before(n, q)) /\ ~Before(n, n)
  BY AddedLast
<1>2. Prior(T, k, r) = Prior(R, k, r)
  BY <1>1 DEF Prior, Sightings
<1>3. r \in Sightings(T, k) <=> r \in Sightings(R, k)
  BY DEF Sightings
<1>4. \A c : c \in Clean(T, k) /\ Before(c, r) <=> c \in Clean(R, k) /\ Before(c, r)
  BY <1>1 DEF Clean
<1> QED
  BY <1>2, <1>3, <1>4 DEF Returns

\* A finding the newest run has: what was fixed came back, and what was not known is new.
LEMMA SightedLast ==
    ASSUME NEW T, Orderly(T), T # {}, NEW k, NEW n, n = Newest(T), NEW R, R = T \ {n},
           k \in Touched(n)
    PROVE  Entry(T, k) =
             [status |-> IF k \in n.ignored THEN "ignored" ELSE "open",
              first |-> IF k \in Told(R) THEN Entry(R, k).first ELSE n.at,
              fixed |-> 0,
              reopened |-> IF k \in Told(R) /\ Entry(R, k).status = "fixed"
                           THEN Entry(R, k).reopened + 1
                           ELSE IF k \in Told(R) THEN Entry(R, k).reopened ELSE 0]
<1>1. /\ n \in T /\ Orderly(R) /\ ~Before(n, n)
      /\ \A q \in R : Before(q, n) /\ ~Before(n, q)
  BY AddedLast
<1>2. k \in Told(R) <=> Sightings(R, k) # {}
  BY DEF Told, Sightings
<1>3. Sightings(T, k) = Sightings(R, k) \cup {n} /\ n \notin Sightings(R, k)
  BY <1>1 DEF Sightings
<1>4. Sightings(R, k) \subseteq R
  BY DEF Sightings
<1>5. /\ Newest(Sightings(T, k)) = n
      /\ Oldest(Sightings(T, k)) = IF Sightings(R, k) = {} THEN n ELSE Oldest(Sightings(R, k))
  <2> DEFINE Q == Sightings(R, k)
  <2>1. Q \in SUBSET T /\ n \notin Q /\ \A q \in Q : Before(q, n)
    BY <1>1, <1>3, <1>4
  <2> HIDE DEF Q
  <2>2. /\ Newest(Q \cup {n}) = n
        /\ Oldest(Q \cup {n}) = IF Q = {} THEN n ELSE Oldest(Q)
    BY <1>1, <2>1, NewestOfMore
  <2> QED
    BY <1>3, <2>2 DEF Q
<1>6. Clean(T, k) = Clean(R, k) /\ Clean(R, k) \subseteq R
  BY <1>1 DEF Clean
<1>7. Gone(T, k) = {}
  BY <1>1, <1>5, <1>6 DEF Gone
<1>8. Prior(T, k, n) = Sightings(R, k)
  BY <1>1, <1>3, <1>4 DEF Prior
<1>9. n \in Returns(T, k) <=> k \in Told(R) /\ Gone(R, k) # {}
  <2>1. n \in Returns(T, k) <=>
          Sightings(R, k) # {} /\ \E c \in Clean(R, k) : Before(Newest(Sightings(R, k)), c)
    BY <1>1, <1>3, <1>6, <1>8 DEF Returns
  <2> QED
    BY <1>2, <2>1 DEF Gone
<1>10. Returns(T, k) = Returns(R, k) \cup (IF n \in Returns(T, k) THEN {n} ELSE {})
  <2>1. \A r \in R : r \in Returns(T, k) <=> r \in Returns(R, k)
    BY ReturnsBefore
  <2>2. Returns(T, k) \subseteq R \cup {n} /\ Returns(R, k) \subseteq R
    BY DEF Returns, Sightings
  <2> QED
    BY <2>1, <2>2
<1>11. /\ IsFiniteSet(Returns(R, k)) /\ n \notin Returns(R, k)
       /\ k \notin Told(R) => Returns(R, k) = {}
  <2>1. IsFiniteSet(Returns(R, k)) /\ n \notin Returns(R, k)
    BY <1>1, SubsetsOrderly
  <2>2. Returns(R, k) \subseteq Sightings(R, k)
    BY DEF Returns
  <2> QED
    BY <1>2, <2>1, <2>2
<1>12. /\ Cardinality(Returns(R, k)) \in Nat
       /\ Cardinality(Returns(T, k)) = IF k \in Told(R) /\ Gone(R, k) # {}
                                       THEN Cardinality(Returns(R, k)) + 1
                                       ELSE Cardinality(Returns(R, k))
       /\ k \notin Told(R) => Cardinality(Returns(R, k)) = 0
  <2>1. Cardinality(Returns(R, k)) \in Nat
    BY <1>11, FS_CardinalityType
  <2>2. CASE n \in Returns(T, k)
    <3>1. Returns(T, k) = Returns(R, k) \cup {n}
      BY <1>10, <2>2
    <3>2. Cardinality(Returns(R, k) \cup {n}) = Cardinality(Returns(R, k)) + 1
      BY <1>11, FS_AddElement
    <3> QED
      BY <1>9, <1>11, <2>1, <2>2, <3>1, <3>2, FS_EmptySet
  <2>3. CASE n \notin Returns(T, k)
    <3>1. Returns(T, k) = Returns(R, k)
      BY <1>10, <2>3
    <3> QED
      BY <1>9, <1>11, <2>1, <2>3, <3>1, FS_EmptySet
  <2> QED
    BY <2>2, <2>3
<1>13. /\ Entry(R, k).first = Oldest(Sightings(R, k)).at
       /\ Entry(R, k).status = "fixed" <=> Gone(R, k) # {}
       /\ Entry(R, k).reopened = Cardinality(Returns(R, k))
  BY DEF Entry
<1>14. Entry(T, k) = [status |-> IF k \in n.ignored THEN "ignored" ELSE "open",
                      first |-> Oldest(Sightings(T, k)).at, fixed |-> 0,
                      reopened |-> Cardinality(Returns(T, k))]
  BY <1>5, <1>7 DEF Entry
<1>15. Oldest(Sightings(T, k)).at = IF k \in Told(R) THEN Entry(R, k).first ELSE n.at
  BY <1>2, <1>5, <1>13
<1>16. Cardinality(Returns(T, k)) =
         IF k \in Told(R) /\ Entry(R, k).status = "fixed" THEN Entry(R, k).reopened + 1
         ELSE IF k \in Told(R) THEN Entry(R, k).reopened ELSE 0
  BY <1>12, <1>13
<1> QED
  BY <1>14, <1>15, <1>16

\* An entry marked fixed is changed in two fields.
LEMMA MarkedFixed ==
    ASSUME NEW entry, NEW time
    PROVE  [entry EXCEPT !.status = "fixed", !.fixed = time]
             = [[entry EXCEPT !.status = "fixed"] EXCEPT !.fixed = time]
OBVIOUS

\* A finding the newest run does not have: fixed by it, if it was not and the run vouches.
LEMMA MissingLast ==
    ASSUME NEW T, Orderly(T), T # {}, NEW k, NEW n, n = Newest(T), NEW R, R = T \ {n},
           k \notin Touched(n), k \in Told(R)
    PROVE  Entry(T, k) = IF Entry(R, k).status # "fixed" /\ k.repo \in Trustworthy(n)
                         THEN [Entry(R, k) EXCEPT !.status = "fixed", !.fixed = n.at]
                         ELSE Entry(R, k)
<1>1. /\ n \in T /\ Orderly(R) /\ ~Before(n, n)
      /\ \A q \in R : Before(q, n) /\ ~Before(n, q)
  BY AddedLast
<1>2. Sightings(T, k) = Sightings(R, k) /\ Sightings(R, k) \subseteq R
  BY DEF Sightings
<1>3. Sightings(R, k) # {} /\ Newest(Sightings(R, k)) \in R
  <2>1. Sightings(R, k) # {}
    BY DEF Told, Sightings
  <2> QED
    BY <1>1, <1>2, <2>1, SubsetsOrderly, NewestIsNewest
<1> DEFINE vouches == k.repo \in Trustworthy(n)
<1>4. Clean(T, k) = Clean(R, k) \cup (IF vouches THEN {n} ELSE {})
  BY <1>1 DEF Clean, Trustworthy
<1>5. Gone(T, k) = Gone(R, k) \cup (IF vouches THEN {n} ELSE {})
  BY <1>1, <1>2, <1>3, <1>4 DEF Gone
<1>6. Returns(T, k) = Returns(R, k)
  <2>1. \A r \in R : r \in Returns(T, k) <=> r \in Returns(R, k)
    BY ReturnsBefore
  <2>2. Returns(T, k) \subseteq R /\ Returns(R, k) \subseteq R
    BY <1>2 DEF Returns
  <2> QED
    BY <2>1, <2>2
<1>7. Gone(R, k) \subseteq R /\ Gone(R, k) \subseteq T /\ n \notin Gone(R, k)
  BY DEF Gone, Clean
<1>8. Oldest(Gone(R, k) \cup {n}) = IF Gone(R, k) = {} THEN n ELSE Oldest(Gone(R, k))
  <2> DEFINE Q == Gone(R, k)
  <2>1. Q \in SUBSET T /\ n \notin Q /\ \A q \in Q : Before(q, n)
    BY <1>1, <1>7
  <2> HIDE DEF Q
  <2>2. Oldest(Q \cup {n}) = IF Q = {} THEN n ELSE Oldest(Q)
    BY <1>1, <2>1, NewestOfMore
  <2> QED
    BY <2>2 DEF Q
<1>9. Entry(R, k).status = "fixed" <=> Gone(R, k) # {}
  BY DEF Entry
<1>10. CASE Gone(R, k) # {}
  <2>1. Gone(T, k) # {} /\ Oldest(Gone(T, k)) = Oldest(Gone(R, k))
    BY <1>5, <1>8, <1>10
  <2>2. Entry(T, k) = Entry(R, k)
    BY <1>2, <1>6, <1>10, <2>1 DEF Entry
  <2> QED
    BY <1>9, <1>10, <2>2
<1>11. CASE Gone(R, k) = {} /\ ~vouches
  <2>1. Gone(T, k) = Gone(R, k)
    BY <1>5, <1>11
  <2>2. Entry(T, k) = Entry(R, k)
    BY <1>2, <1>6, <2>1 DEF Entry
  <2> QED
    BY <1>11, <2>2
<1>12. CASE Gone(R, k) = {} /\ vouches
  <2>1. Gone(T, k) # {} /\ Oldest(Gone(T, k)) = n
    BY <1>5, <1>8, <1>12
  <2>2. Entry(T, k) = [status |-> "fixed", first |-> Oldest(Sightings(R, k)).at,
                       fixed |-> n.at, reopened |-> Cardinality(Returns(R, k))]
    BY <1>2, <1>6, <2>1 DEF Entry
  <2>3. [Entry(R, k) EXCEPT !.status = "fixed", !.fixed = n.at] =
          [status |-> "fixed", first |-> Oldest(Sightings(R, k)).at,
           fixed |-> n.at, reopened |-> Cardinality(Returns(R, k))]
    <3> DEFINE a == Entry(R, k).status
               b == Oldest(Sightings(R, k)).at
               c == Entry(R, k).fixed
               d == Cardinality(Returns(R, k))
               e == n.at
               old == [status |-> a, first |-> b, fixed |-> c, reopened |-> d]
               marked == [status |-> "fixed", first |-> b, fixed |-> c, reopened |-> d]
    <3>1. Entry(R, k) = old
      BY DEF Entry
    <3> HIDE DEF a, b, c, d, e
    <3>2. [old EXCEPT !.status = "fixed"] = marked
      OBVIOUS
    <3>3. [marked EXCEPT !.fixed = e] =
            [status |-> "fixed", first |-> b, fixed |-> e, reopened |-> d]
      OBVIOUS
    <3>4. [old EXCEPT !.status = "fixed", !.fixed = e]
            = [[old EXCEPT !.status = "fixed"] EXCEPT !.fixed = e]
      BY MarkedFixed
    <3> HIDE DEF old, marked
    <3>5. [old EXCEPT !.status = "fixed", !.fixed = e] =
            [status |-> "fixed", first |-> b, fixed |-> e, reopened |-> d]
      BY <3>2, <3>3, <3>4
    <3> QED
      BY <3>1, <3>5, Zenon DEF b, d, e
  <2> QED
    BY <1>9, <1>12, <2>2, <2>3
<1> QED
  BY <1>10, <1>11, <1>12

\* Folding runs, the newest last, makes the ledger of the runs.
Index(S) == [runs |-> {Id(s) : s \in S}, entries |-> [k \in Told(S) |-> Entry(S, k)]]

THEOREM FoldMakesLedger == ASSUME NEW S, Orderly(S) PROVE FoldAll(S, Empty) = Index(S)
<1> DEFINE G == {T \in SUBSET S : FoldAll(T, Empty) = Index(T)}
<1>1. ASSUME NEW T \in SUBSET S, \A U \in SUBSET T : U # T => U \in G PROVE T \in G
  <2>0. Orderly(T)
    BY OrderlySubset
  <2>1. CASE T = {}
    <3>1. FoldAll(T, Empty) = Empty
      BY <2>0, <2>1, FoldAllUnfolds
    <3>2. Told({}) = {} /\ {Id(s) : s \in {}} = {}
      BY DEF Told
    <3>3. [k \in {} |-> Entry({}, k)] = <<>>
      OBVIOUS
    <3>4. Index(T) = Empty
      BY <2>1, <3>2, <3>3 DEF Index, Empty
    <3> QED
      BY <3>1, <3>4
  <2>2. CASE T # {}
    <3> DEFINE n == Newest(T)
               R == T \ {n}
               ix == Index(R)
    <3>1. n \in T /\ R \in SUBSET T /\ R # T
      BY <2>0, <2>2, AddedLast
    <3>2. FoldAll(R, Empty) = ix
      BY <1>1, <3>1
    <3>3. FoldAll(T, Empty) = Fold(ix, n)
      BY <2>0, <2>2, <3>2, FoldAllUnfolds
    <3>4. /\ ix.runs = {Id(s) : s \in R} /\ DOMAIN ix.entries = Told(R)
          /\ \A k \in Told(R) : ix.entries[k] = Entry(R, k)
      BY DEF Index
    <3>5. ix.runs \cup {Id(n)} = {Id(s) : s \in T}
      BY <3>1, <3>4
    <3>6. Told(R) \cup Touched(n) = Told(T)
      BY <3>1 DEF Told
    <3>7. ASSUME NEW k \in Told(T) PROVE FoldEntry(ix, n, k) = Entry(T, k)
      <4> HIDE DEF ix, n, R
      <4>1. CASE k \in Touched(n)
        <5>1. k \in Told(R) => ix.entries[k] = Entry(R, k)
          BY <3>4
        <5>2. Entry(T, k) =
                [status |-> IF k \in n.ignored THEN "ignored" ELSE "open",
                 first |-> IF k \in Told(R) THEN Entry(R, k).first ELSE n.at,
                 fixed |-> 0,
                 reopened |-> IF k \in Told(R) /\ Entry(R, k).status = "fixed"
                              THEN Entry(R, k).reopened + 1
                              ELSE IF k \in Told(R) THEN Entry(R, k).reopened ELSE 0]
          BY <2>0, <2>2, <4>1, SightedLast DEF n, R
        <5> QED
          BY <3>4, <4>1, <5>1, <5>2 DEF FoldEntry
      <4>2. CASE k \notin Touched(n)
        <5>1. k \in Told(R) /\ ix.entries[k] = Entry(R, k)
          BY <3>4, <3>6, <4>2
        <5>2. Entry(T, k) = IF Entry(R, k).status # "fixed" /\ k.repo \in Trustworthy(n)
                            THEN [Entry(R, k) EXCEPT !.status = "fixed", !.fixed = n.at]
                            ELSE Entry(R, k)
          BY <2>0, <2>2, <4>2, <5>1, MissingLast DEF n, R
        <5> QED
          BY <4>2, <5>1, <5>2 DEF FoldEntry
      <4> QED
        BY <4>1, <4>2
    <3>8. [k \in DOMAIN ix.entries \cup Touched(n) |-> FoldEntry(ix, n, k)]
            = [k \in Told(T) |-> Entry(T, k)]
      <4> HIDE DEF ix, n, R
      <4> QED
        BY <3>4, <3>6, <3>7
    <3>9. Fold(ix, n) = Index(T)
      <4> HIDE DEF ix, n, R
      <4> QED
        BY <3>5, <3>8 DEF Fold, Index
    <3> QED
      BY <3>3, <3>9
  <2> QED
    BY <2>1, <2>2
<1>2. S \in G
  <2> HIDE DEF G
  <2> QED
    BY <1>1, SubsetInduction DEF Orderly
<1> QED
  BY <1>2

LEMMA IndexIsLedger == ASSUME NEW S PROVE Index(S).entries = Ledger!LedgerOf(S)
BY LedgerIs DEF Index

-----------------------------------------------------------------------------
(***************************************************************************)
(* What load makes of snapshots and an index: the ledger of the runs in     *)
(* either, when the index covers none but snapshots that are read, or those *)
(* it does not cover come after all it covers.                              *)
(***************************************************************************)
LEMMA EmptyIsIndex == Empty = Index({})
<1>1. Orderly({})
  BY FS_EmptySet DEF Orderly
<1> QED
  BY <1>1, FoldAllUnfolds, FoldMakesLedger

\* Folding what comes after into what is folded is folding all.
LEMMA FoldOnTop ==
    ASSUME NEW S, Orderly(S), NEW R \in SUBSET S, NEW ix,
           \A n \in S \ R, r \in R : Before(r, n)
    PROVE  FoldAll(S \ R, FoldAll(R, ix)) = FoldAll(S, ix)
<1> DEFINE U == S \ R
           G == {V \in SUBSET U : FoldAll(V, FoldAll(R, ix)) = FoldAll(R \cup V, ix)}
<1>1. ASSUME NEW V \in SUBSET U, \A W \in SUBSET V : W # V => W \in G PROVE V \in G
  <2>0. Orderly(V) /\ Orderly(R \cup V)
    BY OrderlySubset
  <2>1. CASE V = {}
    <3>1. FoldAll(V, FoldAll(R, ix)) = FoldAll(R, ix)
      BY <2>0, <2>1, FoldAllUnfolds
    <3>2. R \cup V = R
      BY <2>1
    <3> QED
      BY <3>1, <3>2
  <2>2. CASE V # {}
    <3> DEFINE n == Newest(V)
               W == V \ {n}
    <3>1. n \in V /\ \A v \in W : Before(v, n)
      BY <2>0, <2>2, NewestIsNewest DEF IsNewest
    <3>2. IsNewest(n, R \cup V)
      BY <3>1 DEF IsNewest
    <3>3. Newest(R \cup V) = n
      BY <2>0, <3>1, <3>2, NewestIsNewest
    <3>4. (R \cup V) \ {n} = R \cup W
      BY <3>1
    <3>5. FoldAll(V, FoldAll(R, ix)) = Fold(FoldAll(W, FoldAll(R, ix)), n)
      BY <2>0, <2>2, FoldAllUnfolds
    <3>6. FoldAll(R \cup V, ix) = Fold(FoldAll(R \cup W, ix), n)
      BY <2>0, <2>2, <3>3, <3>4, FoldAllUnfolds
    <3>7. W \in G
      BY <1>1, <3>1
    <3> QED
      BY <3>5, <3>6, <3>7
  <2> QED
    BY <2>1, <2>2
<1>2. U \in G
  <2>1. Orderly(U)
    BY OrderlySubset
  <2> HIDE DEF G, U
  <2> QED
    BY <1>1, <2>1, SubsetInduction DEF Orderly
<1>3. R \cup U = S
  OBVIOUS
<1> QED
  BY <1>2, <1>3

\* How an entry goes on with the newest run.
LEMMA EntryGoesOn ==
    ASSUME NEW T, Orderly(T), T # {}, NEW k, k \in Told(T), NEW n, n = Newest(T),
           NEW R, R = T \ {n}
    PROVE  /\ k \in Touched(n) =>
                /\ Entry(T, k).status # "fixed"
                /\ Entry(T, k).reopened = IF k \in Told(R)
                                          THEN IF Entry(R, k).status = "fixed"
                                               THEN Entry(R, k).reopened + 1
                                               ELSE Entry(R, k).reopened
                                          ELSE 0
           /\ k \notin Touched(n) =>
                /\ k \in Told(R)
                /\ Entry(T, k).status = "fixed" <=> \/ Entry(R, k).status = "fixed"
                                                    \/ k.repo \in Trustworthy(n)
                /\ Entry(T, k).reopened = Entry(R, k).reopened
<1>1. CASE k \in Touched(n)
  BY <1>1, SightedLast
<1>2. CASE k \notin Touched(n)
  <2>1. k \in Told(R)
    BY <1>2, AddedLast DEF Told
  <2> DEFINE old == Entry(R, k)
  <2>2. Entry(T, k) = IF old.status # "fixed" /\ k.repo \in Trustworthy(n)
                      THEN [old EXCEPT !.status = "fixed", !.fixed = n.at] ELSE old
    BY <1>2, <2>1, MissingLast
  <2>3. "status" \in DOMAIN old /\ "reopened" \in DOMAIN old
    BY DEF Entry
  <2> HIDE DEF old
  <2>4. /\ [old EXCEPT !.status = "fixed", !.fixed = n.at].status = "fixed"
        /\ [old EXCEPT !.status = "fixed", !.fixed = n.at].reopened = old.reopened
    BY <2>3
  <2> QED
    BY <1>2, <2>1, <2>2, <2>4 DEF old
<1> QED
  BY <1>1, <1>2

LEMMA ReopenedType ==
    ASSUME NEW T, Orderly(T), NEW k PROVE Entry(T, k).reopened \in Nat
<1>1. Cardinality(Returns(T, k)) \in Nat
  BY SubsetsOrderly, FS_CardinalityType
<1> QED
  BY <1>1 DEF Entry

\* More runs show a finding come back at least as often.
LEMMA ReopenedGrows ==
    ASSUME NEW S, Orderly(S), NEW R \in SUBSET S, NEW k, k \in Told(R)
    PROVE  Entry(R, k).reopened <= Entry(S, k).reopened
<1> DEFINE G == {T \in SUBSET S : \A Q \in SUBSET T : k \in Told(Q) =>
                   /\ Entry(Q, k).reopened <= Entry(T, k).reopened
                   /\ /\ Entry(Q, k).reopened = Entry(T, k).reopened
                      /\ Entry(Q, k).status = "fixed"
                      => Entry(T, k).status = "fixed"}
<1>1. ASSUME NEW T \in SUBSET S, \A U \in SUBSET T : U # T => U \in G PROVE T \in G
  <2> SUFFICES ASSUME NEW Q \in SUBSET T, k \in Told(Q)
               PROVE  /\ Entry(Q, k).reopened <= Entry(T, k).reopened
                      /\ /\ Entry(Q, k).reopened = Entry(T, k).reopened
                         /\ Entry(Q, k).status = "fixed"
                         => Entry(T, k).status = "fixed"
    OBVIOUS
  <2> DEFINE n == Newest(T)
             W == T \ {n}
             P == Q \ {n}
  <2>1. Orderly(T) /\ Orderly(Q) /\ T # {} /\ k \in Told(T)
    BY OrderlySubset DEF Told
  <2>2. n \in T /\ W # T /\ W \in SUBSET T /\ Orderly(W) /\ Orderly(P)
    BY <2>1, AddedLast, OrderlySubset
  <2>3. W \in G /\ P \in SUBSET W
    BY <1>1, <2>2
  <2>4. k \in Told(P) =>
          /\ Entry(P, k).reopened <= Entry(W, k).reopened
          /\ /\ Entry(P, k).reopened = Entry(W, k).reopened
             /\ Entry(P, k).status = "fixed"
             => Entry(W, k).status = "fixed"
    BY <2>3
  <2>5. k \in Told(P) => k \in Told(W)
    BY <2>3 DEF Told
  <2>6. /\ Entry(T, k).reopened \in Nat /\ Entry(Q, k).reopened \in Nat
        /\ Entry(P, k).reopened \in Nat /\ Entry(W, k).reopened \in Nat
    BY <2>1, <2>2, ReopenedType
  <2>7. /\ k \in Touched(n) =>
             /\ Entry(T, k).status # "fixed"
             /\ Entry(T, k).reopened = IF k \in Told(W)
                                       THEN IF Entry(W, k).status = "fixed"
                                            THEN Entry(W, k).reopened + 1
                                            ELSE Entry(W, k).reopened
                                       ELSE 0
        /\ k \notin Touched(n) =>
             /\ k \in Told(W)
             /\ Entry(T, k).status = "fixed" <=> \/ Entry(W, k).status = "fixed"
                                                 \/ k.repo \in Trustworthy(n)
             /\ Entry(T, k).reopened = Entry(W, k).reopened
    <3> HIDE DEF n, W
    <3> QED
      BY <2>1, EntryGoesOn DEF n, W
  <2>8. CASE n \in Q
    <3>1. Newest(Q) = n
      <4>1. IsNewest(n, Q)
        BY <2>1, NewestIsNewest DEF IsNewest
      <4> QED
        BY <2>1, <2>8, <4>1, NewestIsNewest
    <3>2. /\ k \in Touched(n) =>
               /\ Entry(Q, k).status # "fixed"
               /\ Entry(Q, k).reopened = IF k \in Told(P)
                                         THEN IF Entry(P, k).status = "fixed"
                                              THEN Entry(P, k).reopened + 1
                                              ELSE Entry(P, k).reopened
                                         ELSE 0
          /\ k \notin Touched(n) =>
               /\ k \in Told(P)
               /\ Entry(Q, k).status = "fixed" <=> \/ Entry(P, k).status = "fixed"
                                                   \/ k.repo \in Trustworthy(n)
               /\ Entry(Q, k).reopened = Entry(P, k).reopened
      <4>1. Q # {}
        BY <2>8
      <4> HIDE DEF n, P
      <4> QED
        BY <2>1, <3>1, <4>1, EntryGoesOn DEF P
    <3> HIDE DEF n, W, P
    <3>3. CASE k \in Touched(n)
      BY <2>4, <2>5, <2>6, <2>7, <3>2, <3>3
    <3>4. CASE k \notin Touched(n)
      BY <2>4, <2>5, <2>6, <2>7, <3>2, <3>4
    <3> QED
      BY <3>3, <3>4
  <2>9. CASE n \notin Q
    <3>1. P = Q
      BY <2>9
    <3> HIDE DEF n, W, P
    <3> QED
      BY <2>4, <2>5, <2>6, <2>7, <3>1
  <2> QED
    BY <2>8, <2>9
<1>2. S \in G
  <2> HIDE DEF G
  <2> QED
    BY <1>1, SubsetInduction DEF Orderly
<1> QED
  BY <1>2

\* More runs show a finding no later.
LEMMA FirstGrows ==
    ASSUME NEW S, Orderly(S), NEW R \in SUBSET S, NEW k, k \in Told(R)
    PROVE  /\ Entry(S, k).first <= Entry(R, k).first
           /\ Entry(S, k).first \in Nat /\ Entry(R, k).first \in Nat
<1> DEFINE A == Sightings(S, k)
           B == Sightings(R, k)
<1>1. B # {} /\ B \subseteq A /\ A \subseteq Snapshot /\ Orderly(A) /\ Orderly(B)
  <2>1. B # {} /\ B \subseteq A
    BY DEF Told, Sightings
  <2>2. Orderly(A) /\ Orderly(B)
    BY OrderlySubset, SubsetsOrderly
  <2> QED
    BY <2>1, <2>2 DEF Orderly
<1> HIDE DEF A, B
<1>2. Oldest(A) \in A /\ Oldest(B) \in B
  BY <1>1, OldestIsOldest
<1>3. Oldest(A) = Oldest(B) \/ Before(Oldest(A), Oldest(B))
  BY <1>1, <1>2, OldestIsOldest
<1>4. Oldest(A) \in Snapshot /\ Oldest(B) \in Snapshot
  BY <1>1, <1>2
<1>5. Oldest(A).at \in Nat /\ Oldest(B).at \in Nat
  BY <1>4, SnapshotTime
<1>6. Oldest(A).at <= Oldest(B).at
  BY <1>3, <1>4, <1>5, BeforeIsAnOrder
<1>7. Entry(S, k).first = Oldest(A).at /\ Entry(R, k).first = Oldest(B).at
  BY DEF Entry, A, B
<1> QED
  BY <1>5, <1>6, <1>7

Joined(e, x, y) == [e EXCEPT !.first = Least(@, x), !.reopened = Greatest(@, y)]
LEMMA SameFields ==
    ASSUME NEW a, NEW b, NEW c, NEW d, NEW e,
           e = [status |-> a, first |-> b, fixed |-> c, reopened |-> d],
           NEW x, NEW y, Least(b, x) = b, Greatest(d, y) = d
    PROVE  Joined(e, x, y) = e
<1>1. [e EXCEPT !.first = Least(@, x)] = e
  OBVIOUS
<1>2. [e EXCEPT !.reopened = Greatest(@, y)] = e
  OBVIOUS
<1>3. [e EXCEPT !.first = Least(@, x), !.reopened = Greatest(@, y)]
        = [[e EXCEPT !.first = Least(@, x)] EXCEPT !.reopened = Greatest(@, y)]
  OBVIOUS
<1> QED
  BY <1>1, <1>2, <1>3 DEF Joined

\* What an index knew of runs that are all read again adds nothing.
LEMMA RejoinedIs ==
    ASSUME NEW S, Orderly(S), NEW R \in SUBSET S
    PROVE  Rejoined(Index(S), Index(R)) = Index(S)
<1> DEFINE new == Index(S)
           old == Index(R)
           both == DOMAIN new.entries \cap DOMAIN old.entries
<1>1. /\ new.runs = {Id(s) : s \in S} /\ old.runs = {Id(s) : s \in R}
      /\ new.entries = [k \in Told(S) |-> Entry(S, k)] /\ DOMAIN old.entries = Told(R)
      /\ \A k \in Told(R) : old.entries[k] = Entry(R, k)
  BY DEF Index
<1>2. Told(R) \subseteq Told(S)
  BY DEF Told
<1>3. ASSUME NEW k \in Told(S), k \in both
      PROVE  [new.entries[k] EXCEPT !.first = Least(@, old.entries[k].first),
                                   !.reopened = Greatest(@, old.entries[k].reopened)]
               = Entry(S, k)
  <2> DEFINE e == Entry(S, k)
             o == Entry(R, k)
             a == e.status
             b == Oldest(Sightings(S, k)).at
             c == e.fixed
             d == Cardinality(Returns(S, k))
  <2>1. k \in Told(R)
    BY <1>1, <1>3
  <2>2. Least(e.first, o.first) = e.first
    <3>1. e.first <= o.first /\ e.first \in Nat /\ o.first \in Nat
      BY <2>1, FirstGrows
    <3> HIDE DEF e, o
    <3> QED
      BY <3>1 DEF Least
  <2>3. Greatest(e.reopened, o.reopened) = e.reopened
    <3>1. o.reopened <= e.reopened /\ e.reopened \in Nat /\ o.reopened \in Nat
      BY <2>1, ReopenedGrows, ReopenedType, OrderlySubset
    <3> HIDE DEF e, o
    <3> QED
      BY <3>1 DEF Greatest
  <2>4. e = [status |-> a, first |-> b, fixed |-> c, reopened |-> d]
    BY DEF Entry
  <2>5. e.first = b /\ e.reopened = d
    BY DEF Entry
  <2>6. new.entries[k] = e /\ old.entries[k] = o
    BY <1>1, <2>1
  <2> HIDE DEF e, o, a, b, c, d, new, old
  <2>7. Least(b, o.first) = b /\ Greatest(d, o.reopened) = d
    BY <2>2, <2>3, <2>5
  <2>8. [e EXCEPT !.first = Least(@, o.first), !.reopened = Greatest(@, o.reopened)] = e
    <3>1. Joined(e, o.first, o.reopened) = e
      BY <2>4, <2>7, SameFields
    <3> QED
      BY <3>1, Zenon DEF Joined
  <2> QED
    BY <2>6, <2>8 DEF e
<1>4. [k \in DOMAIN new.entries \cup DOMAIN old.entries |->
         IF k \in both
         THEN [new.entries[k] EXCEPT !.first = Least(@, old.entries[k].first),
                                     !.reopened = Greatest(@, old.entries[k].reopened)]
         ELSE IF k \in DOMAIN new.entries THEN new.entries[k] ELSE old.entries[k]]
       = [k \in Told(S) |-> Entry(S, k)]
  <2>1. DOMAIN new.entries = Told(S) /\ DOMAIN new.entries \cup DOMAIN old.entries = Told(S)
    BY <1>1, <1>2
  <2>2. \A k \in Told(S) : new.entries[k] = Entry(S, k)
    BY <1>1
  <2> HIDE DEF new, old, both
  <2> QED
    BY <1>3, <2>1, <2>2
<1>5. new.runs \cup old.runs = new.runs
  BY <1>1
<1> HIDE DEF new, old
<1>6. Rejoined(new, old) = [runs |-> new.runs, entries |-> [k \in Told(S) |-> Entry(S, k)]]
  BY <1>4, <1>5 DEF Rejoined
<1> QED
  BY <1>1, <1>6 DEF Index, new, old

LEMMA RebuildIs ==
    ASSUME NEW S, Orderly(S), NEW R \in SUBSET S
    PROVE  Rebuild(S, Index(R)) = Index(S)
<1>1. \A x : Only({x}) = x
  BY DEF Only
<1>2. {Rejoined(new, Index(R)) : new \in {FoldAll(S, Empty)}} = {Rejoined(FoldAll(S, Empty), Index(R))}
  OBVIOUS
<1>3. Rebuild(S, Index(R)) = Rejoined(FoldAll(S, Empty), Index(R))
  BY <1>1, <1>2 DEF Rebuild
<1> QED
  BY <1>3, FoldMakesLedger, RejoinedIs

\* The runs S that are read suit an index of the runs R.
Suits(S, R) == R \subseteq S \/ \A n \in S \ R, r \in R : Before(r, n)

LEMMA LoadIs ==
    ASSUME NEW L, Orderly(L), NEW S \in SUBSET L, NEW R \in SUBSET L, Suits(S, R)
    PROVE  Load(S, Index(R)) = Index(S \cup R)
<1> DEFINE ix == Index(R)
           known == {s \in S : Id(s) \in ix.runs}
<1>0. Orderly(S) /\ Orderly(R) /\ Orderly(S \cup R)
  BY OrderlySubset
<1>1. ix.runs = {Id(s) : s \in R}
  BY DEF Index
<1>2. known = S \cap R
  BY <1>1 DEF Orderly
<1>3. ix \notin {Unreadable, Blank}
  <2>1. \A s \in R : Id(s) # <<-1, -1>> /\ Id(s) # <<-1, 0>>
    <3>1. \A s \in R : s.at \in Nat
      BY <1>0, SnapshotTime DEF Orderly
    <3> QED
      BY <3>1 DEF Id
  <2>2. <<-1, -1>> \notin ix.runs /\ <<-1, 0>> \notin ix.runs
    BY <1>1, <2>1
  <2>3. <<-1, -1>> \in Unreadable.runs /\ <<-1, 0>> \in Blank.runs
    BY DEF Unreadable, Blank
  <2> HIDE DEF ix
  <2> QED
    BY <2>2, <2>3
<1>4. S \ known = S \ R
  BY <1>2
<1>5. CASE \A n \in S \ known, r \in known : Before(r, n)
  <2>1. Load(S, ix) = FoldAll(S \ known, ix)
    BY <1>3, <1>5 DEF Load
  <2>2. \A n \in S \ R, r \in R : Before(r, n)
    BY <1>2, <1>4, <1>5 DEF Suits
  <2>3. (S \cup R) \ R = S \ R /\ R \in SUBSET (S \cup R)
    OBVIOUS
  <2>4. FoldAll(S \ R, FoldAll(R, Empty)) = FoldAll(S \cup R, Empty)
    <3> DEFINE T == S \cup R
    <3>1. Orderly(T) /\ R \in SUBSET T /\ T \ R = S \ R
      BY <1>0, <2>3
    <3> HIDE DEF T
    <3>2. FoldAll(T \ R, FoldAll(R, Empty)) = FoldAll(T, Empty)
      BY <2>2, <3>1, FoldOnTop
    <3> QED
      BY <3>1, <3>2 DEF T
  <2> QED
    BY <1>0, <1>4, <2>1, <2>4, FoldMakesLedger
<1>6. CASE ~\A n \in S \ known, r \in known : Before(r, n)
  <2>1. R \subseteq S
    BY <1>2, <1>4, <1>6 DEF Suits
  <2>2. Load(S, ix) = Rebuild(S, ix)
    BY <1>3, <1>6 DEF Load
  <2>3. S \cup R = S
    BY <2>1
  <2> QED
    BY <1>0, <2>1, <2>2, <2>3, RebuildIs
<1> QED
  BY <1>5, <1>6

LEMMA LoadWithoutIndex ==
    ASSUME NEW S, Orderly(S), NEW ix \in {Unreadable, Blank}
    PROVE  Load(S, ix) = Index(S)
<1>1. Load(S, ix) = Rebuild(S, Empty)
  BY DEF Load
<1> QED
  BY <1>1, EmptyIsIndex, RebuildIs

-----------------------------------------------------------------------------
(***************************************************************************)
(* The directory.  What follows holds of directories that keep every        *)
(* snapshot, whoever writes, shares or damages them, and of those with      *)
(* retention that one machine's runs, one at a time, are recorded in.       *)
(***************************************************************************)
Alone(d) ==
    /\ ~d.shared
    /\ \A p \in d.recorders, q \in d.recorders : p = q
    /\ \A g \in d.hashes, h \in d.hashes : g = h
KeptOrAlone == \A d \in Settings : d.keep = 0 \/ Alone(d)
Tidy == dir.keep = 0 \/ Alone(dir)

Indices(L) == {Unreadable, Blank} \cup {Index(R) : R \in SUBSET L}
Phases == {"idle", "list", "load", "open", "fill", "rename", "prune"}
Names == Files \cup {NoFile}
Procs(L) == [pc : Phases, at : Time, list : SUBSET L, file : Names, mine : Indices(L)]

\* What every state has: runs that ids tell apart and the past holds, snapshots of them, and
\* indices of some of them or files that hold no index.
TypeOK ==
    /\ dir \in Settings /\ now \in Time
    /\ Orderly(Recorded) /\ \A s \in Recorded : s.at <= now /\ s.hash \in dir.hashes
    /\ disk \subseteq Recorded
    /\ index \in Names /\ tmp \in Names /\ (tmp # NoFile => tmp # index)
    /\ file \in [Files -> Indices(Recorded)]
    /\ proc \in [Recorders -> Procs(Recorded)]

\* Without retention: nothing is lost, and what recorders have read and written at
\* different times is more or less of the same runs.
Covers(ix) == IF ix \in {Unreadable, Blank} THEN {} ELSE ix.runs
Ids(S) == {Id(s) : s \in S}
Sources == {Ids(proc[p].list) : p \in Recorders} \cup {Covers(proc[p].mine) : p \in Recorders}
             \cup {Covers(file[f]) : f \in Files}
Chain(X) == \A A \in X, B \in X : A \subseteq B \/ B \subseteq A
AllKept == disk = Recorded /\ Chain(Sources)

\* With retention: the index is of the runs up to some time, and the later ones are there.
Reaches(ix, L, D) ==
    \E R \in SUBSET L : /\ ix = Index(R) /\ L \ R \subseteq D
                        /\ \A r \in L, c \in R : Before(r, c) => r \in R
InPhase(x) ==
    /\ x.pc \in {"load", "open", "fill", "rename", "prune"} => x.list = disk
    /\ x.pc \in {"open", "fill"} => x.mine = Index(Recorded)
    /\ x.pc = "fill" => x.file = tmp /\ tmp # NoFile /\ file[tmp] = Blank
    /\ x.pc = "rename" => tmp # NoFile /\ file[tmp] = Index(Recorded)
    /\ x.pc = "prune" => Contents(index) = Index(Recorded)
TailKept ==
    /\ Recorded # {} => Newest(Recorded) \in disk
    /\ Reaches(Contents(index), Recorded, disk)
    /\ \A p \in dir.recorders : InPhase(proc[p])
Course == TypeOK /\ IF dir.keep = 0 THEN AllKept ELSE TailKept

-----------------------------------------------------------------------------
\* Numbers of a finite set have a least and a greatest.
LEMMA LeastOfMany ==
    ASSUME NEW S \in SUBSET Nat, S # {}, IsFiniteSet(S) PROVE Min(S) \in S
<1> DEFINE G == {T \in SUBSET S : T # {} => \E x \in T : \A y \in T : x <= y}
<1>1. ASSUME NEW T \in SUBSET S, \A U \in SUBSET T : U # T => U \in G
      PROVE  T \in G
  <2>1. SUFFICES ASSUME T # {} PROVE \E x \in T : \A y \in T : x <= y
    OBVIOUS
  <2>2. PICK x \in T : TRUE
    BY <2>1
  <2>3. T \ {x} \in G
    BY <1>1
  <2>4. CASE T \ {x} = {}
    BY <2>4
  <2>5. CASE T \ {x} # {}
    <3>1. PICK z \in T \ {x} : \A y \in T \ {x} : z <= y
      BY <2>3, <2>5
    <3>2. x \in Nat /\ z \in Nat /\ T \subseteq Nat
      OBVIOUS
    <3>3. CASE x <= z
      <4>1. \A y \in T : x <= y
        BY <3>1, <3>2, <3>3
      <4> QED
        BY <4>1
    <3>4. CASE z <= x
      BY <3>1, <3>2, <3>4
    <3> QED
      BY <3>2, <3>3, <3>4
  <2> QED
    BY <2>4, <2>5
<1> HIDE DEF G
<1>2. S \in G
  BY <1>1, SubsetInduction
<1> QED
  BY <1>2 DEF G, Min

LEMMA GreatestOfMany ==
    ASSUME NEW S \in SUBSET Nat, S # {}, IsFiniteSet(S) PROVE Max(S) \in S
<1> DEFINE G == {T \in SUBSET S : T # {} => \E x \in T : \A y \in T : x >= y}
<1>1. ASSUME NEW T \in SUBSET S, \A U \in SUBSET T : U # T => U \in G
      PROVE  T \in G
  <2>1. SUFFICES ASSUME T # {} PROVE \E x \in T : \A y \in T : x >= y
    OBVIOUS
  <2>2. PICK x \in T : TRUE
    BY <2>1
  <2>3. T \ {x} \in G
    BY <1>1
  <2>4. CASE T \ {x} = {}
    BY <2>4
  <2>5. CASE T \ {x} # {}
    <3>1. PICK z \in T \ {x} : \A y \in T \ {x} : z >= y
      BY <2>3, <2>5
    <3>2. x \in Nat /\ z \in Nat /\ T \subseteq Nat
      OBVIOUS
    <3>3. CASE x >= z
      <4>1. \A y \in T : x >= y
        BY <3>1, <3>2, <3>3
      <4> QED
        BY <4>1
    <3>4. CASE z >= x
      BY <3>1, <3>2, <3>4
    <3> QED
      BY <3>2, <3>3, <3>4
  <2> QED
    BY <2>4, <2>5
<1> HIDE DEF G
<1>2. S \in G
  BY <1>1, SubsetInduction
<1> QED
  BY <1>2 DEF G, Max

\* There is a file nothing names.
LEMMA OneIsUnused ==
    ASSUME index \in Names, proc \in [Recorders -> Procs(Recorded)], tmp = NoFile
    PROVE  Min(Unused) \in Unused
<1> DEFINE held == {proc[p].file : p \in Recorders}
           used == held \cup {index}
           count == Cardinality(Recorders)
<1>1. IsFiniteSet(Recorders)
  BY HistoryAssumption
<1>2. count \in Nat
  BY <1>1, FS_CardinalityType
<1>3. IsFiniteSet(held) /\ Cardinality(held) <= count
  <2> DEFINE f == [p \in Recorders |-> proc[p].file]
  <2>1. f \in Surjection(Recorders, held)
    BY DEF Surjection
  <2> HIDE DEF f, held
  <2> QED
    BY <1>1, <2>1, FS_Surjection
<1>4. Cardinality(held) \in Nat
  BY <1>3, FS_CardinalityType
<1>5. IsFiniteSet(used) /\ Cardinality(used) <= count + 1
  <2> HIDE DEF held, count
  <2>1. Cardinality(held \cup {index}) = IF index \in held THEN Cardinality(held)
                                         ELSE Cardinality(held) + 1
    BY <1>3, FS_AddElement
  <2>2. IsFiniteSet(held \cup {index})
    BY <1>3, FS_AddElement
  <2> QED
    BY <1>2, <1>3, <1>4, <2>1, <2>2
<1>6. IsFiniteSet(Files) /\ Cardinality(Files) = count + 2
  BY <1>2, FS_Interval DEF Files
<1>7. ~(Files \subseteq used)
  <2>1. Cardinality(used) \in Nat
    BY <1>5, FS_CardinalityType
  <2> HIDE DEF used, count
  <2> SUFFICES ASSUME Files \subseteq used PROVE FALSE
    OBVIOUS
  <2>2. Cardinality(Files) <= Cardinality(used)
    BY <1>5, FS_Subset
  <2> QED
    BY <1>2, <1>5, <1>6, <2>1, <2>2
<1>8. Unused # {}
  <2>1. PICK f \in Files : f \notin used
    BY <1>7
  <2>2. f # tmp
    BY <1>2, <2>1 DEF Files, NoFile
  <2> QED
    BY <2>1, <2>2 DEF Unused
<1>9. Unused \subseteq Nat /\ IsFiniteSet(Unused)
  BY <1>2, <1>6, FS_Subset DEF Unused, Files
<1> QED
  BY <1>8, <1>9, LeastOfMany


-----------------------------------------------------------------------------
(***************************************************************************)
(* Runs and the indices of them.                                            *)
(***************************************************************************)
LEMMA EcoOfSomeKey ==
    ASSUME NEW adv, NEW seen \in SUBSET Real
    PROVE  EcoOf(adv, seen) \in {0} \cup {j.eco : j \in seen}
<1> DEFINE with == {j \in seen : j.adv = adv}
           ecos == {k.eco : k \in with}
           f == [k \in with |-> k.eco]
<1>1. IsFiniteSet(with)
  BY HistoryAssumption, FS_Subset
<1>2. ecos \in SUBSET Nat
  BY HistoryAssumption
<1>3. IsFiniteSet(ecos)
  <2>1. f \in Surjection(with, ecos)
    BY DEF Surjection
  <2> HIDE DEF f, with, ecos
  <2> QED
    BY <1>1, <2>1, FS_Surjection
<1>4. ecos # {} => Max(ecos) \in ecos
  <2> HIDE DEF ecos
  <2> QED
    BY <1>2, <1>3, GreatestOfMany
<1> QED
  BY <1>4 DEF EcoOf

Free(at) == {g \in dir.hashes : Fresh(at, g)}
RunOf(at, h, x, F, H) ==
    [at |-> at, hash |-> h, exit |-> x[1], read |-> x[2], seen |-> F \ H,
     ignored |-> SuppressedKeys(F \cap H, F \ H), found |-> F]

LEMMA RunIsOneOf ==
    ASSUME NEW at, NEW r \in Runs(at)
    PROVE  \E h \in Free(at), x \in Reads, F \in SUBSET Real, H \in SUBSET Real :
               r = RunOf(at, h, x, F, H)
<1>1. Runs(at) = {RunOf(at, h, x, F, H) : h \in Free(at), x \in Reads, F \in SUBSET Real,
                                          H \in SUBSET Real}
  BY SMT DEF Runs, Free, RunOf
<1> QED
  BY <1>1

\* A run is a snapshot that its id tells from the earlier ones, of what it found when all
\* of it is Cargo's.
LEMMA RunIsSnapshot ==
    ASSUME NEW at \in Time, dir \in Settings, NEW r \in Runs(at)
    PROVE  /\ Saved(r) \in Snapshot /\ Saved(r).at = at
           /\ Saved(r).hash \in dir.hashes /\ \A s \in log : Id(Saved(s)) # Id(Saved(r))
           /\ (\A k \in Real : k.eco = 0) => r.found \subseteq Touched(Saved(r))
           /\ Saved(r).seen \subseteq Real
<1>0. PICK h \in Free(at), x \in Reads, F \in SUBSET Real, H \in SUBSET Real :
        r = RunOf(at, h, x, F, H)
  BY RunIsOneOf
<1>1. /\ h \in dir.hashes /\ Fresh(at, h)
      /\ r = [at |-> at, hash |-> h, exit |-> x[1], read |-> x[2], seen |-> F \ H,
              ignored |-> SuppressedKeys(F \cap H, F \ H), found |-> F]
  BY <1>0 DEF Free, RunOf
<1> DEFINE hid == F \cap H
           saw == F \ H
<1>2. Saved(r) = [at |-> at, hash |-> h, exit |-> x[1], read |-> x[2], seen |-> saw,
                  ignored |-> SuppressedKeys(hid, saw)]
  BY <1>1 DEF Saved
<1>3. dir.hashes \subseteq Hashes
  BY HistoryAssumption
<1>4. x[1] \in {0, 2} /\ x[2] \in SUBSET Repos
  BY DEF Reads
<1>5. SuppressedKeys(hid, saw) \subseteq Keys
  <2>1. ASSUME NEW k \in hid PROVE [k EXCEPT !.eco = EcoOf(k.adv, saw)] \in Keys
    <3>1. saw \in SUBSET Real /\ Real \subseteq Keys /\ k \in Keys
      BY HistoryAssumption
    <3>2. EcoOf(k.adv, saw) \in {0} \cup {j.eco : j \in saw}
      BY EcoOfSomeKey, <3>1
    <3> DEFINE eco == EcoOf(k.adv, saw)
    <3> HIDE DEF eco
    <3>3. eco \in {0} \cup {j.eco : j \in Keys}
      BY <3>1, <3>2 DEF eco
    <3>4. \A e \in {0} \cup {j.eco : j \in Keys} : [k EXCEPT !.eco = e] \in Keys
      BY <3>1, HistoryAssumption
    <3>5. [k EXCEPT !.eco = eco] \in Keys
      BY <3>3, <3>4
    <3> QED
      BY <3>5 DEF eco
  <2> QED
    BY <2>1 DEF SuppressedKeys
<1>6. Saved(r) \in Snapshot
  <2>1. saw \subseteq Keys /\ h \in Hashes
    BY <1>1, <1>3, HistoryAssumption
  <2> DEFINE ign == SuppressedKeys(hid, saw)
  <2> HIDE DEF ign, saw
  <2>2. ign \subseteq Keys
    BY <1>5 DEF ign
  <2>3. Saved(r) = [at |-> at, hash |-> h, exit |-> x[1], read |-> x[2], seen |-> saw,
                    ignored |-> ign]
    BY <1>2 DEF ign, saw
  <2>4. at \in Time /\ x[1] \in {0, 2} /\ x[2] \in SUBSET Repos /\ saw \in SUBSET Keys
        /\ ign \in SUBSET Keys /\ h \in Hashes
    BY <1>4, <2>1, <2>2
  <2> QED
    BY <2>3, <2>4 DEF Snapshot
<1>7. ASSUME NEW s \in log PROVE Id(Saved(s)) # Id(Saved(r))
  BY <1>1, <1>2 DEF Fresh, Id, Saved
<1>8. ASSUME \A k \in Real : k.eco = 0 PROVE r.found \subseteq Touched(Saved(r))
  <2>1. ASSUME NEW k \in hid PROVE [k EXCEPT !.eco = EcoOf(k.adv, saw)] = k
    <3>1. EcoOf(k.adv, saw) = 0
      BY <1>8, EcoOfSomeKey
    <3>2. k = [adv |-> k.adv, eco |-> k.eco, repo |-> k.repo] /\ k.eco = 0
      BY <1>8, HistoryAssumption
    <3> QED
      BY <3>1, <3>2
  <2>2. SuppressedKeys(hid, saw) = hid
    BY <2>1 DEF SuppressedKeys
  <2> QED
    BY <1>1, <1>2, <2>2 DEF Touched
<1>9. Saved(r).at = at /\ Saved(r).hash \in dir.hashes /\ Saved(r).seen \subseteq Real
  BY <1>1, <1>2
<1> QED
  BY <1>6, <1>7, <1>8, <1>9

LEMMA IndexCovers ==
    ASSUME NEW L, Orderly(L), NEW R \in SUBSET L
    PROVE  Index(R) \notin {Unreadable, Blank} /\ Covers(Index(R)) = Ids(R)
<1>1. \A s \in R : Id(s)[1] \in Nat
  BY SnapshotTime DEF Orderly, Id
<1>2. Index(R).runs = Ids(R)
  BY DEF Index, Ids
<1>3. Unreadable.runs = {<<-1, -1>>} /\ Blank.runs = {<<-1, 0>>}
  BY DEF Unreadable, Blank
<1>4. Ids(R) # {<<-1, -1>>} /\ Ids(R) # {<<-1, 0>>}
  <2>1. \A i \in Ids(R) : i[1] \in Nat
    BY <1>1 DEF Ids
  <2>2. <<-1, -1>>[1] \notin Nat /\ <<-1, 0>>[1] \notin Nat
    OBVIOUS
  <2>3. <<-1, -1>> \notin Ids(R) /\ <<-1, 0>> \notin Ids(R)
    BY <2>1, <2>2
  <2> QED
    BY <2>3
<1> QED
  BY <1>2, <1>3, <1>4 DEF Covers

LEMMA IdsTell ==
    ASSUME NEW L, Orderly(L), NEW S \in SUBSET L, NEW R \in SUBSET L, Ids(S) \subseteq Ids(R)
    PROVE  S \subseteq R
BY DEF Orderly, Ids

LEMMA CoversRecorded ==
    ASSUME NEW L, Orderly(L), NEW ix \in Indices(L) PROVE Covers(ix) \subseteq Ids(L)
<1>1. CASE ix \in {Unreadable, Blank}
  BY <1>1 DEF Covers
<1>2. CASE \E R \in SUBSET L : ix = Index(R)
  BY <1>2, IndexCovers DEF Ids
<1> QED
  BY <1>1, <1>2 DEF Indices

LEMMA IndicesGrow ==
    ASSUME NEW L, NEW M, L \subseteq M PROVE Indices(L) \subseteq Indices(M)
BY DEF Indices

LEMMA EmptyCoversNothing ==
    ASSUME NEW L, Orderly(L)
    PROVE  Empty \in Indices(L) /\ Covers(Empty) = {} /\ Covers(Blank) = {}
<1>1. Empty = Index({}) /\ {} \in SUBSET L
  BY EmptyIsIndex
<1>2. Covers(Index({})) = Ids({})
  BY <1>1, IndexCovers
<1> QED
  BY <1>1, <1>2 DEF Indices, Ids, Covers

LEMMA LoadOfChain ==
    ASSUME NEW L, Orderly(L), NEW S \in SUBSET L, NEW ix \in Indices(L),
           Ids(S) \subseteq Covers(ix) \/ Covers(ix) \subseteq Ids(S)
    PROVE  /\ Load(S, ix) \in Indices(L)
           /\ Covers(Load(S, ix)) \in {Ids(S), Covers(ix)}
           /\ S = L => Load(S, ix) = Index(L)
<1>1. CASE ix \in {Unreadable, Blank}
  <2>1. Load(S, ix) = Index(S)
    BY <1>1, OrderlySubset, LoadWithoutIndex
  <2> QED
    BY <2>1, IndexCovers DEF Indices
<1>2. CASE \E R \in SUBSET L : ix = Index(R)
  <2>1. PICK R \in SUBSET L : ix = Index(R)
    BY <1>2
  <2>2. Covers(ix) = Ids(R)
    BY <2>1, IndexCovers
  <2>3. S \subseteq R \/ R \subseteq S
    BY <2>2, IdsTell
  <2>4. Load(S, ix) = Index(S \cup R)
    BY <2>1, <2>3, LoadIs DEF Suits
  <2>5. S \cup R = S \/ S \cup R = R
    BY <2>3
  <2>6. S \cup R \in SUBSET L /\ (S = L => S \cup R = L)
    OBVIOUS
  <2>7. Covers(Index(S)) = Ids(S)
    BY IndexCovers
  <2> QED
    BY <2>1, <2>2, <2>4, <2>5, <2>6, <2>7 DEF Indices
<1> QED
  BY <1>1, <1>2 DEF Indices

LEMMA LoadOfTail ==
    ASSUME NEW L, Orderly(L), NEW D \in SUBSET L, NEW ix, Reaches(ix, L, D)
    PROVE  Load(D, ix) = Index(L) /\ ix \in Indices(L)
<1>1. PICK R \in SUBSET L : /\ ix = Index(R) /\ L \ R \subseteq D
                            /\ \A r \in L, c \in R : Before(r, c) => r \in R
  BY DEF Reaches
<1>2. \A n \in D \ R, r \in R : Before(r, n)
  BY <1>1, OrderlyTotal
<1>3. Load(D, ix) = Index(D \cup R)
  BY <1>1, <1>2, LoadIs DEF Suits
<1>4. D \cup R = L
  BY <1>1
<1> QED
  BY <1>1, <1>3, <1>4 DEF Indices

\* What a reader of the directory is told is the ledger.
LEMMA ReaderIsTold ==
    ASSUME Course PROVE Load(disk, Contents(index)) = Index(Recorded)
<1> DEFINE ix == Contents(index)
<1>1. Orderly(Recorded) /\ disk \in SUBSET Recorded
  BY DEF Course, TypeOK
<1>2. ix \in Indices(Recorded)
  <2>1. index \in Names /\ file \in [Files -> Indices(Recorded)]
    BY DEF Course, TypeOK
  <2> QED
    BY <1>1, <2>1, EmptyCoversNothing DEF Contents, Names
<1> HIDE DEF ix
<1>3. CASE dir.keep = 0
  <2>1. disk = Recorded
    BY <1>3 DEF Course, AllKept
  <2>2. Covers(ix) \subseteq Ids(disk)
    BY <1>1, <1>2, <2>1, CoversRecorded
  <2> QED
    BY <1>1, <1>2, <2>1, <2>2, LoadOfChain DEF ix
<1>4. CASE dir.keep # 0
  <2>1. Reaches(ix, Recorded, disk)
    BY <1>4 DEF Course, TailKept, ix
  <2> QED
    BY <1>1, <2>1, LoadOfTail DEF ix
<1> QED
  BY <1>3, <1>4


-----------------------------------------------------------------------------
(***************************************************************************)
(* The steps of a recorder.                                                 *)
(***************************************************************************)
At(pc, at, list, f, mine) ==
    [pc |-> pc, at |-> at, list |-> list, file |-> f, mine |-> mine]

LEMMA AtIsProc ==
    ASSUME NEW L, NEW x \in Procs(L)
    PROVE  /\ x = At(x.pc, x.at, x.list, x.file, x.mine)
           /\ x.pc \in Phases /\ x.at \in Time /\ x.list \in SUBSET L /\ x.file \in Names
           /\ x.mine \in Indices(L)
BY DEF Procs, At

LEMMA ProcIsAt ==
    ASSUME NEW L, NEW pc \in Phases, NEW at \in Time, NEW list \in SUBSET L,
           NEW f \in Names, NEW mine \in Indices(L)
    PROVE  At(pc, at, list, f, mine) \in Procs(L)
BY DEF Procs, At

LEMMA FieldsOfAt ==
    ASSUME NEW pc, NEW at, NEW list, NEW f, NEW mine, NEW x, x = At(pc, at, list, f, mine)
    PROVE  x.pc = pc /\ x.at = at /\ x.list = list /\ x.file = f /\ x.mine = mine
BY DEF At

Changed(x, a, b, c) ==
    /\ [x EXCEPT !.pc = a] = At(a, x.at, x.list, x.file, x.mine)
    /\ [x EXCEPT !.pc = a, !.list = b] = At(a, x.at, b, x.file, x.mine)
    /\ [x EXCEPT !.pc = a, !.mine = b] = At(a, x.at, x.list, x.file, b)
    /\ [x EXCEPT !.pc = a, !.file = b] = At(a, x.at, x.list, b, x.mine)
    /\ [x EXCEPT !.pc = a, !.file = b, !.mine = c] = At(a, x.at, x.list, b, c)
LEMMA ChangedFields ==
    ASSUME NEW L, NEW x \in Procs(L), NEW a, NEW b, NEW c PROVE Changed(x, a, b, c)
<1>1. x = [pc |-> x.pc, at |-> x.at, list |-> x.list, file |-> x.file, mine |-> x.mine]
  BY AtIsProc DEF At
<1> DEFINE y == [x EXCEPT !.pc = a]
           z == [y EXCEPT !.file = b]
<1>2. y = At(a, x.at, x.list, x.file, x.mine)
  BY <1>1 DEF At
<1>3. /\ [x EXCEPT !.pc = a, !.list = b] = [y EXCEPT !.list = b]
      /\ [x EXCEPT !.pc = a, !.mine = b] = [y EXCEPT !.mine = b]
      /\ [x EXCEPT !.pc = a, !.file = b] = z
      /\ [x EXCEPT !.pc = a, !.file = b, !.mine = c] = [z EXCEPT !.mine = c]
  OBVIOUS
<1> HIDE DEF y
<1>4. [y EXCEPT !.list = b] = At(a, x.at, b, x.file, x.mine)
  BY <1>2 DEF At
<1>5. [y EXCEPT !.mine = b] = At(a, x.at, x.list, x.file, b)
  BY <1>2 DEF At
<1>6. z = At(a, x.at, x.list, b, x.mine)
  BY <1>2 DEF At
<1> HIDE DEF z
<1>7. [z EXCEPT !.mine = c] = At(a, x.at, x.list, b, c)
  BY <1>6 DEF At
<1> QED
  BY <1>2, <1>3, <1>4, <1>5, <1>6, <1>7 DEF y, Changed

Moved(p, a, b, c) ==
    LET x == proc[p]
        moved(y) == [proc EXCEPT ![p] = y]
    IN  /\ [proc EXCEPT ![p].pc = a] = moved(At(a, x.at, x.list, x.file, x.mine))
        /\ [proc EXCEPT ![p].pc = a, ![p].list = b] = moved(At(a, x.at, b, x.file, x.mine))
        /\ [proc EXCEPT ![p].pc = a, ![p].mine = b] = moved(At(a, x.at, x.list, x.file, b))
        /\ [proc EXCEPT ![p].pc = a, ![p].file = b] = moved(At(a, x.at, x.list, b, x.mine))
        /\ [proc EXCEPT ![p].pc = a, ![p].file = b, ![p].mine = c]
             = moved(At(a, x.at, x.list, b, c))
LEMMA ChangedOne ==
    ASSUME NEW L, proc \in [Recorders -> Procs(L)], NEW p \in Recorders, NEW a, NEW b, NEW c
    PROVE  Moved(p, a, b, c)
<1> DEFINE x == proc[p]
<1>1. /\ [proc EXCEPT ![p].pc = a] = [proc EXCEPT ![p] = [x EXCEPT !.pc = a]]
      /\ [proc EXCEPT ![p].pc = a, ![p].list = b]
           = [proc EXCEPT ![p] = [x EXCEPT !.pc = a, !.list = b]]
      /\ [proc EXCEPT ![p].pc = a, ![p].mine = b]
           = [proc EXCEPT ![p] = [x EXCEPT !.pc = a, !.mine = b]]
      /\ [proc EXCEPT ![p].pc = a, ![p].file = b]
           = [proc EXCEPT ![p] = [x EXCEPT !.pc = a, !.file = b]]
      /\ [proc EXCEPT ![p].pc = a, ![p].file = b, ![p].mine = c]
           = [proc EXCEPT ![p] = [x EXCEPT !.pc = a, !.file = b, !.mine = c]]
  OBVIOUS
<1>2. x \in Procs(L)
  OBVIOUS
<1> HIDE DEF x
<1>3. Changed(x, a, b, c)
  BY <1>2, ChangedFields
<1> QED
  BY <1>1, <1>3, Zenon DEF x, Changed, Moved

LEMMA NextStates ==
    ASSUME TypeOK, NEW p \in Recorders
    PROVE  /\ ListSnapshots(p) =>
                proc' = [proc EXCEPT ![p] = At("load", @.at, disk, @.file, @.mine)]
           /\ LoadIndex(p) =>
                proc' = [proc EXCEPT ![p] = At("open", @.at, @.list, @.file,
                                               Load(@.list, Contents(index)))]
           /\ OpenTmp(p) =>
                proc' = [proc EXCEPT ![p] = At("fill", @.at, @.list, tmp', @.mine)]
           /\ FillTmp(p) =>
                proc' = [proc EXCEPT ![p] = At("rename", @.at, @.list, NoFile, Empty)]
           /\ RenameTmp(p) /\ tmp # NoFile =>
                proc' = [proc EXCEPT ![p] = At("prune", @.at, @.list, @.file, @.mine)]
           /\ Record(p) => proc' = [proc EXCEPT ![p] = At("list", now, {}, NoFile, Empty)]
           /\ Idle = At("idle", 0, {}, NoFile, Empty)
<1> DEFINE x == proc[p]
<1>1. proc \in [Recorders -> Procs(Recorded)] /\ x \in Procs(Recorded)
  BY DEF TypeOK
<1>2. /\ [proc EXCEPT ![p] = At("load", @.at, disk, @.file, @.mine)]
           = [proc EXCEPT ![p] = At("load", x.at, disk, x.file, x.mine)]
      /\ [proc EXCEPT ![p] = At("open", @.at, @.list, @.file, Load(@.list, Contents(index)))]
           = [proc EXCEPT ![p] = At("open", x.at, x.list, x.file,
                                    Load(x.list, Contents(index)))]
      /\ [proc EXCEPT ![p] = At("fill", @.at, @.list, tmp', @.mine)]
           = [proc EXCEPT ![p] = At("fill", x.at, x.list, tmp', x.mine)]
      /\ [proc EXCEPT ![p] = At("rename", @.at, @.list, NoFile, Empty)]
           = [proc EXCEPT ![p] = At("rename", x.at, x.list, NoFile, Empty)]
      /\ [proc EXCEPT ![p] = At("prune", @.at, @.list, @.file, @.mine)]
           = [proc EXCEPT ![p] = At("prune", x.at, x.list, x.file, x.mine)]
  OBVIOUS
<1>10. /\ Moved(p, "load", disk, {})
      /\ Moved(p, "open", Load(proc[p].list, Contents(index)), {})
      /\ Moved(p, "fill", tmp', {})
      /\ Moved(p, "rename", NoFile, Empty)
      /\ Moved(p, "prune", {}, {})
  BY <1>1, ChangedOne
<1>3. ASSUME ListSnapshots(p)
      PROVE  proc' = [proc EXCEPT ![p] = At("load", x.at, disk, x.file, x.mine)]
  BY <1>10, <1>3, Zenon DEF ListSnapshots, Moved
<1>4. ASSUME LoadIndex(p)
      PROVE  proc' = [proc EXCEPT ![p] = At("open", x.at, x.list, x.file,
                                            Load(x.list, Contents(index)))]
  BY <1>10, <1>4, Zenon DEF LoadIndex, Moved
<1>5. ASSUME OpenTmp(p)
      PROVE  proc' = [proc EXCEPT ![p] = At("fill", x.at, x.list, tmp', x.mine)]
  BY <1>10, <1>5, Zenon DEF OpenTmp, Moved
<1>6. ASSUME FillTmp(p)
      PROVE  proc' = [proc EXCEPT ![p] = At("rename", x.at, x.list, NoFile, Empty)]
  BY <1>10, <1>6, Zenon DEF FillTmp, Moved
<1>7. ASSUME RenameTmp(p), tmp # NoFile
      PROVE  proc' = [proc EXCEPT ![p] = At("prune", x.at, x.list, x.file, x.mine)]
  BY <1>10, <1>7, Zenon DEF RenameTmp, Moved
<1>8. Record(p) => proc' = [proc EXCEPT ![p] = At("list", now, {}, NoFile, Empty)]
  BY DEF Record, Idle, At
<1>9. Idle = At("idle", 0, {}, NoFile, Empty)
  BY DEF Idle, At
<1> QED
  BY <1>2, <1>3, <1>4, <1>5, <1>6, <1>7, <1>8, <1>9

\* One recorder's step leaves the others as they were.
LEMMA OneMoves ==
    ASSUME NEW L, proc \in [Recorders -> Procs(L)], NEW p \in Recorders, NEW x \in Procs(L),
           proc' = [proc EXCEPT ![p] = x]
    PROVE  /\ proc' \in [Recorders -> Procs(L)] /\ proc'[p] = x
           /\ \A q \in Recorders : q # p => proc'[q] = proc[q]
OBVIOUS

LEMMA SourcesWithin ==
    ASSUME TypeOK PROVE \A A \in Sources : A \subseteq Ids(Recorded)
<1>1. ASSUME NEW p \in Recorders
      PROVE  Ids(proc[p].list) \subseteq Ids(Recorded) /\ Covers(proc[p].mine) \subseteq Ids(Recorded)
  <2>1. proc[p].list \subseteq Recorded /\ proc[p].mine \in Indices(Recorded)
    BY AtIsProc DEF TypeOK
  <2> QED
    BY <2>1, CoversRecorded DEF TypeOK, Ids
<1>2. ASSUME NEW f \in Files PROVE Covers(file[f]) \subseteq Ids(Recorded)
  BY CoversRecorded DEF TypeOK
<1> QED
  BY <1>1, <1>2 DEF Sources

\* What recorders know stays more or less the same when each knows what one knew, nothing
\* or all.
More == Sources \cup {{}, Ids(Recorded)}
LEMMA ChainGoesOn ==
    ASSUME TypeOK, Chain(Sources),
           \A q \in Recorders : Ids(proc'[q].list) \in More /\ Covers(proc'[q].mine) \in More,
           \A f \in Files : Covers(file'[f]) \in More
    PROVE  Chain(Sources')
<1>1. Sources' \subseteq More
  BY DEF Sources
<1>2. Chain(More)
  BY SourcesWithin DEF Chain, More
<1> QED
  BY <1>1, <1>2 DEF Chain

LEMMA InSources ==
    /\ \A q \in Recorders : Ids(proc[q].list) \in More /\ Covers(proc[q].mine) \in More
    /\ \A f \in Files : Covers(file[f]) \in More
    /\ {} \in More /\ Ids(Recorded) \in More
BY DEF Sources, More


LEMMA KnownRecorders ==
    ASSUME TypeOK PROVE dir.recorders \subseteq Recorders /\ dir.keep \in Nat
BY HistoryAssumption DEF TypeOK

LEMMA OnlyOne ==
    ASSUME Tidy, TypeOK, dir.keep # 0
    PROVE  ~dir.shared /\ \A p, q \in dir.recorders : p = q
BY DEF Tidy, Alone, TypeOK

LEMMA ListCourse ==
    ASSUME Tidy, Course, UNCHANGED dir, NEW p \in dir.recorders, ListSnapshots(p)
    PROVE  Course'
<1>1. TypeOK /\ p \in Recorders /\ Orderly(Recorded)
  BY KnownRecorders DEF Course, TypeOK
<1>2. UNCHANGED <<now, disk, index, tmp, file, log>> /\ Recorded' = Recorded
  BY DEF ListSnapshots, Recorded
<1> DEFINE x == proc[p]
           y == At("load", x.at, disk, x.file, x.mine)
<1>3. proc' = [proc EXCEPT ![p] = y]
  BY <1>1, NextStates
<1>4. y \in Procs(Recorded)
  BY <1>1, AtIsProc, ProcIsAt DEF TypeOK, Phases
<1>5. /\ y.pc = "load" /\ y.list = disk /\ y.mine = x.mine
  BY FieldsOfAt
<1> HIDE DEF y
<1>6. /\ proc' \in [Recorders -> Procs(Recorded)] /\ proc'[p] = y
      /\ \A q \in Recorders : q # p => proc'[q] = proc[q]
  BY <1>1, <1>3, <1>4, OneMoves DEF TypeOK
<1>7. TypeOK'
  BY <1>1, <1>2, <1>6 DEF TypeOK
<1>8. ASSUME dir.keep = 0 PROVE AllKept'
  <2>1. disk = Recorded /\ Chain(Sources)
    BY <1>8 DEF Course, AllKept
  <2>2. \A q \in Recorders : Ids(proc'[q].list) \in More /\ Covers(proc'[q].mine) \in More
    BY <1>1, <1>5, <1>6, <2>1, InSources
  <2>3. \A f \in Files : Covers(file'[f]) \in More
    BY <1>2, InSources
  <2>4. Chain(Sources')
    BY <1>1, <2>1, <2>2, <2>3, ChainGoesOn
  <2> QED
    BY <1>2, <2>1, <2>4 DEF AllKept, Chain
<1>9. ASSUME dir.keep # 0 PROVE TailKept'
  <2>1. Contents(index)' = Contents(index)
    BY <1>2 DEF Contents
  <2>2. \A q \in dir.recorders : InPhase(proc[q])'
    BY <1>1, <1>5, <1>6, <1>9, <1>2, OnlyOne DEF InPhase
  <2> QED
    BY <1>2, <1>9, <2>1, <2>2 DEF Course, TailKept
<1> QED
  BY <1>7, <1>8, <1>9 DEF Course

\* A step that records nothing: what is left to see is the recorder and the files.
LEMMA StepTypes ==
    ASSUME TypeOK, NEW p \in dir.recorders, NEW y \in Procs(Recorded),
           proc' = [proc EXCEPT ![p] = y], UNCHANGED <<dir, now, log>>,
           disk' \subseteq disk, index' \in Names, tmp' \in Names, tmp' # NoFile => tmp' # index',
           file' \in [Files -> Indices(Recorded)]
    PROVE  /\ TypeOK' /\ Recorded' = Recorded /\ p \in Recorders /\ proc'[p] = y
           /\ \A q \in Recorders : q # p => proc'[q] = proc[q]
<1>1. p \in Recorders
  BY KnownRecorders
<1>2. Recorded' = Recorded
  BY DEF Recorded
<1>3. /\ proc' \in [Recorders -> Procs(Recorded)] /\ proc'[p] = y
      /\ \A q \in Recorders : q # p => proc'[q] = proc[q]
  BY <1>1, OneMoves DEF TypeOK
<1> QED
  BY <1>1, <1>2, <1>3 DEF TypeOK

LEMMA StepKept ==
    ASSUME TypeOK, AllKept, NEW p \in Recorders, Recorded' = Recorded, disk' = disk,
           \A q \in Recorders : q # p => proc'[q] = proc[q],
           Ids(proc'[p].list) \in More, Covers(proc'[p].mine) \in More,
           \A f \in Files : Covers(file'[f]) \in More
    PROVE  AllKept'
<1>1. \A q \in Recorders : Ids(proc'[q].list) \in More /\ Covers(proc'[q].mine) \in More
  BY InSources
<1>2. Chain(Sources')
  BY <1>1, ChainGoesOn DEF AllKept
<1> QED
  BY <1>2 DEF AllKept, Chain

LEMMA ContentsKnown ==
    ASSUME TypeOK
    PROVE  /\ Contents(index) \in Indices(Recorded)
           /\ Covers(Contents(index)) \in Sources \cup {{}}
<1>1. Orderly(Recorded) /\ index \in Names /\ file \in [Files -> Indices(Recorded)]
  BY DEF TypeOK
<1>2. CASE index = NoFile
  BY <1>1, <1>2, EmptyCoversNothing DEF Contents
<1>3. CASE index # NoFile
  BY <1>1, <1>3 DEF Contents, Sources, Names
<1> QED
  BY <1>2, <1>3

LEMMA LoadCourse ==
    ASSUME Tidy, Course, UNCHANGED dir, NEW p \in dir.recorders, LoadIndex(p)
    PROVE  Course'
<1>1. TypeOK /\ p \in Recorders /\ Orderly(Recorded)
  BY KnownRecorders DEF Course, TypeOK
<1>2. UNCHANGED <<now, disk, index, tmp, file, log>>
  BY DEF LoadIndex
<1> DEFINE x == proc[p]
           ix == Contents(index)
           y == At("open", x.at, x.list, x.file, Load(x.list, ix))
<1>3. proc' = [proc EXCEPT ![p] = y]
  BY <1>1, NextStates
<1>4. /\ x \in Procs(Recorded) /\ x.list \in SUBSET Recorded /\ ix \in Indices(Recorded)
      /\ Covers(ix) \in Sources \cup {{}} /\ Ids(x.list) \in Sources
  BY <1>1, AtIsProc, ContentsKnown DEF TypeOK, Sources
<1>5. y.pc = "open" /\ y.list = x.list /\ y.mine = Load(x.list, ix)
  BY FieldsOfAt
<1>6. ASSUME dir.keep = 0
      PROVE  Load(x.list, ix) \in Indices(Recorded) /\ Covers(Load(x.list, ix)) \in More
  <2>1. Ids(x.list) \subseteq Covers(ix) \/ Covers(ix) \subseteq Ids(x.list)
    <3> HIDE DEF x, ix
    <3> QED
      BY <1>4, <1>6 DEF Course, AllKept, Chain
  <2>2. /\ Load(x.list, ix) \in Indices(Recorded)
        /\ Covers(Load(x.list, ix)) \in {Ids(x.list), Covers(ix)}
    <3> HIDE DEF x, ix
    <3> QED
      BY <1>1, <1>4, <2>1, LoadOfChain
  <2> QED
    BY <1>4, <2>2 DEF More
<1>7. ASSUME dir.keep # 0
      PROVE  /\ x.list = disk /\ Load(x.list, ix) = Index(Recorded)
             /\ Load(x.list, ix) \in Indices(Recorded)
  <2>1. x.list = disk /\ Reaches(ix, Recorded, disk) /\ disk \in SUBSET Recorded
    BY <1>7 DEF Course, TailKept, InPhase, LoadIndex, TypeOK
  <2>2. Load(disk, ix) = Index(Recorded)
    <3> HIDE DEF ix
    <3> QED
      BY <1>1, <2>1, LoadOfTail
  <2> QED
    BY <2>1, <2>2 DEF Indices
<1>8. y \in Procs(Recorded)
  <2>1. Load(x.list, ix) \in Indices(Recorded)
    BY <1>6, <1>7
  <2> QED
    BY <1>1, <1>4, <2>1, AtIsProc, ProcIsAt DEF Phases
<1> HIDE DEF y, ix
<1>9. /\ TypeOK' /\ Recorded' = Recorded /\ proc'[p] = y
      /\ \A q \in Recorders : q # p => proc'[q] = proc[q]
  BY <1>1, <1>2, <1>3, <1>8, StepTypes DEF TypeOK
<1>10. ASSUME dir.keep = 0 PROVE AllKept'
  <2>1. Ids(y.list) \in More /\ Covers(y.mine) \in More
    BY <1>4, <1>5, <1>6, <1>10 DEF More
  <2>2. \A f \in Files : Covers(file'[f]) \in More
    BY <1>2, InSources
  <2> QED
    BY <1>1, <1>2, <1>9, <1>10, <2>1, <2>2, StepKept DEF Course
<1>11. ASSUME dir.keep # 0 PROVE TailKept'
  <2>1. Contents(index)' = Contents(index)
    BY <1>2 DEF Contents
  <2>2. \A q \in dir.recorders : InPhase(proc[q])'
    BY <1>1, <1>2, <1>5, <1>7, <1>9, <1>11, OnlyOne DEF InPhase
  <2> QED
    BY <1>2, <1>9, <1>11, <2>1, <2>2 DEF Course, TailKept
<1> QED
  BY <1>9, <1>10, <1>11 DEF Course

LEMMA OpenCourse ==
    ASSUME Tidy, Course, UNCHANGED dir, NEW p \in dir.recorders, OpenTmp(p)
    PROVE  Course'
<1>1. TypeOK /\ p \in Recorders /\ Orderly(Recorded)
  BY KnownRecorders DEF Course, TypeOK
<1>2. UNCHANGED <<now, disk, index, log>> /\ file' = [file EXCEPT ![tmp'] = Blank]
  BY DEF OpenTmp
<1>3. tmp' \in Files /\ tmp' # index /\ tmp' # NoFile
  <2>1. tmp' = IF tmp = NoFile THEN Min(Unused) ELSE tmp
    BY DEF OpenTmp
  <2>2. CASE tmp = NoFile
    <3>1. Min(Unused) \in Unused
      BY <1>1, <2>2, OneIsUnused DEF TypeOK
    <3> QED
      BY <2>1, <2>2, <3>1 DEF Unused
  <2>3. CASE tmp # NoFile
    BY <1>1, <2>1, <2>3 DEF TypeOK, Names
  <2> QED
    BY <2>2, <2>3
<1> DEFINE x == proc[p]
           y == At("fill", x.at, x.list, tmp', x.mine)
<1>4. proc' = [proc EXCEPT ![p] = y]
  BY <1>1, NextStates
<1>5. x \in Procs(Recorded) /\ y \in Procs(Recorded)
  BY <1>1, <1>3, AtIsProc, ProcIsAt DEF TypeOK, Phases, Names
<1>6. y.pc = "fill" /\ y.list = x.list /\ y.mine = x.mine /\ y.file = tmp'
  BY FieldsOfAt
<1>7. /\ file' \in [Files -> Indices(Recorded)] /\ file'[tmp'] = Blank
      /\ \A f \in Files : f # tmp' => file'[f] = file[f]
  <2>1. Blank \in Indices(Recorded)
    BY DEF Indices
  <2> QED
    BY <1>1, <1>2, <1>3, <2>1 DEF TypeOK
<1> HIDE DEF y
<1>8. /\ TypeOK' /\ Recorded' = Recorded /\ proc'[p] = y
      /\ \A q \in Recorders : q # p => proc'[q] = proc[q]
  BY <1>1, <1>2, <1>3, <1>4, <1>5, <1>7, StepTypes DEF TypeOK, Names
<1>9. ASSUME dir.keep = 0 PROVE AllKept'
  <2>1. Ids(y.list) \in More /\ Covers(y.mine) \in More
    BY <1>1, <1>6, InSources
  <2>2. \A f \in Files : Covers(file'[f]) \in More
    BY <1>1, <1>7, InSources, EmptyCoversNothing
  <2> QED
    BY <1>1, <1>2, <1>8, <1>9, <2>1, <2>2, StepKept DEF Course
<1>10. ASSUME dir.keep # 0 PROVE TailKept'
  <2>1. Contents(index)' = Contents(index)
    BY <1>1, <1>2, <1>3, <1>7 DEF Contents, TypeOK, Names
  <2>2. x.pc = "open" /\ InPhase(x)
    BY <1>10 DEF OpenTmp, Course, TailKept
  <2>3. \A q \in dir.recorders : InPhase(proc[q])'
    BY <1>1, <1>2, <1>3, <1>6, <1>7, <1>8, <1>10, <2>2, OnlyOne DEF InPhase
  <2> QED
    BY <1>2, <1>8, <1>10, <2>1, <2>3 DEF Course, TailKept
<1> QED
  BY <1>8, <1>9, <1>10 DEF Course


LEMMA FillCourse ==
    ASSUME Tidy, Course, UNCHANGED dir, NEW p \in dir.recorders, FillTmp(p)
    PROVE  Course'
<1>1. TypeOK /\ p \in Recorders /\ Orderly(Recorded)
  BY KnownRecorders DEF Course, TypeOK
<1> DEFINE x == proc[p]
           f == x.file
           y == At("rename", x.at, x.list, NoFile, Empty)
<1>2. /\ UNCHANGED <<now, disk, index, tmp, log>>
      /\ \E c \in {x.mine} \cup (IF file[f] = Blank THEN {} ELSE {Unreadable}) :
            file' = [file EXCEPT ![f] = c]
  BY DEF FillTmp
<1>3. proc' = [proc EXCEPT ![p] = y]
  BY <1>1, NextStates
<1>4. x \in Procs(Recorded) /\ x.mine \in Indices(Recorded) /\ y \in Procs(Recorded)
  BY <1>1, AtIsProc, ProcIsAt, EmptyCoversNothing DEF TypeOK, Phases, Names
<1>5. y.pc = "rename" /\ y.list = x.list /\ y.mine = Empty
  BY FieldsOfAt
<1>6. PICK c : /\ c \in {x.mine} \cup (IF file[f] = Blank THEN {} ELSE {Unreadable})
               /\ file' = [file EXCEPT ![f] = c]
  BY <1>2
<1>7. /\ c \in Indices(Recorded) /\ Covers(c) \in More
      /\ file[f] = Blank => c = x.mine
  <2>1. Covers(Unreadable) = {} /\ Unreadable \in Indices(Recorded)
    BY DEF Covers, Indices
  <2> QED
    BY <1>1, <1>4, <1>6, <2>1, InSources
<1>8. /\ file' \in [Files -> Indices(Recorded)]
      /\ \A g \in Files : file'[g] = IF g = f THEN c ELSE file[g]
  BY <1>1, <1>6, <1>7 DEF TypeOK
<1> HIDE DEF y
<1>9. /\ TypeOK' /\ Recorded' = Recorded /\ proc'[p] = y
      /\ \A q \in Recorders : q # p => proc'[q] = proc[q]
  BY <1>1, <1>2, <1>3, <1>4, <1>8, StepTypes DEF TypeOK
<1>10. ASSUME dir.keep = 0 PROVE AllKept'
  <2>1. Ids(y.list) \in More /\ Covers(y.mine) \in More
    BY <1>1, <1>5, InSources, EmptyCoversNothing
  <2>2. \A g \in Files : Covers(file'[g]) \in More
    BY <1>7, <1>8, InSources
  <2> QED
    BY <1>1, <1>2, <1>9, <1>10, <2>1, <2>2, StepKept DEF Course
<1>11. ASSUME dir.keep # 0 PROVE TailKept'
  <2>1. x.pc = "fill" /\ InPhase(x)
    BY <1>11 DEF FillTmp, Course, TailKept
  <2>2. f = tmp /\ tmp \in Files /\ tmp # index
    BY <1>1, <2>1 DEF InPhase, TypeOK, Names
  <2>3. Contents(index)' = Contents(index)
    BY <1>1, <1>2, <1>8, <2>2 DEF Contents, TypeOK, Names
  <2>4. file'[tmp] = Index(Recorded) /\ tmp # NoFile
    BY <1>7, <1>8, <2>1, <2>2 DEF InPhase
  <2>5. \A q \in dir.recorders : InPhase(proc[q])'
    BY <1>1, <1>2, <1>5, <1>9, <1>11, <2>1, <2>4, OnlyOne DEF InPhase
  <2> QED
    BY <1>2, <1>9, <1>11, <2>3, <2>5 DEF Course, TailKept
<1> QED
  BY <1>9, <1>10, <1>11 DEF Course

\* A recorder that is done, or crashed, knows nothing.
LEMMA IdleKnows ==
    ASSUME TypeOK
    PROVE  /\ Idle \in Procs(Recorded) /\ Idle.pc = "idle"
           /\ Ids(Idle.list) = {} /\ Covers(Idle.mine) = {}
<1>1. Orderly(Recorded) /\ 0 \in Time
  BY HistoryAssumption DEF TypeOK, Time
<1> QED
  BY <1>1, EmptyCoversNothing DEF Idle, Procs, Phases, Names, Ids

LEMMA RenameCourse ==
    ASSUME Tidy, Course, UNCHANGED dir, NEW p \in dir.recorders, RenameTmp(p)
    PROVE  Course'
<1>1. TypeOK /\ p \in Recorders /\ Orderly(Recorded)
  BY KnownRecorders DEF Course, TypeOK
<1>2. UNCHANGED <<now, disk, log>>
  BY DEF RenameTmp
<1> DEFINE x == proc[p]
           y == IF tmp = NoFile THEN Idle ELSE At("prune", x.at, x.list, x.file, x.mine)
<1>3. proc' = [proc EXCEPT ![p] = y]
  BY <1>1, NextStates DEF RenameTmp
<1>4. x \in Procs(Recorded) /\ y \in Procs(Recorded)
  BY <1>1, AtIsProc, ProcIsAt, IdleKnows DEF TypeOK, Phases
<1>5. /\ tmp = NoFile => y = Idle
      /\ tmp # NoFile => y.pc = "prune" /\ y.list = x.list /\ y.mine = x.mine
  BY FieldsOfAt
<1>6. /\ file' \in [Files -> Indices(Recorded)]
      /\ \A f \in Files : (f = index /\ f # index') \/ file'[f] = file[f]
      /\ \A f \in Files : file'[f] \in {file[f], Blank}
      /\ tmp # NoFile => index' = tmp /\ tmp' = NoFile /\ tmp # index
      /\ tmp = NoFile => index' = index /\ tmp' = tmp /\ file' = file
  <2>1. Blank \in Indices(Recorded)
    BY DEF Indices
  <2>2. tmp # NoFile => tmp # index
    BY <1>1 DEF TypeOK
  <2>3. file' = file \/ /\ tmp # NoFile /\ file' = [file EXCEPT ![index] = Blank]
    BY DEF RenameTmp
  <2>4. /\ tmp # NoFile => index' = tmp /\ tmp' = NoFile
        /\ tmp = NoFile => index' = index /\ tmp' = tmp /\ file' = file
    BY DEF RenameTmp
  <2>5. file \in [Files -> Indices(Recorded)]
    BY <1>1 DEF TypeOK
  <2> QED
    BY <2>1, <2>2, <2>3, <2>4, <2>5
<1> HIDE DEF y
<1>7. /\ TypeOK' /\ Recorded' = Recorded /\ proc'[p] = y
      /\ \A q \in Recorders : q # p => proc'[q] = proc[q]
  <2>1. index' \in Names /\ tmp' \in Names /\ (tmp' # NoFile => tmp' # index')
    BY <1>1, <1>6 DEF TypeOK, Names
  <2> QED
    BY <1>1, <1>2, <1>3, <1>4, <1>6, <2>1, StepTypes
<1>8. ASSUME dir.keep = 0 PROVE AllKept'
  <2>1. Ids(y.list) \in More /\ Covers(y.mine) \in More
    BY <1>1, <1>5, InSources, IdleKnows
  <2>2. \A f \in Files : Covers(file'[f]) \in More
    BY <1>1, <1>6, InSources, EmptyCoversNothing
  <2> QED
    BY <1>1, <1>2, <1>7, <1>8, <2>1, <2>2, StepKept DEF Course
<1>9. ASSUME dir.keep # 0 PROVE TailKept'
  <2>1. x.pc = "rename" /\ InPhase(x)
    BY <1>9 DEF RenameTmp, Course, TailKept
  <2>2. tmp # NoFile /\ tmp \in Files /\ file[tmp] = Index(Recorded) /\ x.list = disk
    BY <1>1, <2>1 DEF InPhase, TypeOK, Names
  <2>3. Contents(index)' = Index(Recorded)
    BY <1>6, <2>2 DEF Contents
  <2>4. Reaches(Index(Recorded), Recorded, disk)
    BY DEF Reaches
  <2>5. \A q \in dir.recorders : InPhase(proc[q])'
    BY <1>1, <1>2, <1>5, <1>7, <1>9, <2>2, <2>3, OnlyOne DEF InPhase
  <2> QED
    BY <1>2, <1>7, <1>9, <2>3, <2>4, <2>5 DEF Course, TailKept
<1> QED
  BY <1>7, <1>8, <1>9 DEF Course

LEMMA PruneCourse ==
    ASSUME Tidy, Course, UNCHANGED dir, NEW p \in dir.recorders, Prune(p)
    PROVE  Course'
<1>1. TypeOK /\ p \in Recorders /\ Orderly(Recorded) /\ disk \in SUBSET Recorded
  BY KnownRecorders DEF Course, TypeOK
<1>2. UNCHANGED <<now, index, tmp, file, log>> /\ proc' = [proc EXCEPT ![p] = Idle]
  BY DEF Prune
<1>3. PICK gone \in SUBSET Outdated(p) : disk' = disk \ gone
  BY DEF Prune
<1>4. /\ TypeOK' /\ Recorded' = Recorded /\ proc'[p] = Idle
      /\ \A q \in Recorders : q # p => proc'[q] = proc[q]
  BY <1>1, <1>2, <1>3, IdleKnows, StepTypes DEF TypeOK
<1>5. ASSUME dir.keep = 0 PROVE AllKept'
  <2>1. disk' = disk
    BY <1>3, <1>5 DEF Outdated
  <2>2. \A f \in Files : Covers(file'[f]) \in More
    BY <1>2, InSources
  <2> QED
    <3>1. Ids(proc'[p].list) \in More /\ Covers(proc'[p].mine) \in More
      BY <1>1, <1>4, IdleKnows, InSources
    <3> QED
      BY <1>1, <1>4, <1>5, <2>1, <2>2, <3>1, StepKept DEF Course
<1>6. ASSUME dir.keep # 0 PROVE TailKept'
  <2>1. proc[p].list = disk /\ Contents(index) = Index(Recorded)
    BY <1>6 DEF Prune, Course, TailKept, InPhase
  <2>2. Recorded # {} => Newest(Recorded) \in disk'
    <3> SUFFICES ASSUME Recorded # {} PROVE Newest(Recorded) \in disk'
      OBVIOUS
    <3>1. Newest(Recorded) \in disk
      BY <1>6 DEF Course, TailKept
    <3>2. IsNewest(Newest(Recorded), disk)
      BY <1>1, NewestIsNewest DEF IsNewest
    <3> QED
      BY <1>3, <2>1, <3>1, <3>2 DEF Outdated
  <2>3. Contents(index)' = Index(Recorded)
    BY <1>2, <2>1 DEF Contents
  <2>4. Reaches(Index(Recorded), Recorded, disk')
    BY DEF Reaches
  <2>5. \A q \in dir.recorders : InPhase(proc[q])'
    BY <1>1, <1>4, <1>6, OnlyOne, IdleKnows DEF InPhase
  <2> QED
    BY <1>4, <1>6, <2>2, <2>3, <2>4, <2>5 DEF TailKept
<1> QED
  BY <1>2, <1>4, <1>5, <1>6 DEF Course

LEMMA CrashCourse ==
    ASSUME Tidy, Course, UNCHANGED dir, NEW p \in dir.recorders, Crash(p)
    PROVE  Course'
<1>1. TypeOK /\ p \in Recorders
  BY KnownRecorders DEF Course
<1>2. UNCHANGED <<now, disk, index, tmp, file, log>> /\ proc' = [proc EXCEPT ![p] = Idle]
  BY DEF Crash
<1>3. /\ TypeOK' /\ Recorded' = Recorded /\ proc'[p] = Idle
      /\ \A q \in Recorders : q # p => proc'[q] = proc[q]
  BY <1>1, <1>2, IdleKnows, StepTypes DEF TypeOK
<1>4. ASSUME dir.keep = 0 PROVE AllKept'
  <2>1. \A f \in Files : Covers(file'[f]) \in More
    BY <1>2, InSources
  <2> QED
    <3>1. Ids(proc'[p].list) \in More /\ Covers(proc'[p].mine) \in More
      BY <1>1, <1>3, IdleKnows, InSources
    <3> QED
      BY <1>1, <1>2, <1>3, <1>4, <2>1, <3>1, StepKept DEF Course
<1>5. ASSUME dir.keep # 0 PROVE TailKept'
  <2>1. Contents(index)' = Contents(index)
    BY <1>2 DEF Contents
  <2>2. \A q \in dir.recorders : InPhase(proc[q])'
    BY <1>1, <1>3, <1>5, OnlyOne, IdleKnows DEF InPhase
  <2> QED
    BY <1>2, <1>3, <1>5, <2>1, <2>2 DEF Course, TailKept
<1> QED
  BY <1>2, <1>3, <1>4, <1>5 DEF Course


\* Another run: told from the earlier ones, by all who know of less.
LEMMA RecordedMore ==
    ASSUME TypeOK, UNCHANGED dir, NEW at \in 0 .. now, NEW r \in Runs(at), log' = log \cup {r},
           UNCHANGED now
    PROVE  LET s == Saved(r) IN
           /\ s \in Snapshot /\ s.at = at /\ s.hash \in dir.hashes
           /\ Recorded' = Recorded \cup {s} /\ s \notin Recorded /\ Orderly(Recorded')
           /\ \A t \in Recorded : Id(t) # Id(s)
           /\ \A t \in Recorded' : t.at <= now /\ t.hash \in dir.hashes
<1> DEFINE s == Saved(r)
<1>1. at \in Time /\ at <= now /\ dir \in Settings
  BY HistoryAssumption DEF TypeOK, Time
<1>2. /\ s \in Snapshot /\ s.at = at /\ s.hash \in dir.hashes
      /\ \A t \in log : Id(Saved(t)) # Id(s)
  BY <1>1, RunIsSnapshot
<1>3. Recorded' = Recorded \cup {s}
  BY DEF Recorded
<1>4. \A t \in Recorded : Id(t) # Id(s)
  BY <1>2 DEF Recorded
<1> HIDE DEF s
<1>5. s \notin Recorded
  BY <1>4
<1>6. Orderly(Recorded) /\ \A t \in Recorded : t.at <= now /\ t.hash \in dir.hashes
  BY DEF TypeOK
<1>7. IsFiniteSet(Recorded \cup {s})
  BY <1>6, FS_AddElement DEF Orderly
<1>8. Orderly(Recorded \cup {s})
  BY <1>2, <1>4, <1>6, <1>7 DEF Orderly
<1>9. \A t \in Recorded \cup {s} : t.at <= now /\ t.hash \in dir.hashes
  BY <1>1, <1>2, <1>6
<1>10. Orderly(Recorded') /\ \A t \in Recorded' : t.at <= now /\ t.hash \in dir.hashes
  BY <1>3, <1>8, <1>9
<1> QED
  BY <1>2, <1>3, <1>4, <1>5, <1>10 DEF s

LEMMA TypesGrow ==
    ASSUME NEW L, NEW M, L \subseteq M
    PROVE  /\ \A f : f \in [Files -> Indices(L)] => f \in [Files -> Indices(M)]
           /\ \A f : f \in [Recorders -> Procs(L)] => f \in [Recorders -> Procs(M)]
<1>1. Indices(L) \subseteq Indices(M)
  BY IndicesGrow
<1>2. ASSUME NEW x \in Procs(L) PROVE x \in Procs(M)
  BY <1>1, AtIsProc, ProcIsAt
<1> QED
  BY <1>1, <1>2

LEMMA RecordCourse ==
    ASSUME Tidy, Course, UNCHANGED dir, NEW p \in dir.recorders, Record(p)
    PROVE  Course'
<1>1. /\ TypeOK /\ p \in Recorders /\ Orderly(Recorded) /\ disk \in SUBSET Recorded
      /\ now \in Time /\ now \in Nat
  BY KnownRecorders, HistoryAssumption DEF Course, TypeOK, Time
<1>2. UNCHANGED <<now, index, tmp, file>>
  BY DEF Record
<1>3. PICK r \in Runs(now) : log' = log \cup {r} /\ disk' = disk \cup {Saved(r)}
  BY DEF Record
<1> DEFINE s == Saved(r)
           y == At("list", now, {}, NoFile, Empty)
<1>4. /\ s \in Snapshot /\ s.at = now /\ s.hash \in dir.hashes
      /\ Recorded' = Recorded \cup {s} /\ s \notin Recorded /\ Orderly(Recorded')
      /\ \A t \in Recorded : Id(t) # Id(s)
      /\ \A t \in Recorded' : t.at <= now /\ t.hash \in dir.hashes
  BY <1>1, <1>2, <1>3, RecordedMore
<1> HIDE DEF s
<1>5. proc' = [proc EXCEPT ![p] = y]
  BY <1>1, NextStates
<1>6. y \in Procs(Recorded')
  BY <1>1, <1>4, ProcIsAt, EmptyCoversNothing DEF Phases, Names
<1>7. y.pc = "list" /\ y.list = {} /\ y.mine = Empty
  BY FieldsOfAt
<1> HIDE DEF y
<1>8. /\ file' \in [Files -> Indices(Recorded')] /\ proc \in [Recorders -> Procs(Recorded')]
  <2>1. Recorded \subseteq Recorded'
    BY <1>4
  <2> QED
    BY <1>1, <1>2, <2>1, TypesGrow DEF TypeOK
<1>9. /\ proc' \in [Recorders -> Procs(Recorded')] /\ proc'[p] = y
      /\ \A q \in Recorders : q # p => proc'[q] = proc[q]
  BY <1>1, <1>5, <1>6, <1>8, OneMoves
<1>10. TypeOK'
  BY <1>1, <1>2, <1>3, <1>4, <1>8, <1>9 DEF TypeOK, s
<1>11. ASSUME dir.keep = 0 PROVE AllKept'
  <2>1. disk = Recorded /\ Chain(Sources)
    BY <1>11 DEF Course, AllKept
  <2>2. \A q \in Recorders : Ids(proc'[q].list) \in More /\ Covers(proc'[q].mine) \in More
    BY <1>1, <1>7, <1>9, InSources, EmptyCoversNothing DEF Ids
  <2>3. \A f \in Files : Covers(file'[f]) \in More
    BY <1>2, InSources
  <2>4. Chain(Sources')
    BY <1>1, <2>1, <2>2, <2>3, ChainGoesOn
  <2> QED
    BY <1>3, <1>4, <2>1, <2>4 DEF AllKept, Chain, s
<1>12. ASSUME dir.keep # 0 PROVE TailKept'
  <2>1. \A t \in Recorded : Before(t, s)
    <3>1. \A g \in dir.hashes, h \in dir.hashes : g = h
      BY <1>1, <1>12 DEF Tidy, Alone, TypeOK
    <3>2. ASSUME NEW t \in Recorded PROVE t.at < s.at
      <4>1. t.hash = s.hash /\ t.at <= s.at /\ t.at # s.at
        BY <1>4, <3>1 DEF Id
      <4>2. t.at \in Nat
        BY <1>1, SnapshotTime DEF Orderly
      <4> QED
        BY <1>1, <1>4, <4>1, <4>2
    <3> QED
      BY <3>2 DEF Before
  <2>2. Newest(Recorded') = s
    <3>1. \A t \in Recorded' \ {s} : Before(t, s)
      BY <1>4, <2>1
    <3> QED
      BY <1>4, <3>1, NewestIsNewest DEF IsNewest
  <2>3. Contents(index)' = Contents(index)
    BY <1>2 DEF Contents
  <2>4. Reaches(Contents(index), Recorded', disk')
    <3>1. PICK R \in SUBSET Recorded :
             /\ Contents(index) = Index(R) /\ Recorded \ R \subseteq disk
             /\ \A t \in Recorded, c \in R : Before(t, c) => t \in R
      BY <1>12 DEF Course, TailKept, Reaches
    <3>2. R \in SUBSET Recorded' /\ Recorded' \ R \subseteq disk'
      BY <1>3, <1>4, <3>1 DEF s
    <3>3. ASSUME NEW t \in Recorded', NEW c \in R, Before(t, c) PROVE t \in R
      <4>1. Before(c, s) /\ c \in Snapshot
        BY <1>1, <2>1 DEF Orderly
      <4>2. t # s
        BY <1>4, <3>3, <4>1, BeforeIsAnOrder
      <4> QED
        BY <1>4, <3>1, <3>3, <4>2
    <3> QED
      BY <3>1, <3>2, <3>3 DEF Reaches
  <2>5. \A q \in dir.recorders : InPhase(proc[q])'
    BY <1>1, <1>7, <1>9, <1>12, OnlyOne DEF InPhase
  <2>6. Newest(Recorded)' \in disk'
    BY <1>3, <2>2 DEF s
  <2> QED
    BY <2>3, <2>4, <2>5, <2>6 DEF TailKept
<1> QED
  BY <1>10, <1>11, <1>12 DEF Course

LEMMA ArriveCourse ==
    ASSUME Tidy, Course, UNCHANGED dir, Arrive PROVE Course'
<1>1. /\ TypeOK /\ Orderly(Recorded) /\ dir.keep = 0
      /\ disk = Recorded /\ Chain(Sources)
  BY OnlyOne DEF Course, AllKept, TypeOK, Arrive
<1>2. UNCHANGED <<now, index, tmp, file, proc>>
  BY DEF Arrive
<1>0. PICK at \in 0 .. now :
         \E r \in Runs(at) : log' = log \cup {r} /\ disk' = disk \cup {Saved(r)}
  BY DEF Arrive
<1>3. PICK r \in Runs(at) : log' = log \cup {r} /\ disk' = disk \cup {Saved(r)}
  BY <1>0
<1>4. /\ Recorded' = Recorded \cup {Saved(r)} /\ Orderly(Recorded')
      /\ \A t \in Recorded' : t.at <= now /\ t.hash \in dir.hashes
  BY <1>1, <1>2, <1>3, RecordedMore
<1>5. file' \in [Files -> Indices(Recorded')] /\ proc' \in [Recorders -> Procs(Recorded')]
  <2>1. Recorded \subseteq Recorded'
    BY <1>4
  <2> QED
    BY <1>1, <1>2, <2>1, TypesGrow DEF TypeOK
<1>6. TypeOK'
  BY <1>1, <1>2, <1>3, <1>4, <1>5 DEF TypeOK
<1>7. Chain(Sources')
  <2>1. \A q \in Recorders : Ids(proc'[q].list) \in More /\ Covers(proc'[q].mine) \in More
    BY <1>2, InSources
  <2>2. \A f \in Files : Covers(file'[f]) \in More
    BY <1>2, InSources
  <2> QED
    BY <1>1, <2>1, <2>2, ChainGoesOn
<1> QED
  BY <1>1, <1>3, <1>4, <1>6, <1>7 DEF Course, AllKept, Chain

LEMMA DamageCourse ==
    ASSUME Tidy, Course, UNCHANGED dir, DamageIndex PROVE Course'
<1>1. /\ TypeOK /\ Orderly(Recorded) /\ dir.keep = 0
      /\ disk = Recorded /\ Chain(Sources)
  BY OnlyOne DEF Course, AllKept, TypeOK, DamageIndex
<1>2. UNCHANGED <<now, disk, tmp, proc, log>> /\ Recorded' = Recorded
  BY DEF DamageIndex, Recorded
<1>3. /\ index' \in {index, NoFile}
      /\ \E c \in {Unreadable, Blank} : file' = [file EXCEPT ![index] = c]
  BY DEF DamageIndex
<1>4. PICK c \in {Unreadable, Blank} : file' = [file EXCEPT ![index] = c]
  BY <1>3
<1>5. c \in Indices(Recorded) /\ Covers(c) \in More
  BY InSources DEF Indices, Covers
<1>6. /\ file' \in [Files -> Indices(Recorded)]
      /\ \A f \in Files : file'[f] \in {file[f], c}
  BY <1>1, <1>4, <1>5 DEF TypeOK
<1>7. TypeOK'
  BY <1>1, <1>2, <1>3, <1>6 DEF TypeOK, Names
<1>8. Chain(Sources')
  <2>1. \A q \in Recorders : Ids(proc'[q].list) \in More /\ Covers(proc'[q].mine) \in More
    BY <1>2, InSources
  <2>2. \A f \in Files : Covers(file'[f]) \in More
    BY <1>5, <1>6, InSources
  <2> QED
    BY <1>1, <2>1, <2>2, ChainGoesOn
<1> QED
  BY <1>1, <1>2, <1>7, <1>8 DEF Course, AllKept, Chain

LEMMA TickCourse ==
    ASSUME Course, UNCHANGED dir, Tick PROVE Course'
<1>1. UNCHANGED <<disk, index, tmp, file, proc, log>> /\ now' = now + 1 /\ now < dir.till
  BY DEF Tick
<1>2. Recorded' = Recorded
  BY <1>1 DEF Recorded
<1>3. dir.till \in 0 .. MaxTime /\ now \in Nat /\ MaxTime \in Nat
  BY HistoryAssumption DEF Course, TypeOK, Time
<1>4. now' \in Time
  BY <1>1, <1>3 DEF Time
<1>5. \A s \in Recorded : s.at <= now' /\ s.hash \in dir.hashes
  <2>1. \A s \in Recorded : s.at \in Nat /\ s.at <= now /\ s.hash \in dir.hashes
    BY SnapshotTime DEF Course, TypeOK, Orderly
  <2> QED
    BY <1>1, <1>3, <2>1
<1>6. TypeOK'
  BY <1>1, <1>2, <1>4, <1>5 DEF Course, TypeOK
<1>7. Sources' = Sources
  BY <1>1 DEF Sources
<1>8. dir.keep = 0 => AllKept'
  BY <1>1, <1>2, <1>7 DEF Course, AllKept, Chain
<1>9. dir.keep # 0 => TailKept'
  BY <1>1, <1>2 DEF Course, TailKept, InPhase, Contents
<1> QED
  BY <1>6, <1>8, <1>9 DEF Course

LEMMA CourseAtFirst == ASSUME Init PROVE Course
<1>1. Recorded = {} /\ Orderly({})
  BY FS_EmptySet DEF Init, Recorded, Orderly
<1>2. now \in Time
  BY HistoryAssumption DEF Init, Time
<1>3. Blank \in Indices(Recorded) /\ Idle \in Procs(Recorded) /\ Covers(Blank) = {}
      /\ Ids(Idle.list) = {} /\ Covers(Idle.mine) = {} /\ Idle.pc = "idle"
  BY <1>1, <1>2, HistoryAssumption, EmptyCoversNothing
     DEF Indices, Idle, Procs, Phases, Names, Ids, Time
<1>4. TypeOK
  BY <1>1, <1>2, <1>3 DEF Init, TypeOK, Names
<1>5. AllKept
  <2>1. \A A \in Sources : A = {}
    BY <1>3 DEF Init, Sources
  <2> QED
    BY <1>1, <2>1 DEF Init, AllKept, Chain
<1>6. TailKept
  <2>1. Reaches(Contents(index), Recorded, disk)
    BY <1>1, EmptyIsIndex DEF Init, Contents, Reaches
  <2>2. \A p \in dir.recorders : InPhase(proc[p])
    BY <1>3, <1>4, KnownRecorders DEF Init, InPhase
  <2> QED
    BY <1>1, <2>1, <2>2 DEF TailKept
<1> QED
  BY <1>4, <1>5, <1>6 DEF Course

LEMMA CourseStep == ASSUME Tidy, Course, [Next]_vars PROVE Course'
<1>1. CASE UNCHANGED vars
  <2>1. /\ UNCHANGED <<dir, now, disk, index, tmp, file, proc, log>> /\ Recorded' = Recorded
        /\ Sources' = Sources
    BY <1>1 DEF vars, Recorded, Sources
  <2> QED
    BY <2>1 DEF Course, TypeOK, AllKept, Chain, TailKept, InPhase, Contents
<1>2. CASE Next
  <2>1. UNCHANGED dir
    BY <1>2 DEF Next
  <2>2. ASSUME NEW p \in dir.recorders,
               \/ Record(p) \/ ListSnapshots(p) \/ LoadIndex(p) \/ OpenTmp(p)
               \/ FillTmp(p) \/ RenameTmp(p) \/ Prune(p) \/ Crash(p)
        PROVE  Course'
    BY <2>1, <2>2, RecordCourse, ListCourse, LoadCourse, OpenCourse, FillCourse,
       RenameCourse, PruneCourse, CrashCourse
  <2>3. CASE Tick \/ Arrive \/ DamageIndex
    BY <2>1, <2>3, TickCourse, ArriveCourse, DamageCourse
  <2> QED
    BY <1>2, <2>2, <2>3 DEF Next
<1> QED
  BY <1>1, <1>2


-----------------------------------------------------------------------------
(***************************************************************************)
(* What readers are told, and what the runs before the newest make of it.   *)
(***************************************************************************)
\* In every state of a directory that keeps all, or that one machine writes alone.
LEMMA CourseAlways == Spec => [](Tidy => Course)
<1>1. Init => (Tidy => Course)
  BY CourseAtFirst
<1>2. (Tidy => Course) /\ [Next]_vars => (Tidy => Course)'
  <2> SUFFICES ASSUME Tidy => Course, [Next]_vars, Tidy' PROVE Course'
    OBVIOUS
  <2>1. dir' = dir
    BY DEF Next, vars
  <2>2. Tidy
    BY <2>1 DEF Tidy, Alone
  <2> QED
    BY <2>2, CourseStep
<1> QED
  BY <1>1, <1>2, PTL DEF Spec

\* The view is the ledger of the runs recorded.
LEMMA ViewIs ==
    ASSUME Course
    PROVE  /\ View = [k \in Told(Recorded) |-> Entry(Recorded, k)]
           /\ View = Ledger!LedgerOf(Recorded)
<1>1. View = Index(Recorded).entries
  BY ReaderIsTold DEF View
<1> QED
  BY <1>1, IndexIsLedger DEF Index

LEMMA CourseKept == ASSUME KeptOrAlone PROVE Spec => []Course
<1>1. Init => dir \in Settings
  BY DEF Init
<1>2. dir \in Settings /\ [Next]_vars => (dir \in Settings)'
  BY DEF Next, vars
<1>3. dir \in Settings => Tidy
  BY DEF KeptOrAlone, Tidy
<1> QED
  BY <1>1, <1>2, <1>3, CourseAlways, PTL DEF Spec

LEMMA RecordedOne ==
    ASSUME Course, [Next]_vars
    PROVE  \/ Recorded' = Recorded
           \/ \E s \in Snapshot : s \notin Recorded /\ Recorded' = Recorded \cup {s}
<1>1. TypeOK
  BY DEF Course
<1>2. ASSUME UNCHANGED <<dir, now>>, NEW at \in 0 .. now, NEW r \in Runs(at), log' = log \cup {r}
      PROVE  \E s \in Snapshot : s \notin Recorded /\ Recorded' = Recorded \cup {s}
  BY <1>1, <1>2, RecordedMore
<1>3. log' = log => Recorded' = Recorded
  BY DEF Recorded
<1>4. now \in 0 .. now
  BY HistoryAssumption DEF Course, TypeOK, Time
<1>5. CASE Next
  <2>1. ASSUME NEW p \in dir.recorders, Record(p)
        PROVE  \E s \in Snapshot : s \notin Recorded /\ Recorded' = Recorded \cup {s}
    BY <1>2, <1>4, <1>5, <2>1 DEF Record, Next
  <2>2. ASSUME Arrive
        PROVE  \E s \in Snapshot : s \notin Recorded /\ Recorded' = Recorded \cup {s}
    BY <1>2, <1>5, <2>2 DEF Arrive, Next
  <2>3. ASSUME NEW p \in dir.recorders,
               \/ ListSnapshots(p) \/ LoadIndex(p) \/ OpenTmp(p) \/ FillTmp(p)
               \/ RenameTmp(p) \/ Prune(p) \/ Crash(p)
        PROVE  log' = log
    BY <2>3 DEF ListSnapshots, LoadIndex, OpenTmp, FillTmp, RenameTmp, Prune, Crash
  <2>4. Tick \/ DamageIndex => log' = log
    BY DEF Tick, DamageIndex
  <2> QED
    BY <1>3, <1>5, <2>1, <2>2, <2>3, <2>4 DEF Next
<1> QED
  BY <1>3, <1>5 DEF vars

\* Every reader, between any two steps, is told the ledger of every run recorded, with each
\* file read, written, pruned, damaged or half done; a run's ledger follows the one before
\* (history.rs, record, load, write_atomic and the pruning: "an index that is missing,
\* unreadable or out of step with them is rebuilt").
THEOREM LedgerIsKept == ASSUME KeptOrAlone PROVE Spec => ImplementsLedger
<1> DEFINE told == View = Ledger!LedgerOf(Recorded)
<1>1. Course => told
  BY ViewIs
<1>2. Init => Ledger!Init
  <2> SUFFICES ASSUME Init PROVE Ledger!Init
    OBVIOUS
  <2>1. Recorded = {} /\ Course
    BY CourseAtFirst DEF Init, Recorded
  <2>2. View = [k \in Told({}) |-> Entry({}, k)]
    BY <2>1, ViewIs
  <2>3. View = <<>>
    BY <2>2 DEF Told
  <2> QED
    BY <2>1, <2>3 DEF Ledger!Init
<1>3. ASSUME Course, told, told', [Next]_vars
      PROVE  [Ledger!Next]_(Ledger!ledgerVars)
  <2>1. CASE Recorded' = Recorded
    <3>1. View' = View
      BY <1>3, <2>1 DEF Ledger!LedgerOf, Ledger!Told, Ledger!Sightings, Ledger!Clean,
         Ledger!Comebacks
    <3> QED
      BY <2>1, <3>1 DEF Ledger!ledgerVars
  <2>2. CASE \E s \in Snapshot : s \notin Recorded /\ Recorded' = Recorded \cup {s}
    BY <1>3, <2>2 DEF Ledger!Next, Ledger!AddRun
  <2> QED
    BY <1>3, <2>1, <2>2, RecordedOne
<1> HIDE DEF told
<1>4. Course /\ told /\ told' /\ [Next]_vars => [Ledger!Next]_(Ledger!ledgerVars)
  BY <1>3
<1>5. Spec => []Course
  BY CourseKept
<1> QED
  BY <1>1, <1>2, <1>4, <1>5, PTL DEF Spec, ImplementsLedger, Ledger!Spec


\* Where every finding is Cargo's, what a run found is what its snapshot has.
AllCargo == \A k \in Real : k.eco = 0
TruthTold == \A r \in log : r.found \subseteq Touched(Saved(r))

LEMMA TruthGoesOn ==
    ASSUME AllCargo, Course, TruthTold, [Next]_vars PROVE TruthTold'
<1>1. dir \in Settings /\ now \in Nat /\ now \in Time /\ MaxTime \in Nat
  BY HistoryAssumption DEF Course, TypeOK, Time
<1>2. ASSUME NEW at \in 0 .. now, NEW r \in Runs(at), log' = log \cup {r} PROVE TruthTold'
  <2>1. at \in Time
    BY <1>1 DEF Time
  <2>2. r.found \subseteq Touched(Saved(r))
    BY <1>1, <1>2, <2>1, RunIsSnapshot DEF AllCargo
  <2> QED
    BY <1>2, <2>2 DEF TruthTold
<1>3. log' = log => TruthTold'
  BY DEF TruthTold
<1>4. CASE Next
  <2>1. ASSUME NEW p \in dir.recorders, Record(p) PROVE TruthTold'
    BY <1>1, <1>2, <2>1 DEF Record
  <2>2. Arrive => TruthTold'
    BY <1>2 DEF Arrive
  <2>3. ASSUME NEW p \in dir.recorders,
               \/ ListSnapshots(p) \/ LoadIndex(p) \/ OpenTmp(p) \/ FillTmp(p)
               \/ RenameTmp(p) \/ Prune(p) \/ Crash(p)
        PROVE  log' = log
    BY <2>3 DEF ListSnapshots, LoadIndex, OpenTmp, FillTmp, RenameTmp, Prune, Crash
  <2>4. Tick \/ DamageIndex => log' = log
    BY DEF Tick, DamageIndex
  <2> QED
    BY <1>3, <1>4, <2>1, <2>2, <2>3, <2>4 DEF Next
<1> QED
  BY <1>3, <1>4 DEF vars

LEMMA FixedIsGone == ASSUME Course, TruthTold PROVE FixedMeansGone
<1> DEFINE L == Recorded
<1>1. Orderly(L) /\ View = [k \in Told(L) |-> Entry(L, k)]
  BY ViewIs DEF Course, TypeOK
<1> SUFFICES ASSUME NEW k \in Told(L), Entry(L, k).status = "fixed"
             PROVE  \E r \in log : /\ r.at = Entry(L, k).fixed /\ k \notin r.found
                                   /\ k.repo \in Trustworthy(r)
  BY <1>1 DEF FixedMeansGone
<1>2. Gone(L, k) # {} /\ Entry(L, k).fixed = Oldest(Gone(L, k)).at
  BY DEF Entry
<1>3. PICK c \in Gone(L, k) : Entry(L, k).fixed = c.at
  BY <1>1, <1>2, SubsetsOrderly, OldestIsOldest
<1>4. c \in L /\ c.exit # 2 /\ k.repo \in c.read /\ k \notin Touched(c)
  BY DEF Gone, Clean
<1>5. PICK r \in log : c = Saved(r)
  BY <1>4 DEF Recorded
<1>6. c.at = r.at /\ c.exit = r.exit /\ c.read = r.read
  BY <1>5 DEF Saved
<1>7. r.found \subseteq Touched(c)
  BY <1>5 DEF TruthTold
<1> QED
  BY <1>3, <1>4, <1>6, <1>7 DEF Trustworthy

\* A finding that readers are told is fixed was gone from a run that can be trusted for its
\* repository, at the time it is said to be fixed since (fold, history.rs:259).
THEOREM FixedOnlyWhenGone ==
    ASSUME KeptOrAlone, AllCargo PROVE Spec => []FixedMeansGone
<1>1. Init => TruthTold
  BY DEF Init, TruthTold
<1>2. Course /\ TruthTold /\ [Next]_vars => TruthTold'
  BY TruthGoesOn
<1>3. Course /\ TruthTold => FixedMeansGone
  BY FixedIsGone
<1>4. Spec => []Course
  BY CourseKept
<1> QED
  BY <1>1, <1>2, <1>3, <1>4, PTL DEF Spec

\* What changes() compares: the newest snapshot against the ledger of those before it.
LEMMA NewFindingsAre ==
    ASSUME Course, disk # {}
    PROVE  LET l == Newest(disk)
               D == disk \ {l}
           IN  NewFindings = {k \in Told(Recorded) :
                   /\ Entry(Recorded, k).status = "open"
                   /\ IF k \in Told(D) THEN Entry(D, k).status # "open"
                      ELSE Entry(Recorded, k).first = l.at}
<1> DEFINE l == Newest(disk)
           D == disk \ {l}
           now1 == [k \in Told(Recorded) |-> Entry(Recorded, k)]
           before == [k \in Told(D) |-> Entry(D, k)]
<1>1. Orderly(D)
  BY OrderlySubset DEF Course, TypeOK
<1>2. Rebuild(D, Empty) = Index(D)
  <2>1. Empty = Index({}) /\ {} \in SUBSET D
    BY EmptyIsIndex
  <2> HIDE DEF D
  <2> QED
    BY <1>1, <2>1, RebuildIs
<1>3. Rebuild(D, Empty).entries = before
  BY <1>2 DEF Index
<1>4. View = now1
  BY ViewIs
<1>5. NewFindings = {k \in DOMAIN now1 : /\ now1[k].status = "open"
                                         /\ IF k \in DOMAIN before THEN before[k].status # "open"
                                            ELSE now1[k].first = l.at}
  <2> HIDE DEF now1, before
  <2> QED
    BY <1>3, <1>4 DEF NewFindings
<1> QED
  BY <1>5

LEMMA OpenBeforeIs ==
    ASSUME Course
    PROVE  LET B == Recorded \ {Newest(Recorded)}
           IN  OpenBefore = {k \in Told(B) : Entry(B, k).status = "open"}
BY LedgerIs DEF OpenBefore


LEMMA NoNewsLost == ASSUME Course PROVE NewIsReported
<1> SUFFICES ASSUME dir.keep = 0, disk # {},
                    NEW k \in DOMAIN View \ (OpenBefore \cup NewFindings),
                    View[k].status = "open"
             PROVE  FALSE
  BY DEF NewIsReported
<1> DEFINE L == Recorded
           l == Newest(L)
           B == L \ {l}
<1>1. disk = L /\ Orderly(L) /\ L # {}
  BY DEF Course, AllKept, TypeOK
<1>2. k \in Told(L) /\ Entry(L, k).status = "open"
  BY ViewIs
<1>3. k \notin OpenBefore /\ k \notin NewFindings
  OBVIOUS
<1>4. ~(k \in Told(B) /\ Entry(B, k).status = "open")
  BY <1>3, OpenBeforeIs
<1>5. ~(IF k \in Told(B) THEN Entry(B, k).status # "open" ELSE Entry(L, k).first = l.at)
  BY <1>1, <1>2, <1>3, NewFindingsAre
<1>6. k \notin Told(B) /\ Entry(L, k).first # l.at
  BY <1>4, <1>5
<1>7. k \in Touched(l)
  BY <1>1, <1>2, <1>6 DEF Told
<1>8. Entry(L, k).first = l.at
  BY <1>1, <1>6, <1>7, SightedLast
<1> QED
  BY <1>6, <1>8

\* In a directory that keeps every snapshot, `notify` and the reports leave no news out,
\* whatever machines write, share or damage it (changes, history.rs:973: "Open now and not
\* open before: first seen, back after a fix, or no longer ignored").
THEOREM NewsIsNotLost == Spec => []NewIsReported
<1>1. (Tidy => Course) => NewIsReported
  <2>1. dir.keep # 0 => NewIsReported
    BY DEF NewIsReported
  <2> QED
    BY <2>1, NoNewsLost DEF Tidy
<1> QED
  BY <1>1, CourseAlways, PTL

\* The runs that are left, when they are the latest ones, say of a finding they have what all
\* of them say.
LEMMA SuffixTells ==
    ASSUME NEW B, Orderly(B), NEW D \in SUBSET B, NEW k, k \in Told(D),
           \A r \in B, s \in D : Before(s, r) => r \in D
    PROVE  Entry(D, k).status = Entry(B, k).status
<1> DEFINE n == Newest(Sightings(D, k))
<1>1. Orderly(D)
  BY OrderlySubset
<1>2. Orderly(Sightings(D, k)) /\ Orderly(Sightings(B, k)) /\ Sightings(D, k) # {}
  <2>1. Orderly(Sightings(D, k)) /\ Orderly(Sightings(B, k))
    BY <1>1, SubsetsOrderly
  <2>2. Sightings(D, k) # {}
    BY DEF Told, Sightings
  <2> QED
    BY <2>1, <2>2
<1>3. n \in Sightings(D, k) /\ IsNewest(n, Sightings(D, k))
  BY <1>2, NewestIsNewest
<1> HIDE DEF n
<1>4. n \in D /\ n \in Sightings(B, k)
  BY <1>3 DEF Sightings
<1>5. IsNewest(n, Sightings(B, k))
  <2> SUFFICES ASSUME NEW s \in Sightings(B, k), s # n PROVE Before(s, n)
    BY DEF IsNewest
  <2>1. s \in B /\ n \in B /\ k \in Touched(s)
    BY <1>4 DEF Sightings
  <2>2. Before(s, n) \/ Before(n, s)
    BY <2>1, OrderlyTotal
  <2>3. ASSUME Before(n, s) PROVE Before(s, n)
    <3>1. s \in Sightings(D, k)
      BY <1>4, <2>1, <2>3 DEF Sightings
    <3> QED
      BY <1>3, <3>1 DEF IsNewest
  <2> QED
    BY <2>2, <2>3
<1>6. Newest(Sightings(B, k)) = n
  <2>1. Sightings(B, k) # {}
    BY <1>4
  <2> QED
    BY <1>2, <1>4, <1>5, <2>1, NewestIsNewest
<1>7. Gone(D, k) = Gone(B, k)
  <2>1. Gone(D, k) = {c \in Clean(D, k) : Before(n, c)}
    BY DEF Gone, n
  <2>2. Gone(B, k) = {c \in Clean(B, k) : Before(n, c)}
    BY <1>6 DEF Gone
  <2> QED
    BY <1>4, <2>1, <2>2 DEF Clean
<1> QED
  BY <1>6, <1>7 DEF Entry, n

LEMMA NoOldNews ==
    ASSUME Tidy, Course PROVE OldIsNotNew
<1> SUFFICES ASSUME disk # {}, Suffix, NEW k \in OpenBefore, k \in NewFindings PROVE FALSE
  BY DEF OldIsNotNew
<1> DEFINE L == Recorded
           l == Newest(L)
           B == L \ {l}
           D == disk \ {l}
<1>1. Orderly(L) /\ disk \in SUBSET L /\ L # {}
  BY DEF Course, TypeOK
<1>2. l \in L /\ IsNewest(l, L)
  BY <1>1, NewestIsNewest
<1>3. l \in disk
  BY <1>1, <1>2 DEF IsNewest, Suffix
<1>4. Newest(disk) = l
  <2>1. Orderly(disk) /\ IsNewest(l, disk)
    BY <1>1, <1>2, OrderlySubset DEF IsNewest
  <2> QED
    BY <1>3, <2>1, NewestIsNewest
<1>5. k \in Told(B) /\ Entry(B, k).status = "open"
  BY OpenBeforeIs
<1>6. IF k \in Told(D) THEN Entry(D, k).status # "open" ELSE Entry(L, k).first = l.at
  <2> HIDE DEF l
  <2> QED
    BY <1>4, NewFindingsAre
<1>7. Orderly(B) /\ D \in SUBSET B /\ B \in SUBSET L
  BY <1>1, OrderlySubset
<1>8. CASE k \in Told(D)
  <2>1. \A r \in B, s \in D : Before(s, r) => r \in D
    BY DEF Suffix
  <2>2. Entry(D, k).status = Entry(B, k).status
    <3> HIDE DEF B, D
    <3> QED
      BY <1>7, <1>8, <2>1, SuffixTells
  <2> QED
    BY <1>5, <1>6, <1>8, <2>2
<1>9. CASE k \notin Told(D)
  <2>1. dir.keep # 0
    <3>1. dir.keep = 0 => disk = L
      BY DEF Course, AllKept
    <3> QED
      BY <1>5, <1>9, <3>1
  <2>2. \A g \in dir.hashes, h \in dir.hashes : g = h
    BY <2>1 DEF Tidy, Alone
  <2>3. PICK b \in B : k \in Touched(b)
    BY <1>5 DEF Told
  <2> DEFINE o == Oldest(Sightings(B, k))
  <2>4. o \in Sightings(B, k)
    <3>1. Orderly(Sightings(B, k)) /\ Sightings(B, k) # {}
      <4>1. Orderly(Sightings(B, k))
        BY <1>7, SubsetsOrderly
      <4>2. b \in Sightings(B, k)
        BY <2>3 DEF Sightings
      <4> QED
        BY <4>1, <4>2
    <3> QED
      BY <3>1, OldestIsOldest
  <2>5. o \in B
    BY <2>4 DEF Sightings
  <2>6. Before(o, l) /\ o \in L
    BY <1>2, <2>5 DEF IsNewest
  <2>7. o.hash \in dir.hashes /\ l.hash \in dir.hashes
    BY <1>2, <2>6 DEF Course, TypeOK
  <2> HIDE DEF o, l
  <2>8. o.at < l.at
    <3>1. o.hash = l.hash /\ o.hash \in Nat
      BY <1>1, <2>2, <2>6, <2>7, SnapshotTime DEF Orderly
    <3> QED
      BY <2>6, <3>1 DEF Before
  <2>9. o.at \in Nat /\ l.at \in Nat
    BY <1>1, <1>2, <2>6, SnapshotTime DEF Orderly
  <2>10. Entry(B, k).first = o.at
    BY DEF Entry, o
  <2>11. Entry(L, k).first <= Entry(B, k).first /\ Entry(L, k).first \in Nat
    <3> HIDE DEF B
    <3> QED
      BY <1>1, <1>5, <1>7, FirstGrows
  <2> QED
    BY <1>6, <1>9, <2>8, <2>9, <2>10, <2>11
<1> QED
  BY <1>8, <1>9

\* What was open before is not told as new, whatever retention has pruned, as long as it
\* pruned the older snapshots first (changes, history.rs:975: "a gap run in between never
\* makes old findings look new").
THEOREM OldIsNotTold == ASSUME KeptOrAlone PROVE Spec => []OldIsNotNew
<1>1. Tidy /\ Course => OldIsNotNew
  BY NoOldNews
<1>2. Course => dir \in Settings
  BY DEF Course, TypeOK
<1>3. dir \in Settings => Tidy
  BY DEF KeptOrAlone, Tidy
<1>4. Spec => []Course
  BY CourseKept
<1> QED
  BY <1>1, <1>2, <1>3, <1>4, PTL

=============================================================================
