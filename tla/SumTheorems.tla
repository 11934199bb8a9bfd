---------------------------- MODULE SumTheorems ----------------------------
(***************************************************************************)
(* Sums of a function over a finite set, as the community modules define   *)
(* them: SumFunctionOnSet takes the members out of the set one by one, in  *)
(* an order that CHOOSE decides.  What the proofs about orders and prices  *)
(* need of it: the order does not matter, the sum is monotone, and it      *)
(* changes by as much as one of its terms does.                            *)
(*                                                                         *)
(* The definition is recursive; each fact is proved of a smallest set that *)
(* would refute it.                                                        *)
(***************************************************************************)
EXTENDS Functions, FiniteSetTheorems, WellFoundedInduction, Integers, TLAPS

\* Among subsets of a finite set there is one that contains no other of them.
LEMMA MinimalSubset ==
    ASSUME NEW S, IsFiniteSet(S), NEW T, T \subseteq SUBSET S, T # {}
    PROVE  \E m \in T : \A u \in SUBSET m : u \in T => u = m
<1>1. IsWellFoundedOn(StrictSubsetOrdering(S), SUBSET S)
  BY FS_StrictSubsetOrderingWellFounded, FS_FiniteSubsetsOfFinite
<1>2. PICK m \in T : \A u \in T : ~(<<u, m>> \in StrictSubsetOrdering(S))
  BY <1>1, WFMin
<1>3. ASSUME NEW u \in SUBSET m, u \in T
      PROVE  u = m
  BY <1>2, <1>3 DEF StrictSubsetOrdering
<1> QED
  BY <1>3

-----------------------------------------------------------------------------
(* The sum as it is computed *)

\* The member that is taken out first.
Picked(s) == CHOOSE x \in s : TRUE

\* g tells the sum of f over every subset of S.
IsTable(f, g, S) ==
    g = [s \in SUBSET S |-> IF s = {} THEN 0
                            ELSE f[Picked(s)] + g[s \ {Picked(s)}]]

\* The sum over S is what the table of the sums over the subsets of S says.
LEMMA SumIsInTable ==
    ASSUME NEW f, NEW S
    PROVE  SumFunctionOnSet(f, S) = (CHOOSE g : IsTable(f, g, S))[S]
  BY DEF SumFunctionOnSet, FoldFunctionOnSet, MapThenFoldSet, IsTable, Picked

\* Something can be taken out of a set that is not empty.
LEMMA PickedIsMember ==
    ASSUME NEW s, s # {}
    PROVE  Picked(s) \in s
  BY DEF Picked

\* Two tables agree on the sets that both of them have.
LEMMA TablesAgree ==
    ASSUME NEW f, NEW A, NEW B, IsFiniteSet(A), NEW g, NEW h,
           IsTable(f, g, A), IsTable(f, h, B)
    PROVE  \A s \in SUBSET A : s \in SUBSET B => g[s] = h[s]
<1> DEFINE T == {s \in SUBSET A : s \in SUBSET B /\ g[s] # h[s]}
<1> SUFFICES ASSUME T # {}
             PROVE  FALSE
  OBVIOUS
<1>1. PICK m \in T : \A u \in SUBSET m : u \in T => u = m
  <2> HIDE DEF T
  <2>1. T \subseteq SUBSET A
    BY DEF T
  <2> QED
    BY <2>1, MinimalSubset
<1>2. m \in SUBSET A /\ m \in SUBSET B /\ g[m] # h[m]
  OBVIOUS
<1>3. CASE m = {}
  BY <1>2, <1>3 DEF IsTable
<1>4. CASE m # {}
  <2> DEFINE u == m \ {Picked(m)}
  <2>1. Picked(m) \in m
    BY <1>4, PickedIsMember
  <2>2. u \in SUBSET m /\ u # m
    BY <2>1
  <2>3. g[u] = h[u]
    BY <1>1, <1>2, <2>2
  <2>4. g[m] = f[Picked(m)] + g[u] /\ h[m] = f[Picked(m)] + h[u]
    BY <1>2, <1>4 DEF IsTable
  <2> QED
    BY <1>2, <2>3, <2>4
<1> QED
  BY <1>3, <1>4

\* There is a table of the subsets of a finite set.
LEMMA TableExists ==
    ASSUME NEW f, NEW S, IsFiniteSet(S)
    PROVE  \E g : IsTable(f, g, S)
<1> DEFINE T == {s \in SUBSET S : ~\E g : IsTable(f, g, s)}
<1> SUFFICES ASSUME T # {}
             PROVE  FALSE
  OBVIOUS
<1>1. PICK m \in T : \A u \in SUBSET m : u \in T => u = m
  <2> HIDE DEF T
  <2>1. T \subseteq SUBSET S
    BY DEF T
  <2> QED
    BY <2>1, MinimalSubset
<1>2. m \in SUBSET S /\ ~\E g : IsTable(f, g, m)
  OBVIOUS
<1> DEFINE tab(u) == CHOOSE g : IsTable(f, g, u)
           rest(s) == s \ {Picked(s)}
           all == [s \in SUBSET m |-> IF s = {} THEN 0
                                      ELSE f[Picked(s)] + tab(rest(s))[rest(s)]]
<1>3. ASSUME NEW s \in SUBSET m, s # {}
      PROVE  /\ rest(s) \in SUBSET m /\ IsTable(f, tab(rest(s)), rest(s))
             /\ IsFiniteSet(rest(s)) /\ rest(s) # s
  <2>1. Picked(s) \in s
    BY <1>3, PickedIsMember
  <2>2. rest(s) \in SUBSET m /\ rest(s) # m /\ rest(s) \in SUBSET S /\ rest(s) # s
    BY <1>2, <1>3, <2>1
  <2>3. \E g : IsTable(f, g, rest(s))
    BY <1>1, <2>2
  <2>4. IsFiniteSet(rest(s))
    BY <2>2, FS_Subset
  <2>5. IsTable(f, tab(rest(s)), rest(s))
    <3> HIDE DEF rest
    <3> QED
      BY <2>3
  <2> QED
    BY <2>2, <2>4, <2>5
<1>4. ASSUME NEW s \in SUBSET m, s # {}
      PROVE  all[rest(s)] = tab(rest(s))[rest(s)]
  <2> DEFINE r == rest(s)
  <2>1. r \in SUBSET m /\ IsTable(f, tab(r), r) /\ IsFiniteSet(r)
    BY <1>3, <1>4
  <2> HIDE DEF r, rest, tab
  <2>2. ASSUME r = {}
        PROVE  all[r] = tab(r)[r]
    BY <2>1, <2>2 DEF IsTable
  <2>3. ASSUME r # {}
        PROVE  all[r] = tab(r)[r]
    <3>1. rest(r) \in SUBSET m /\ IsTable(f, tab(rest(r)), rest(r)) /\ IsFiniteSet(rest(r))
      BY <1>3, <2>1, <2>3
    <3>2. rest(r) \in SUBSET r
      BY DEF rest
    <3>3. tab(r)[rest(r)] = tab(rest(r))[rest(r)]
      BY <2>1, <3>1, <3>2, TablesAgree
    <3>4. tab(r)[r] = f[Picked(r)] + tab(r)[rest(r)]
      BY <2>1, <2>3 DEF IsTable, rest
    <3>5. all[r] = f[Picked(r)] + tab(rest(r))[rest(r)]
      BY <2>1, <2>3
    <3> QED
      BY <3>3, <3>4, <3>5
  <2> QED
    BY <2>2, <2>3 DEF r
<1>5. \A s \in SUBSET m : all[s] = IF s = {} THEN 0 ELSE f[Picked(s)] + all[rest(s)]
  <2> HIDE DEF rest, tab
  <2> QED
    BY <1>4
<1>6. IsTable(f, all, m)
  <2>1. all = [s \in SUBSET m |-> all[s]]
    OBVIOUS
  <2> HIDE DEF all
  <2> QED
    BY <1>5, <2>1 DEF IsTable
<1> QED
  BY <1>2, <1>6

-----------------------------------------------------------------------------
(* What the sum is *)

\* The sum over a finite set is one of its members more than the sum over the rest.
LEMMA SumPicks ==
    ASSUME NEW f, NEW S, IsFiniteSet(S), S # {}
    PROVE  SumFunctionOnSet(f, S) =
             f[Picked(S)] + SumFunctionOnSet(f, S \ {Picked(S)})
<1> DEFINE tab(s) == CHOOSE g : IsTable(f, g, s)
           R == S \ {Picked(S)}
<1>1. IsFiniteSet(R) /\ R \in SUBSET S
  BY FS_Subset
<1>2. IsTable(f, tab(S), S) /\ IsTable(f, tab(R), R)
  <2> HIDE DEF R
  <2> QED
    BY <1>1, TableExists
<1>3. tab(S)[R] = tab(R)[R]
  <2> HIDE DEF R, tab
  <2> QED
    BY <1>1, <1>2, TablesAgree
<1>4. tab(S)[S] = f[Picked(S)] + tab(S)[R]
  <2> HIDE DEF tab
  <2> QED
    BY <1>2 DEF IsTable
<1> QED
  BY <1>3, <1>4, SumIsInTable

\* Nothing sums up to 0.
LEMMA SumOfNothing ==
    ASSUME NEW f
    PROVE  SumFunctionOnSet(f, {}) = 0
<1> DEFINE tab == CHOOSE g : IsTable(f, g, {})
<1>1. IsTable(f, tab, {})
  BY FS_EmptySet, TableExists
<1>2. tab[{}] = 0
  <2> HIDE DEF tab
  <2> QED
    BY <1>1 DEF IsTable
<1> QED
  BY <1>2, SumIsInTable

\* Integers add up to an integer.
LEMMA SumIsInt ==
    ASSUME NEW f, NEW S, IsFiniteSet(S), \A x \in S : f[x] \in Int
    PROVE  SumFunctionOnSet(f, S) \in Int
<1> DEFINE T == {s \in SUBSET S : SumFunctionOnSet(f, s) \notin Int}
<1> SUFFICES ASSUME T # {}
             PROVE  FALSE
  OBVIOUS
<1>1. PICK m \in T : \A u \in SUBSET m : u \in T => u = m
  <2> HIDE DEF T
  <2>1. T \subseteq SUBSET S
    BY DEF T
  <2> QED
    BY <2>1, MinimalSubset
<1>2. m \in SUBSET S /\ SumFunctionOnSet(f, m) \notin Int /\ m # {} /\ IsFiniteSet(m)
  <2>1. m \in SUBSET S /\ SumFunctionOnSet(f, m) \notin Int
    OBVIOUS
  <2>2. m # {}
    BY <2>1, SumOfNothing
  <2> QED
    BY <2>1, <2>2, FS_Subset
<1>3. Picked(m) \in m
  BY <1>2, PickedIsMember
<1>4. SumFunctionOnSet(f, m \ {Picked(m)}) \in Int
  BY <1>1, <1>2, <1>3
<1>5. f[Picked(m)] \in Int
  BY <1>2, <1>3
<1> QED
  BY <1>2, <1>4, <1>5, SumPicks

\* Whichever member is taken out, the sum is that much more than the sum of the
\* rest: what the averages and the contracts of all orders add up to does not
\* depend on the order in which they are added.
LEMMA SumTakesOut ==
    ASSUME NEW f, NEW S, IsFiniteSet(S), \A y \in S : f[y] \in Int, NEW x \in S
    PROVE  SumFunctionOnSet(f, S) = f[x] + SumFunctionOnSet(f, S \ {x})
<1> DEFINE T == {s \in SUBSET S :
                   \E y \in s : SumFunctionOnSet(f, s)
                                  # f[y] + SumFunctionOnSet(f, s \ {y})}
<1> SUFFICES ASSUME T # {}
             PROVE  FALSE
  OBVIOUS
<1>1. PICK m \in T : \A u \in SUBSET m : u \in T => u = m
  <2> HIDE DEF T
  <2>1. T \subseteq SUBSET S
    BY DEF T
  <2> QED
    BY <2>1, MinimalSubset
<1>2. PICK y \in m : SumFunctionOnSet(f, m) # f[y] + SumFunctionOnSet(f, m \ {y})
  OBVIOUS
<1>3. m \in SUBSET S /\ m # {} /\ IsFiniteSet(m)
  BY <1>2, FS_Subset
<1> DEFINE c == Picked(m)
           both == (m \ {c}) \ {y}
<1>4. c \in m /\ SumFunctionOnSet(f, m) = f[c] + SumFunctionOnSet(f, m \ {c})
  BY <1>3, PickedIsMember, SumPicks
<1>5. y # c
  BY <1>2, <1>4
<1>6. SumFunctionOnSet(f, m \ {c}) = f[y] + SumFunctionOnSet(f, both)
  <2>1. m \ {c} \in SUBSET m /\ m \ {c} # m /\ m \ {c} \in SUBSET S /\ y \in m \ {c}
    BY <1>3, <1>4, <1>5
  <2>2. m \ {c} \notin T
    BY <1>1, <2>1
  <2> QED
    BY <2>1, <2>2
<1>7. SumFunctionOnSet(f, m \ {y}) = f[c] + SumFunctionOnSet(f, both)
  <2>1. m \ {y} \in SUBSET m /\ m \ {y} # m /\ m \ {y} \in SUBSET S /\ c \in m \ {y}
    BY <1>3, <1>4, <1>5
  <2>2. m \ {y} \notin T
    BY <1>1, <1>2, <2>1
  <2>3. (m \ {y}) \ {c} = both
    OBVIOUS
  <2> QED
    BY <2>1, <2>2, <2>3
<1>8. SumFunctionOnSet(f, both) \in Int
  <2>1. both \in SUBSET S
    BY <1>3
  <2> HIDE DEF both
  <2> QED
    BY <2>1, FS_Subset, SumIsInt
<1>9. f[y] \in Int /\ f[c] \in Int
  BY <1>2, <1>3, <1>4
<1> QED
  BY <1>2, <1>4, <1>6, <1>7, <1>8, <1>9

\* What is at most as much for each member is at most as much in sum.
LEMMA SumAtMost ==
    ASSUME NEW f, NEW g, NEW S, IsFiniteSet(S),
           \A x \in S : f[x] \in Int /\ g[x] \in Int /\ f[x] <= g[x]
    PROVE  SumFunctionOnSet(f, S) <= SumFunctionOnSet(g, S)
<1> DEFINE T == {s \in SUBSET S : ~(SumFunctionOnSet(f, s) <= SumFunctionOnSet(g, s))}
<1> SUFFICES ASSUME T # {}
             PROVE  FALSE
  OBVIOUS
<1>1. PICK m \in T : \A u \in SUBSET m : u \in T => u = m
  <2> HIDE DEF T
  <2>1. T \subseteq SUBSET S
    BY DEF T
  <2> QED
    BY <2>1, MinimalSubset
<1>2. m \in SUBSET S /\ ~(SumFunctionOnSet(f, m) <= SumFunctionOnSet(g, m))
      /\ m # {} /\ IsFiniteSet(m)
  <2>1. m \in SUBSET S /\ ~(SumFunctionOnSet(f, m) <= SumFunctionOnSet(g, m))
    OBVIOUS
  <2>2. m # {}
    BY <2>1, SumOfNothing
  <2> QED
    BY <2>1, <2>2, FS_Subset
<1> DEFINE c == Picked(m)
           u == m \ {c}
<1>3. c \in m /\ u \in SUBSET m /\ u # m /\ u \in SUBSET S /\ IsFiniteSet(u)
  BY <1>2, PickedIsMember, FS_Subset
<1>4. SumFunctionOnSet(f, u) <= SumFunctionOnSet(g, u)
  BY <1>1, <1>3
<1>5. /\ SumFunctionOnSet(f, m) = f[c] + SumFunctionOnSet(f, u)
      /\ SumFunctionOnSet(g, m) = g[c] + SumFunctionOnSet(g, u)
  BY <1>2, SumPicks
<1>6. f[c] \in Int /\ g[c] \in Int /\ f[c] <= g[c]
  BY <1>2, <1>3
<1>7. SumFunctionOnSet(f, u) \in Int /\ SumFunctionOnSet(g, u) \in Int
  <2> HIDE DEF u
  <2> QED
    BY <1>3, SumIsInt
<1> QED
  BY <1>2, <1>4, <1>5, <1>6, <1>7

\* Natural numbers add up to one.
LEMMA SumNotNegative ==
    ASSUME NEW f, NEW S, IsFiniteSet(S), \A x \in S : f[x] \in Nat
    PROVE  SumFunctionOnSet(f, S) \in Nat
<1> DEFINE T == {s \in SUBSET S : SumFunctionOnSet(f, s) \notin Nat}
<1> SUFFICES ASSUME T # {}
             PROVE  FALSE
  OBVIOUS
<1>1. PICK m \in T : \A u \in SUBSET m : u \in T => u = m
  <2> HIDE DEF T
  <2>1. T \subseteq SUBSET S
    BY DEF T
  <2> QED
    BY <2>1, MinimalSubset
<1>2. m \in SUBSET S /\ SumFunctionOnSet(f, m) \notin Nat /\ m # {} /\ IsFiniteSet(m)
  <2>1. m \in SUBSET S /\ SumFunctionOnSet(f, m) \notin Nat
    OBVIOUS
  <2>2. m # {}
    BY <2>1, SumOfNothing
  <2> QED
    BY <2>1, <2>2, FS_Subset
<1>3. Picked(m) \in m
  BY <1>2, PickedIsMember
<1>4. SumFunctionOnSet(f, m \ {Picked(m)}) \in Nat
  BY <1>1, <1>2, <1>3
<1>5. f[Picked(m)] \in Nat
  BY <1>2, <1>3
<1> QED
  BY <1>2, <1>4, <1>5, SumPicks

\* Zeros add up to 0.
LEMMA SumOfZeros ==
    ASSUME NEW f, NEW S, IsFiniteSet(S), \A x \in S : f[x] = 0
    PROVE  SumFunctionOnSet(f, S) = 0
<1> DEFINE T == {s \in SUBSET S : SumFunctionOnSet(f, s) # 0}
<1> SUFFICES ASSUME T # {}
             PROVE  FALSE
  OBVIOUS
<1>1. PICK m \in T : \A u \in SUBSET m : u \in T => u = m
  <2> HIDE DEF T
  <2>1. T \subseteq SUBSET S
    BY DEF T
  <2> QED
    BY <2>1, MinimalSubset
<1>2. m \in SUBSET S /\ SumFunctionOnSet(f, m) # 0 /\ m # {} /\ IsFiniteSet(m)
  <2>1. m \in SUBSET S /\ SumFunctionOnSet(f, m) # 0
    OBVIOUS
  <2>2. m # {}
    BY <2>1, SumOfNothing
  <2> QED
    BY <2>1, <2>2, FS_Subset
<1>3. Picked(m) \in m
  BY <1>2, PickedIsMember
<1>4. SumFunctionOnSet(f, m \ {Picked(m)}) = 0
  BY <1>1, <1>2, <1>3
<1>5. f[Picked(m)] = 0
  BY <1>2, <1>3
<1> QED
  BY <1>2, <1>4, <1>5, SumPicks

\* A change of one member changes the sum by as much.
LEMMA SumChanges ==
    ASSUME NEW f, NEW g, NEW S, IsFiniteSet(S), NEW x \in S,
           \A y \in S : f[y] \in Int /\ g[y] \in Int,
           \A y \in S \ {x} : g[y] = f[y]
    PROVE  SumFunctionOnSet(g, S) = SumFunctionOnSet(f, S) - f[x] + g[x]
<1> DEFINE R == S \ {x}
<1>1. IsFiniteSet(R)
  BY FS_Subset
<1>2. /\ SumFunctionOnSet(f, S) = f[x] + SumFunctionOnSet(f, R)
      /\ SumFunctionOnSet(g, S) = g[x] + SumFunctionOnSet(g, R)
  BY SumTakesOut
<1>3. \A y \in R : f[y] \in Int /\ g[y] \in Int /\ f[y] <= g[y] /\ g[y] <= f[y]
  OBVIOUS
<1> HIDE DEF R
<1>4. /\ SumFunctionOnSet(f, R) \in Int /\ SumFunctionOnSet(g, R) \in Int
      /\ SumFunctionOnSet(f, R) <= SumFunctionOnSet(g, R)
      /\ SumFunctionOnSet(g, R) <= SumFunctionOnSet(f, R)
  BY <1>1, <1>3, SumIsInt, SumAtMost
<1> QED
  BY <1>2, <1>4

=============================================================================
