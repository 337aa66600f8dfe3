--------------------------- MODULE CountingProofs ---------------------------
(***************************************************************************)
(* Proofs about what counts: a tenant's usage (UsageMeter), for any number *)
(* of conversations, users, uploads and months, and the scores of a form   *)
(* (Scoring, ScorePreview), for every form, set of answers and scale.      *)
(* Both are sums.  A fact about sums over every finite set is proved by    *)
(* minimal counterexample: of the sets that refute it one has no refuting  *)
(* proper subset (strict inclusion of finite sets is well-founded), and    *)
(* taking one element away from it leaves a smaller counterexample.        *)
(***************************************************************************)
EXTENDS ScorePreview, FiniteSetTheorems, WellFoundedInduction, TLAPS

CONSTANTS Conversations, Users, Cap, Months, Uploads, Logins, Faulty  \* UsageMeter

VARIABLES now, metric, stored, last, seen, upload, login              \* UsageMeter

Usage == INSTANCE UsageMeter

-----------------------------------------------------------------------------
(* Sums *)

Pick(s) == CHOOSE x \in s : TRUE

\* g is the table of the sums of f over the subsets of S.
IsTable(g, f, S) ==
  g = [s \in SUBSET S |-> IF s = {} THEN 0 ELSE f[Pick(s)] + g[s \ {Pick(s)}]]

Table(f, S) == CHOOSE g : IsTable(g, f, S)

LEMMA PickIn == ASSUME NEW s, s # {} PROVE Pick(s) \in s
  BY DEF Pick

LEMMA SumIsTable == ASSUME NEW f, NEW S PROVE SumFunctionOnSet(f, S) = Table(f, S)[S]
  BY DEF SumFunctionOnSet, FoldFunctionOnSet, MapThenFoldSet, Table, IsTable, Pick

\* Of finite sets, a set of subsets that is not empty has a member with no other below.
LEMMA Smallest ==
  ASSUME NEW S, IsFiniteSet(S), NEW W \in SUBSET SUBSET S, W # {}
  PROVE  \E s \in W : \A t \in W : t \subseteq s => t = s
  <1> DEFINE R == StrictSubsetOrdering(S)
  <1>1. IsWellFoundedOn(R, SUBSET S)
    BY FS_StrictSubsetOrderingWellFounded, FS_FiniteSubsetsOfFinite
  <1>2. \E s \in W : \A t \in W : <<t, s>> \notin R
    <2> HIDE DEF R
    <2> QED
      BY <1>1, WFMin
  <1> QED
    BY <1>2 DEF StrictSubsetOrdering

LEMMA TablesAgree ==
  ASSUME NEW f, NEW S, IsFiniteSet(S), NEW T,
         NEW g, IsTable(g, f, S), NEW h, IsTable(h, f, T),
         NEW s, s \subseteq S, s \subseteq T
  PROVE  g[s] = h[s]
  <1> DEFINE W == {t \in SUBSET S : t \subseteq T /\ g[t] # h[t]}
  <1>1. SUFFICES ASSUME W # {} PROVE FALSE
    OBVIOUS
  <1>2. PICK t \in W : \A v \in W : v \subseteq t => v = t
    <2>1. W \in SUBSET SUBSET S
      OBVIOUS
    <2> HIDE DEF W
    <2> QED
      BY <1>1, <2>1, Smallest
  <1>3. t # {}
    BY <1>2 DEF IsTable
  <1>4. /\ g[t] = f[Pick(t)] + g[t \ {Pick(t)}]
        /\ h[t] = f[Pick(t)] + h[t \ {Pick(t)}]
    BY <1>2, <1>3 DEF IsTable
  <1>5. t \ {Pick(t)} \notin W
    BY <1>2, <1>3, PickIn
  <1> QED
    BY <1>2, <1>4, <1>5

LEMMA TableExists ==
  ASSUME NEW f, NEW S, IsFiniteSet(S), NEW T \in SUBSET S
  PROVE  \E g : IsTable(g, f, T)
  <1> DEFINE W == {t \in SUBSET S : ~ \E g : IsTable(g, f, t)}
  <1>1. SUFFICES ASSUME W # {} PROVE FALSE
    OBVIOUS
  <1>2. PICK t \in W : \A v \in W : v \subseteq t => v = t
    <2>1. W \in SUBSET SUBSET S
      OBVIOUS
    <2> HIDE DEF W
    <2> QED
      BY <1>1, <2>1, Smallest
  <1>3. \A v \in SUBSET t : v # t => IsTable(Table(f, v), f, v)
    BY <1>2 DEF Table
  <1> DEFINE rest(s) == s \ {Pick(s)}
             g == [s \in SUBSET t |-> IF s = {} THEN 0
                                      ELSE f[Pick(s)] + Table(f, rest(s))[rest(s)]]
  <1>4. ASSUME NEW s \in SUBSET t, s # {}
        PROVE  g[rest(s)] = Table(f, rest(s))[rest(s)]
    <2> DEFINE r == rest(s)
    <2>1. r \in SUBSET t /\ r # t /\ r \in SUBSET S
      BY <1>4, <1>2, PickIn
    <2>2. IsTable(Table(f, r), f, r)
      BY <2>1, <1>3
    <2>3. CASE r = {}
      BY <2>1, <2>2, <2>3 DEF IsTable
    <2>4. CASE r # {}
      <3>1. rest(r) \in SUBSET r /\ rest(r) # t /\ rest(r) \in SUBSET S
        BY <2>1, <2>4, PickIn
      <3>2. IsTable(Table(f, rest(r)), f, rest(r))
        BY <3>1, <2>1, <1>3
      <3>3. Table(f, r)[rest(r)] = Table(f, rest(r))[rest(r)]
        <4>1. IsFiniteSet(r)
          BY <2>1, FS_Subset
        <4> HIDE DEF r, rest
        <4> QED
          BY <2>2, <3>1, <3>2, <4>1, TablesAgree
      <3>4. Table(f, r)[r] = f[Pick(r)] + Table(f, r)[rest(r)]
        <4>1. r \in SUBSET r
          OBVIOUS
        <4> QED
          BY <2>2, <2>4, <4>1 DEF IsTable
      <3>5. g[r] = f[Pick(r)] + Table(f, rest(r))[rest(r)]
        BY <2>1, <2>4
      <3> QED
        BY <3>3, <3>4, <3>5
    <2> QED
      BY <2>3, <2>4
  <1>5. IsTable(g, f, t)
    <2>1. ASSUME NEW s \in SUBSET t
          PROVE  g[s] = IF s = {} THEN 0 ELSE f[Pick(s)] + g[s \ {Pick(s)}]
      BY <1>4
    <2>2. g = [s \in SUBSET t |-> g[s]]
      OBVIOUS
    <2> QED
      BY <2>1, <2>2 DEF IsTable
  <1> QED
    BY <1>5, <1>2

LEMMA SumEmpty == ASSUME NEW f PROVE SumFunctionOnSet(f, {}) = 0
  <1>1. IsFiniteSet({}) /\ {} \in SUBSET {}
    BY FS_EmptySet
  <1>2. IsTable(Table(f, {}), f, {})
    BY <1>1, TableExists DEF Table
  <1> QED
    BY <1>1, <1>2, SumIsTable DEF IsTable

LEMMA SumPick ==
  ASSUME NEW f, NEW S, IsFiniteSet(S), S # {}
  PROVE  SumFunctionOnSet(f, S) = f[Pick(S)] + SumFunctionOnSet(f, S \ {Pick(S)})
  <1> DEFINE r == S \ {Pick(S)}
  <1>1. IsTable(Table(f, S), f, S) /\ IsTable(Table(f, r), f, r)
    <2>1. S \in SUBSET S /\ r \in SUBSET S
      OBVIOUS
    <2> QED
      BY <2>1, TableExists DEF Table
  <1>2. Table(f, S)[r] = Table(f, r)[r]
    <2>1. r \subseteq S
      OBVIOUS
    <2> HIDE DEF r
    <2> QED
      BY <1>1, <2>1, TablesAgree
  <1>3. Table(f, S)[S] = f[Pick(S)] + Table(f, S)[r]
    <2>1. S \in SUBSET S
      OBVIOUS
    <2> QED
      BY <1>1, <2>1 DEF IsTable
  <1> QED
    BY <1>2, <1>3, SumIsTable

LEMMA SumType ==
  ASSUME NEW f, NEW S, IsFiniteSet(S), \A x \in S : f[x] \in Int
  PROVE  SumFunctionOnSet(f, S) \in Int
  <1> DEFINE W == {t \in SUBSET S : SumFunctionOnSet(f, t) \notin Int}
  <1>1. SUFFICES ASSUME W # {} PROVE FALSE
    OBVIOUS
  <1>2. PICK t \in W : \A v \in W : v \subseteq t => v = t
    <2>1. W \in SUBSET SUBSET S
      OBVIOUS
    <2> HIDE DEF W
    <2> QED
      BY <1>1, <2>1, Smallest
  <1>3. t # {}
    BY <1>2, SumEmpty
  <1>4. Pick(t) \in t /\ t \ {Pick(t)} \notin W
    BY <1>2, <1>3, PickIn
  <1>5. IsFiniteSet(t)
    BY FS_Subset
  <1> QED
    BY <1>2, <1>3, <1>4, <1>5, SumPick

\* Any element can be taken out first.
LEMMA SumRemove ==
  ASSUME NEW f, NEW S, IsFiniteSet(S), \A x \in S : f[x] \in Int, NEW x \in S
  PROVE  SumFunctionOnSet(f, S) = f[x] + SumFunctionOnSet(f, S \ {x})
  <1> DEFINE Sum(t) == SumFunctionOnSet(f, t)
             W == {t \in SUBSET S : \E y \in t : Sum(t) # f[y] + Sum(t \ {y})}
  <1>1. SUFFICES ASSUME W # {} PROVE FALSE
    OBVIOUS
  <1>2. PICK t \in W : \A v \in W : v \subseteq t => v = t
    <2>1. W \in SUBSET SUBSET S
      OBVIOUS
    <2> HIDE DEF W
    <2> QED
      BY <1>1, <2>1, Smallest
  <1>3. PICK y \in t : Sum(t) # f[y] + Sum(t \ {y})
    BY <1>2
  <1> DEFINE c == Pick(t)
  <1>4. c \in t /\ y # c
    <2>1. IsFiniteSet(t) /\ t # {}
      BY FS_Subset, <1>3
    <2> QED
      BY <2>1, <1>3, SumPick, PickIn
  <1>5. \A v \in SUBSET S : IsFiniteSet(v) /\ Sum(v) \in Int
    BY FS_Subset, SumType
  <1>6. Sum(t) = f[c] + Sum(t \ {c})
    BY <1>3, <1>5, SumPick
  <1>7. ASSUME NEW a \in t, NEW b \in t, a # b
        PROVE  Sum(t \ {a}) = f[b] + Sum((t \ {a}) \ {b})
    <2>1. t \ {a} \subseteq t /\ t \ {a} # t /\ t \ {a} \in SUBSET S
      OBVIOUS
    <2>2. t \ {a} \notin W
      BY <1>2, <2>1
    <2>3. b \in t \ {a}
      BY <1>7
    <2> QED
      BY <2>1, <2>2, <2>3
  <1>8. Sum(t \ {c}) = f[y] + Sum((t \ {c}) \ {y}) /\ Sum(t \ {y}) = f[c] + Sum((t \ {y}) \ {c})
    BY <1>3, <1>4, <1>7
  <1>9. Sum((t \ {c}) \ {y}) = Sum((t \ {y}) \ {c})
    <2>1. (t \ {c}) \ {y} = (t \ {y}) \ {c}
      OBVIOUS
    <2> QED
      BY <2>1
  <1>10. /\ f[c] \in Int /\ f[y] \in Int
         /\ Sum((t \ {y}) \ {c}) \in Int
    BY <1>3, <1>4, <1>5
  <1> HIDE DEF Sum, c, W
  <1> QED
    BY <1>3, <1>6, <1>8, <1>9, <1>10

LEMMA SumAdd ==
  ASSUME NEW f, NEW S, IsFiniteSet(S), NEW x, x \notin S,
         \A y \in S \cup {x} : f[y] \in Int
  PROVE  SumFunctionOnSet(f, S \cup {x}) = SumFunctionOnSet(f, S) + f[x]
  <1>1. IsFiniteSet(S \cup {x})
    BY FS_AddElement
  <1>2. SumFunctionOnSet(f, S \cup {x}) = f[x] + SumFunctionOnSet(f, S)
    <2>1. (S \cup {x}) \ {x} = S
      OBVIOUS
    <2>2. SumFunctionOnSet(f, S \cup {x}) = f[x] + SumFunctionOnSet(f, (S \cup {x}) \ {x})
      BY <1>1, SumRemove
    <2> QED
      BY <2>1, <2>2
  <1>3. SumFunctionOnSet(f, S) \in Int /\ f[x] \in Int
    BY SumType
  <1> QED
    BY <1>1, <1>2, <1>3

\* A sum depends on nothing but the summands, and grows with them.
LEMMA SumMonotonic ==
  ASSUME NEW f, NEW g, NEW S, IsFiniteSet(S),
         \A x \in S : f[x] \in Int /\ g[x] \in Int /\ f[x] <= g[x]
  PROVE  SumFunctionOnSet(f, S) <= SumFunctionOnSet(g, S)
  <1> DEFINE F(t) == SumFunctionOnSet(f, t)
             G(t) == SumFunctionOnSet(g, t)
             W == {t \in SUBSET S : ~(F(t) <= G(t))}
  <1>1. SUFFICES ASSUME W # {} PROVE FALSE
    OBVIOUS
  <1>2. PICK t \in W : \A v \in W : v \subseteq t => v = t
    <2>1. W \in SUBSET SUBSET S
      OBVIOUS
    <2> HIDE DEF W
    <2> QED
      BY <1>1, <2>1, Smallest
  <1>3. ~(F(t) <= G(t)) /\ IsFiniteSet(t)
    BY <1>2, FS_Subset
  <1>4. PICK x \in t : TRUE
    <2>1. F({}) = 0 /\ G({}) = 0
      BY SumEmpty
    <2>2. F({}) <= G({})
      BY <2>1
    <2> QED
      BY <1>3, <2>2
  <1>5. F(t \ {x}) <= G(t \ {x})
    BY <1>2, <1>4
  <1>6. F(t) = f[x] + F(t \ {x}) /\ G(t) = g[x] + G(t \ {x})
    BY <1>2, <1>3, <1>4, SumRemove
  <1>7. F(t \ {x}) \in Int /\ G(t \ {x}) \in Int /\ f[x] \in Int /\ g[x] \in Int /\ f[x] <= g[x]
    <2>1. IsFiniteSet(t \ {x})
      BY <1>3, FS_Subset
    <2> QED
      BY <1>2, <1>4, <2>1, SumType
  <1> HIDE DEF F, G
  <1> QED
    BY <1>3, <1>5, <1>6, <1>7

LEMMA SumSame ==
  ASSUME NEW f, NEW g, NEW S, IsFiniteSet(S), \A x \in S : f[x] \in Int /\ f[x] = g[x]
  PROVE  SumFunctionOnSet(f, S) = SumFunctionOnSet(g, S)
  <1>1. /\ \A x \in S : f[x] \in Int /\ g[x] \in Int /\ f[x] <= g[x]
        /\ \A x \in S : g[x] \in Int /\ f[x] \in Int /\ g[x] <= f[x]
    OBVIOUS
  <1>2. SumFunctionOnSet(f, S) <= SumFunctionOnSet(g, S)
    BY <1>1, SumMonotonic
  <1>3. SumFunctionOnSet(g, S) <= SumFunctionOnSet(f, S)
    BY <1>1, SumMonotonic
  <1>4. SumFunctionOnSet(f, S) \in Int /\ SumFunctionOnSet(g, S) \in Int
    BY <1>1, SumType
  <1> QED
    BY <1>2, <1>3, <1>4

\* k times each summand is k times the sum.
LEMMA SumScaled ==
  ASSUME NEW f, NEW g, NEW S, IsFiniteSet(S), NEW k \in Int,
         \A x \in S : f[x] \in Int /\ g[x] = k * f[x]
  PROVE  SumFunctionOnSet(g, S) = k * SumFunctionOnSet(f, S)
  <1> DEFINE F(t) == SumFunctionOnSet(f, t)
             G(t) == SumFunctionOnSet(g, t)
             W == {t \in SUBSET S : G(t) # k * F(t)}
  <1>1. SUFFICES ASSUME W # {} PROVE FALSE
    OBVIOUS
  <1>2. PICK t \in W : \A v \in W : v \subseteq t => v = t
    <2>1. W \in SUBSET SUBSET S
      OBVIOUS
    <2> HIDE DEF W
    <2> QED
      BY <1>1, <2>1, Smallest
  <1>3. G(t) # k * F(t) /\ IsFiniteSet(t)
    BY <1>2, FS_Subset
  <1>4. PICK x \in t : TRUE
    <2>1. F({}) = 0 /\ G({}) = 0
      BY SumEmpty
    <2>2. G({}) = k * F({})
      BY <2>1
    <2> QED
      BY <1>3, <2>2
  <1>5. G(t \ {x}) = k * F(t \ {x})
    BY <1>2, <1>4
  <1>6. F(t) = f[x] + F(t \ {x}) /\ G(t) = g[x] + G(t \ {x})
    <2>1. \A y \in t : f[y] \in Int /\ g[y] \in Int
      BY <1>2
    <2> QED
      BY <1>3, <1>4, <2>1, SumRemove
  <1>7. F(t \ {x}) \in Int /\ f[x] \in Int /\ g[x] = k * f[x]
    <2>1. IsFiniteSet(t \ {x})
      BY <1>3, FS_Subset
    <2> QED
      BY <1>2, <1>4, <2>1, SumType
  <1>8. \A a, b \in Int : k * (a + b) = k * a + k * b
    OBVIOUS
  <1> HIDE DEF F, G
  <1> QED
    BY <1>3, <1>5, <1>6, <1>7, <1>8

\* One summand changes, and the sum by as much.
LEMMA SumUpdate ==
  ASSUME NEW f, NEW g, NEW S, IsFiniteSet(S), NEW x \in S,
         \A y \in S : f[y] \in Int /\ g[y] \in Int,
         \A y \in S \ {x} : g[y] = f[y]
  PROVE  SumFunctionOnSet(g, S) = SumFunctionOnSet(f, S) + (g[x] - f[x])
  <1>1. IsFiniteSet(S \ {x})
    BY FS_Subset
  <1>2. SumFunctionOnSet(f, S \ {x}) = SumFunctionOnSet(g, S \ {x})
    BY <1>1, SumSame
  <1>3. SumFunctionOnSet(f, S) = f[x] + SumFunctionOnSet(f, S \ {x})
    BY SumRemove
  <1>4. SumFunctionOnSet(g, S) = g[x] + SumFunctionOnSet(g, S \ {x})
    BY SumRemove
  <1>5. SumFunctionOnSet(f, S \ {x}) \in Int /\ f[x] \in Int /\ g[x] \in Int
    BY <1>1, SumType
  <1> QED
    BY <1>2, <1>3, <1>4, <1>5
-----------------------------------------------------------------------------
(* UsageMeter: rows and slots *)

LEMMA SameCount == ASSUME NEW S PROVE Usage!Cardinality(S) = Cardinality(S)
  BY DEF Usage!Cardinality, Cardinality

UploadState ==
  {Usage!Idle}
    \cup [at : {"checked"}, batch : SUBSET Conversations]
    \cup [at : {"inserting"}, fresh : SUBSET Conversations]
    \cup [at : {"stored"}, count : 0 .. Cardinality(Conversations)]

LoginState ==
  {Usage!Idle} \cup [at : {"loaded"}, user : Users, previous : 0 .. Months]

Metric == [conversations : Nat, active : Nat]

UsageTypes ==
  /\ now \in Usage!Periods
  /\ metric \in [Usage!Periods -> Metric]
  /\ stored \subseteq Conversations
  /\ last \in [Users -> 0 .. Months]
  /\ seen \in [Usage!Periods -> SUBSET Users]
  /\ upload \in [Uploads -> UploadState]
  /\ login \in [Logins -> LoginState]

LEMMA UsageTypesHold == UsageTypes => Usage!TypeOK
  BY SameCount DEF UsageTypes, Usage!TypeOK, UploadState, LoginState, Metric

LEMMA Counts ==
  ASSUME IsFiniteSet(Conversations), NEW S \in SUBSET Conversations
  PROVE  /\ Cardinality(S) \in 0 .. Cardinality(Conversations)
         /\ IsFiniteSet(S) /\ Cardinality(S) \in Nat
         /\ \A T \in SUBSET S : Cardinality(T) \in Nat /\ Cardinality(T) <= Cardinality(S)
  BY FS_Subset, FS_CardinalityType

LEMMA Upserts ==
  ASSUME Usage!UsageAssumption, UsageTypes, NEW field \in {"conversations", "active"},
         NEW delta \in Nat, Usage!Upsert(field, delta)
  PROVE  /\ metric' \in [Usage!Periods -> Metric]
         /\ \A m \in Usage!Periods, f \in {"conversations", "active"} :
              metric'[m][f] = IF m = now /\ f = field THEN metric[m][f] + delta
                              ELSE metric[m][f]
  <1> DEFINE row == [metric[now] EXCEPT ![field] = metric[now][field] + delta]
  <1>1. metric' = [metric EXCEPT ![now] = row]
    BY DEF Usage!Upsert
  <1>2. metric[now] \in Metric /\ now \in Usage!Periods
    BY DEF UsageTypes
  <1>3. row \in Metric
    BY <1>2 DEF Metric
  <1>4. \A f \in {"conversations", "active"} :
          row[f] = IF f = field THEN metric[now][f] + delta ELSE metric[now][f]
    BY <1>2 DEF Metric
  <1> HIDE DEF row
  <1> QED
    BY <1>1, <1>2, <1>3, <1>4 DEF UsageTypes

LEMMA UsageInit == ASSUME Usage!UsageAssumption PROVE Usage!Init => UsageTypes
  BY DEF Usage!UsageAssumption, Usage!Init, UsageTypes, Usage!Periods, Usage!Empty, Metric,
         UploadState, LoginState

LEMMA UploadTypes ==
  ASSUME Usage!UsageAssumption, IsFiniteSet(Conversations), UsageTypes, NEW u \in Uploads,
         \/ \E batch \in SUBSET Conversations : Usage!Check(u, batch)
         \/ Usage!FindNew(u) \/ Usage!Store(u) \/ Usage!Record(u)
         \/ Usage!RecordFails(u) \/ Usage!Crash(u)
  PROVE  UsageTypes'
  <1>0. upload[u] \in UploadState
    BY DEF UsageTypes
  <1>1. ASSUME NEW q \in UploadState, upload' = [upload EXCEPT ![u] = q],
               UNCHANGED <<now, metric, stored, last, seen, login>>
        PROVE  UsageTypes'
    BY <1>1 DEF UsageTypes
  <1>2. Usage!Idle \in UploadState
    BY DEF UploadState
  <1>3. ASSUME NEW batch \in SUBSET Conversations, Usage!Check(u, batch) PROVE UsageTypes'
    <2>1. [at |-> "checked", batch |-> batch] \in UploadState
      BY DEF UploadState
    <2> QED
      BY <1>1, <1>3, <2>1 DEF Usage!Check
  <1>4. CASE Usage!FindNew(u)
    <2>1. upload[u].batch \in SUBSET Conversations
      BY <1>0, <1>4 DEF Usage!FindNew, UploadState, Usage!Idle
    <2>2. [at |-> "inserting", fresh |-> upload[u].batch \ stored] \in UploadState
      BY <2>1 DEF UploadState
    <2> QED
      BY <1>1, <1>4, <2>2 DEF Usage!FindNew
  <1>5. CASE Usage!Store(u)
    <2>1. upload[u].fresh \in SUBSET Conversations
      BY <1>0, <1>5 DEF Usage!Store, UploadState, Usage!Idle
    <2>2. Usage!Cardinality(upload[u].fresh) = Cardinality(upload[u].fresh)
      BY SameCount
    <2>3. [at |-> "stored", count |-> Usage!Cardinality(upload[u].fresh)] \in UploadState
      BY <2>1, <2>2, Counts DEF UploadState
    <2>4. CASE stored' = stored
      BY <1>1, <1>2, <1>5, <2>3, <2>4 DEF Usage!Store
    <2>5. CASE /\ stored' = stored \cup upload[u].fresh
               /\ upload' = [upload EXCEPT ![u] =
                    [at |-> "stored", count |-> Usage!Cardinality(upload[u].fresh)]]
      <3> HIDE DEF UploadState
      <3> QED
        BY <1>5, <2>1, <2>3, <2>5 DEF Usage!Store, UsageTypes
    <2> QED
      BY <1>5, <2>4, <2>5 DEF Usage!Store
  <1>6. CASE Usage!Record(u)
    <2>1. upload[u].count \in Nat
      BY <1>0, <1>6 DEF Usage!Record, UploadState, Usage!Idle
    <2>2. metric' \in [Usage!Periods -> Metric]
      BY <1>6, <2>1, Upserts DEF Usage!Record
    <2> QED
      BY <1>2, <1>6, <2>2 DEF Usage!Record, UsageTypes
  <1>7. CASE Usage!RecordFails(u)
    BY <1>1, <1>2, <1>7 DEF Usage!RecordFails
  <1>8. CASE Usage!Crash(u)
    BY <1>1, <1>2, <1>8 DEF Usage!Crash
  <1> QED
    BY <1>3, <1>4, <1>5, <1>6, <1>7, <1>8

LEMMA OtherTypes ==
  ASSUME Usage!UsageAssumption, UsageTypes,
         \/ \E s \in Logins : Usage!CommitLogin(s) \/ \E u \in Users : Usage!BeginLogin(s, u)
         \/ Usage!NextMonth
         \/ UNCHANGED Usage!vars
  PROVE  UsageTypes'
  <1>1. ASSUME NEW s \in Logins, NEW u \in Users, Usage!BeginLogin(s, u) PROVE UsageTypes'
    <2>1. [at |-> "loaded", user |-> u, previous |-> last[u]] \in LoginState
      BY DEF LoginState, UsageTypes
    <2> QED
      BY <1>1, <2>1 DEF Usage!BeginLogin, UsageTypes
  <1>2. ASSUME NEW s \in Logins, Usage!CommitLogin(s) PROVE UsageTypes'
    <2>1. login[s] \in LoginState /\ login[s].at = "loaded"
      BY <1>2 DEF Usage!CommitLogin, UsageTypes
    <2>2. login[s].user \in Users
      BY <2>1 DEF LoginState, Usage!Idle
    <2>3. metric' \in [Usage!Periods -> Metric]
      BY <1>2, Upserts DEF Usage!CommitLogin, UsageTypes
    <2>4. last' \in [Users -> 0 .. Months]
      BY <1>2, <2>2 DEF Usage!CommitLogin, UsageTypes, Usage!Periods, Usage!UsageAssumption
    <2>5. seen' \in [Usage!Periods -> SUBSET Users]
      BY <1>2, <2>2 DEF Usage!CommitLogin, UsageTypes
    <2>6. login' \in [Logins -> LoginState]
      BY <1>2 DEF Usage!CommitLogin, UsageTypes, LoginState
    <2> QED
      BY <1>2, <2>3, <2>4, <2>5, <2>6 DEF Usage!CommitLogin, UsageTypes
  <1>3. CASE Usage!NextMonth
    BY <1>3 DEF Usage!NextMonth, UsageTypes, Usage!Periods, Usage!UsageAssumption
  <1>4. CASE UNCHANGED Usage!vars
    BY <1>4 DEF Usage!vars, UsageTypes
  <1> QED
    BY <1>1, <1>2, <1>3, <1>4

LEMMA UsageTypeStep ==
  ASSUME Usage!UsageAssumption, IsFiniteSet(Conversations)
  PROVE  UsageTypes /\ [Usage!Next]_(Usage!vars) => UsageTypes'
  BY UploadTypes, OtherTypes DEF Usage!Next

LEMMA UsageInvariance ==
  ASSUME Usage!UsageAssumption, IsFiniteSet(Conversations)
  PROVE  Usage!Spec => []UsageTypes
  <1>1. UsageTypes /\ [Usage!Next]_(Usage!vars) => UsageTypes'
    BY UsageTypeStep
  <1> QED
    BY <1>1, UsageInit, PTL DEF Usage!Spec

\* Counters are numbers and slots are at their handlers' points, whatever
\* uploads, the worker and logins write at once.
THEOREM UsageIsTyped ==
  ASSUME Usage!UsageAssumption, IsFiniteSet(Conversations)
  PROVE  Usage!Spec => []Usage!TypeOK
  <1>1. UsageTypes => Usage!TypeOK
    BY UsageTypesHold
  <1> QED
    BY <1>1, UsageInvariance, PTL

-----------------------------------------------------------------------------
(* One upload at a time: what it has checked is what the month has left,   *)
(* also when the month turns before it records.                            *)

Left == Cap - metric[now].conversations

Fits(q) ==
  /\ q.at = "checked" => Cardinality(q.batch) <= Left
  /\ q.at = "inserting" => Cardinality(q.fresh) <= Left
  /\ q.at = "stored" => q.count <= Left

CapInv ==
  /\ Usage!WithinCap
  /\ \A m \in Usage!Periods : m > now => metric[m].conversations = 0
  /\ \A u \in Uploads : Fits(upload[u])

LEMMA CapStep ==
  ASSUME Usage!UsageAssumption, IsFiniteSet(Conversations), Usage!OneUpload
  PROVE  UsageTypes /\ CapInv /\ [Usage!Next]_(Usage!vars) => CapInv'
  <1> SUFFICES ASSUME UsageTypes, CapInv, [Usage!Next]_(Usage!vars) PROVE CapInv'
    OBVIOUS
  <1>0. /\ \A m \in Usage!Periods : metric[m].conversations \in Nat
        /\ now \in Usage!Periods /\ Cap \in Nat /\ Left \in Int
    BY DEF UsageTypes, Metric, Usage!UsageAssumption, Left
  <1>1. ASSUME \A m \in Usage!Periods : metric'[m].conversations = metric[m].conversations,
               now' = now, \A u \in Uploads : Fits(upload'[u])
        PROVE  CapInv'
    <2>1. Left' = Left
      BY <1>0, <1>1 DEF Left
    <2>2. \A u \in Uploads : Fits(upload[u])'
      BY <1>1, <2>1 DEF Fits
    <2> QED
      BY <1>1, <2>2 DEF CapInv, Usage!WithinCap
  <1>2. ASSUME UNCHANGED <<now, metric, upload>> PROVE CapInv'
    BY <1>2 DEF CapInv, Usage!WithinCap, Fits, Left
  <1>3. ASSUME NEW u \in Uploads, NEW q, upload' = [upload EXCEPT ![u] = q], Fits(q),
               UNCHANGED <<now, metric>>
        PROVE  CapInv'
    <2>1. \A v \in Uploads : upload'[v] = IF v = u THEN q ELSE upload[v]
      BY <1>3 DEF UsageTypes
    <2> QED
      BY <1>1, <1>3, <2>1 DEF CapInv
  <1>4. Fits(Usage!Idle)
    BY DEF Fits, Usage!Idle
  <1>5. ASSUME NEW u \in Uploads, NEW batch \in SUBSET Conversations, Usage!Check(u, batch)
        PROVE  CapInv'
    <2>1. Cardinality(batch) <= Left
      BY <1>5, SameCount DEF Usage!Check, Usage!WithinLimit, Left
    <2>2. Fits([at |-> "checked", batch |-> batch])
      BY <2>1 DEF Fits
    <2> QED
      BY <1>3, <1>5, <2>2 DEF Usage!Check
  <1>6. ASSUME NEW u \in Uploads, Usage!FindNew(u) PROVE CapInv'
    <2>1. upload[u] \in UploadState /\ upload[u].at = "checked" /\ Fits(upload[u])
      BY <1>6 DEF Usage!FindNew, UsageTypes, CapInv
    <2>2. upload[u].batch \in SUBSET Conversations
      BY <2>1 DEF UploadState, Usage!Idle
    <2>3. /\ Cardinality(upload[u].batch) \in Nat
          /\ Cardinality(upload[u].batch \ stored) \in Nat
          /\ Cardinality(upload[u].batch \ stored) <= Cardinality(upload[u].batch)
      BY <2>2, Counts
    <2>4. Cardinality(upload[u].batch \ stored) <= Left
      BY <1>0, <2>1, <2>3 DEF Fits
    <2>5. Fits([at |-> "inserting", fresh |-> upload[u].batch \ stored])
      BY <2>4 DEF Fits
    <2> QED
      BY <1>3, <1>6, <2>5 DEF Usage!FindNew
  <1>7. ASSUME NEW u \in Uploads, Usage!Store(u) PROVE CapInv'
    <2>1. upload[u].at = "inserting" /\ Fits(upload[u])
      BY <1>7 DEF Usage!Store, CapInv
    <2>2. Usage!Cardinality(upload[u].fresh) <= Left
      BY <2>1, SameCount DEF Fits
    <2>3. Fits([at |-> "stored", count |-> Usage!Cardinality(upload[u].fresh)])
      BY <2>2 DEF Fits
    <2> QED
      BY <1>3, <1>4, <1>7, <2>3 DEF Usage!Store
  <1>8. ASSUME NEW u \in Uploads, Usage!Record(u) PROVE CapInv'
    <2>1. upload[u] \in UploadState /\ upload[u].at = "stored" /\ Fits(upload[u])
      BY <1>8 DEF Usage!Record, UsageTypes, CapInv
    <2>2. upload[u].count \in Nat /\ upload[u].count <= Left
      BY <2>1 DEF UploadState, Usage!Idle, Fits
    <2>3. \A m \in Usage!Periods :
            metric'[m].conversations = IF m = now
                                       THEN metric[m].conversations + upload[u].count
                                       ELSE metric[m].conversations
      <3>1. \A m \in Usage!Periods, f \in {"conversations", "active"} :
              metric'[m][f] = IF m = now /\ f = "conversations"
                              THEN metric[m][f] + upload[u].count ELSE metric[m][f]
        BY <1>8, <2>2, Upserts DEF Usage!Record
      <3> QED
        BY <3>1
    <2>4. upload' = [upload EXCEPT ![u] = Usage!Idle] /\ now' = now
      BY <1>8 DEF Usage!Record
    <2>5. \A v \in Uploads : upload'[v] = Usage!Idle
      BY <2>4 DEF Usage!OneUpload, UsageTypes
    <2>6. \A v \in Uploads : Fits(upload[v])'
      BY <2>5 DEF Fits, Usage!Idle
    <2>7. Usage!WithinCap'
      BY <1>0, <2>2, <2>3 DEF CapInv, Usage!WithinCap, Left
    <2>8. \A m \in Usage!Periods : m > now' => metric'[m].conversations = 0
      BY <1>0, <2>3, <2>4 DEF CapInv, Usage!Periods
    <2> QED
      BY <2>6, <2>7, <2>8 DEF CapInv
  <1>9. ASSUME NEW u \in Uploads, Usage!RecordFails(u) \/ Usage!Crash(u) PROVE CapInv'
    BY <1>3, <1>4, <1>9 DEF Usage!RecordFails, Usage!Crash
  <1>10. ASSUME Usage!Upsert("active", 1), UNCHANGED <<now, upload>>
         PROVE  CapInv'
    <2>1. \A m \in Usage!Periods, f \in {"conversations", "active"} :
            metric'[m][f] = IF m = now /\ f = "active" THEN metric[m][f] + 1 ELSE metric[m][f]
      BY <1>10, Upserts
    <2>2. \A m \in Usage!Periods : metric'[m].conversations = metric[m].conversations
      BY <2>1
    <2> QED
      BY <1>1, <1>10, <2>2 DEF CapInv
  <1>11. ASSUME NEW s \in Logins, Usage!CommitLogin(s) \/ \E u \in Users : Usage!BeginLogin(s, u)
         PROVE  CapInv'
    BY <1>2, <1>10, <1>11 DEF Usage!CommitLogin, Usage!BeginLogin
  <1>12. CASE Usage!NextMonth
    <2>1. now' = now + 1 /\ UNCHANGED <<metric, upload>> /\ now' \in Usage!Periods
      BY <1>12 DEF Usage!NextMonth, UsageTypes, Usage!Periods, Usage!UsageAssumption
    <2>2. /\ now \in Nat /\ metric[now'].conversations = 0 /\ metric[now].conversations \in Nat
          /\ \A m \in Usage!Periods : m \in Nat
      BY <1>0, <2>1 DEF Usage!Periods, CapInv
    <2>3. Left <= Left' /\ Left' \in Int
      BY <1>0, <2>1, <2>2 DEF Left
    <2>4. ASSUME NEW u \in Uploads PROVE Fits(upload[u])'
      <3>1. upload[u] \in UploadState /\ Fits(upload[u]) /\ upload'[u] = upload[u]
        BY <2>1 DEF UsageTypes, CapInv
      <3>2. /\ upload[u].at = "checked" => Cardinality(upload[u].batch) \in Nat
            /\ upload[u].at = "inserting" => Cardinality(upload[u].fresh) \in Nat
            /\ upload[u].at = "stored" => upload[u].count \in Nat
        BY <3>1, Counts DEF UploadState, Usage!Idle
      <3> QED
        BY <1>0, <2>3, <3>1, <3>2 DEF Fits
    <2>5. ASSUME NEW m \in Usage!Periods, m > now' PROVE metric'[m].conversations = 0
      <3>1. m > now
        <4>1. m \in Nat /\ now \in Nat /\ now' = now + 1
          BY <2>1, <2>2
        <4> QED
          BY <2>5, <4>1
      <3>2. metric[m].conversations = 0
        BY <3>1 DEF CapInv
      <3> QED
        BY <2>1, <3>2
    <2> QED
      BY <2>1, <2>4, <2>5 DEF CapInv, Usage!WithinCap
  <1>13. CASE UNCHANGED Usage!vars
    BY <1>2, <1>13 DEF Usage!vars
  <1> QED
    BY <1>5, <1>6, <1>7, <1>8, <1>9, <1>11, <1>12, <1>13 DEF Usage!Next

\* One upload at a time, no month's count passes the plan's limit, whatever the
\* worker and logins write meanwhile and wherever an upload stops.
THEOREM LimitsAreKept ==
  ASSUME Usage!UsageAssumption, IsFiniteSet(Conversations), Usage!OneUpload
  PROVE  Usage!Spec => []Usage!WithinCap
  <1>1. Usage!Init => CapInv
    BY DEF Usage!Init, CapInv, Usage!WithinCap, Usage!Empty, Fits, Usage!Idle,
           Usage!UsageAssumption
  <1>2. UsageTypes /\ CapInv /\ [Usage!Next]_(Usage!vars) => CapInv'
    BY CapStep
  <1>3. CapInv => Usage!WithinCap
    BY DEF CapInv
  <1> QED
    BY <1>1, <1>2, <1>3, UsageInvariance, PTL DEF Usage!Spec

-----------------------------------------------------------------------------
(* One login at a time: who has logged in this month is who has been       *)
(* counted, because lastLoginAt is in a month exactly when its user is in  *)
(* that month's set.                                                       *)

Counted(m) == IsFiniteSet(seen[m]) /\ metric[m].active = Cardinality(seen[m])

LastIsSeen(u) ==
  /\ last[u] <= now
  /\ last[u] > 0 => u \in seen[last[u]]
  /\ \A m \in Usage!Periods : u \in seen[m] => m <= last[u]

LoadedIsLast(s) == login[s].at = "loaded" => login[s].previous = last[login[s].user]

ActiveInv ==
  /\ \A m \in Usage!Periods : Counted(m)
  /\ \A u \in Users : LastIsSeen(u)
  /\ \A s \in Logins : LoadedIsLast(s)

LEMMA ActiveStep ==
  ASSUME Usage!UsageAssumption, Usage!OneLogin
  PROVE  UsageTypes /\ ActiveInv /\ [Usage!Next]_(Usage!vars) => ActiveInv'
  <1> SUFFICES ASSUME UsageTypes, ActiveInv, [Usage!Next]_(Usage!vars) PROVE ActiveInv'
    OBVIOUS
  <1>0. /\ now \in Usage!Periods /\ now \in Nat /\ now > 0
        /\ \A m \in Usage!Periods : m \in Nat /\ m > 0 /\ metric[m].active \in Nat
        /\ \A u \in Users : last[u] \in 0 .. Months
    BY DEF UsageTypes, Usage!Periods, Metric
  <1>1. ASSUME \A m \in Usage!Periods : metric'[m].active = metric[m].active,
               UNCHANGED <<now, last, seen, login>>
        PROVE  ActiveInv'
    BY <1>1 DEF ActiveInv, Counted, LastIsSeen, LoadedIsLast
  <1>2. ASSUME NEW delta \in Nat, Usage!Upsert("conversations", delta),
               UNCHANGED <<now, last, seen, login>>
        PROVE  ActiveInv'
    <2>1. \A m \in Usage!Periods, f \in {"conversations", "active"} :
            metric'[m][f] = IF m = now /\ f = "conversations" THEN metric[m][f] + delta
                            ELSE metric[m][f]
      BY <1>2, Upserts
    <2>2. \A m \in Usage!Periods : metric'[m].active = metric[m].active
      BY <2>1
    <2> QED
      BY <1>1, <1>2, <2>2
  <1>3. ASSUME NEW u \in Uploads,
               \/ \E batch \in SUBSET Conversations : Usage!Check(u, batch)
               \/ Usage!FindNew(u) \/ Usage!Store(u)
               \/ Usage!RecordFails(u) \/ Usage!Crash(u)
        PROVE  ActiveInv'
    BY <1>1, <1>3 DEF Usage!Check, Usage!FindNew, Usage!Store, Usage!RecordFails, Usage!Crash
  <1>4. ASSUME NEW u \in Uploads, Usage!Record(u) PROVE ActiveInv'
    <2>1. upload[u] \in UploadState /\ upload[u].at = "stored"
      BY <1>4 DEF Usage!Record, UsageTypes
    <2>2. upload[u].count \in Nat
      BY <2>1 DEF UploadState, Usage!Idle
    <2> QED
      BY <1>2, <1>4, <2>2 DEF Usage!Record
  <1>5. ASSUME NEW s \in Logins, NEW u \in Users, Usage!BeginLogin(s, u) PROVE ActiveInv'
    <2>1. /\ login' = [login EXCEPT ![s] =
               [at |-> "loaded", user |-> u, previous |-> last[u]]]
          /\ UNCHANGED <<now, metric, last, seen>>
      BY <1>5 DEF Usage!BeginLogin
    <2>2. login'[s] = [at |-> "loaded", user |-> u, previous |-> last[u]]
      BY <2>1 DEF UsageTypes
    <2>3. \A r \in Logins : LoadedIsLast(r)'
      BY <2>1, <2>2 DEF Usage!OneLogin, LoadedIsLast
    <2> QED
      BY <2>1, <2>3 DEF ActiveInv, Counted, LastIsSeen
  <1>6. ASSUME NEW s \in Logins, Usage!CommitLogin(s) PROVE ActiveInv'
    <2> DEFINE u == login[s].user
    <2>1. login[s] \in LoginState /\ login[s].at = "loaded"
      BY <1>6 DEF Usage!CommitLogin, UsageTypes
    <2>2. u \in Users
      BY <2>1 DEF LoginState, Usage!Idle
    <2>3. /\ login[s].previous = last[u]
          /\ LastIsSeen(u)
          /\ Counted(now)
      BY <1>0, <2>1, <2>2 DEF ActiveInv, LoadedIsLast
    <2>4. /\ now' = now
          /\ login' = [login EXCEPT ![s] = Usage!Idle]
          /\ last' = [last EXCEPT ![u] = now]
          /\ seen' = [seen EXCEPT ![now] = @ \cup {u}]
          /\ IF last[u] < now THEN Usage!Upsert("active", 1) ELSE UNCHANGED metric
      BY <1>6, <2>3 DEF Usage!CommitLogin, Usage!FirstThisMonth
    <2> HIDE DEF u
    <2>5. /\ \A m \in Usage!Periods :
               seen'[m] = IF m = now THEN seen[m] \cup {u} ELSE seen[m]
          /\ \A v \in Users : last'[v] = IF v = u THEN now ELSE last[v]
      BY <2>4 DEF UsageTypes
    <2>6. \A r \in Logins : LoadedIsLast(r)'
      <3>1. \A r \in Logins : login'[r] = Usage!Idle
        BY <2>4 DEF Usage!OneLogin, UsageTypes
      <3> QED
        BY <3>1 DEF LoadedIsLast, Usage!Idle
    <2>7. ASSUME NEW v \in Users PROVE LastIsSeen(v)'
      <3>1. LastIsSeen(v)
        BY DEF ActiveInv
      <3>2. CASE v = u
        <4>1. last'[v] = now /\ u \in seen'[now]
          BY <1>0, <2>5, <3>2
        <4>2. ASSUME NEW m \in Usage!Periods, u \in seen'[m] PROVE m <= now
          <5>1. CASE m # now
            <6>1. m <= last[u] /\ last[u] <= now
              BY <2>3, <2>5, <4>2, <5>1 DEF LastIsSeen
            <6> QED
              BY <1>0, <2>2, <6>1
          <5> QED
            BY <1>0, <5>1
        <4> QED
          BY <1>0, <2>4, <3>2, <4>1, <4>2 DEF LastIsSeen
      <3>3. CASE v # u
        <4>1. /\ last'[v] = last[v]
              /\ \A m \in Usage!Periods : v \in seen'[m] <=> v \in seen[m]
          BY <2>5, <3>3
        <4>2. last[v] > 0 => last[v] \in Usage!Periods
          BY <1>0 DEF Usage!Periods, Usage!UsageAssumption
        <4> QED
          BY <2>4, <3>1, <4>1, <4>2 DEF LastIsSeen
      <3> QED
        BY <3>2, <3>3
    <2>8. CASE last[u] < now
      <3>1. u \notin seen[now]
        BY <1>0, <2>2, <2>3, <2>8 DEF LastIsSeen
      <3>2. \A m \in Usage!Periods :
              metric'[m].active = IF m = now THEN metric[m].active + 1 ELSE metric[m].active
        <4>1. Usage!Upsert("active", 1)
          BY <2>4, <2>8
        <4>2. \A m \in Usage!Periods, f \in {"conversations", "active"} :
                metric'[m][f] = IF m = now /\ f = "active" THEN metric[m][f] + 1
                                ELSE metric[m][f]
          BY <4>1, Upserts
        <4> QED
          BY <4>2
      <3>3. /\ IsFiniteSet(seen[now] \cup {u})
            /\ Cardinality(seen[now] \cup {u}) = Cardinality(seen[now]) + 1
        BY <2>3, <3>1, FS_AddElement DEF Counted
      <3>4. ASSUME NEW m \in Usage!Periods PROVE Counted(m)'
        <4>1. Counted(m)
          BY DEF ActiveInv
        <4> QED
          BY <2>3, <2>5, <3>2, <3>3, <4>1 DEF Counted
      <3> QED
        BY <2>6, <2>7, <3>4 DEF ActiveInv
    <2>9. CASE ~(last[u] < now)
      <3>1. last[u] = now
        BY <1>0, <2>2, <2>3, <2>9 DEF LastIsSeen
      <3>2. u \in seen[now]
        BY <1>0, <2>3, <3>1 DEF LastIsSeen
      <3>3. \A m \in Usage!Periods : seen'[m] = seen[m] /\ metric'[m] = metric[m]
        BY <2>4, <2>5, <2>9, <3>2
      <3>4. \A m \in Usage!Periods : Counted(m)'
        BY <3>3 DEF Counted, ActiveInv
      <3> QED
        BY <2>6, <2>7, <3>4 DEF ActiveInv
    <2> QED
      BY <2>8, <2>9
  <1>7. CASE Usage!NextMonth
    <2>1. now' = now + 1 /\ UNCHANGED <<metric, last, seen, login>>
      BY <1>7 DEF Usage!NextMonth
    <2>2. \A u \in Users : last[u] <= now => last[u] <= now'
      BY <1>0, <2>1
    <2> QED
      BY <2>1, <2>2 DEF ActiveInv, Counted, LastIsSeen, LoadedIsLast
  <1>8. CASE UNCHANGED Usage!vars
    BY <1>1, <1>8 DEF Usage!vars
  <1> QED
    BY <1>3, <1>4, <1>5, <1>6, <1>7, <1>8 DEF Usage!Next

\* One login at a time, a month's active users are the distinct users who
\* logged in during it: a login that finds a login time of an earlier month is
\* the user's first.
THEOREM ActiveUsersAreCountedOnce ==
  ASSUME Usage!UsageAssumption, IsFiniteSet(Conversations), Usage!OneLogin
  PROVE  Usage!Spec => []Usage!ActiveUsersAreDistinct
  <1>1. Usage!Init => ActiveInv
    BY SameCount, FS_EmptySet
       DEF Usage!Init, ActiveInv, Counted, LastIsSeen, LoadedIsLast, Usage!Empty, Usage!Idle,
           Usage!UsageAssumption, Usage!Periods
  <1>2. UsageTypes /\ ActiveInv /\ [Usage!Next]_(Usage!vars) => ActiveInv'
    BY ActiveStep
  <1>3. ActiveInv => Usage!ActiveUsersAreDistinct
    BY SameCount DEF ActiveInv, Counted, Usage!ActiveUsersAreDistinct
  <1> QED
    BY <1>1, <1>2, <1>3, UsageInvariance, PTL DEF Usage!Spec
-----------------------------------------------------------------------------
(* What is recorded next to what is stored: no step makes the difference   *)
(* smaller, and only a fault makes it larger.                              *)

\* What an upload has stored and not recorded.
Pending(q) == IF q.at = "stored" THEN q.count ELSE 0

PendingIn(slots) == [u \in Uploads |-> Pending(slots[u])]

Column(rows, field) == [m \in Usage!Periods |-> rows[m][field]]

Recorded(rows, field) == SumFunctionOnSet(Column(rows, field), Usage!Periods)

Unrecorded(slots) == SumFunctionOnSet(PendingIn(slots), Uploads)

LEMMA SumsAre ==
  /\ Usage!Recorded = Recorded(metric, "conversations")
  /\ Usage!Unrecorded = Unrecorded(upload)
  <1>1. ASSUME NEW f, NEW S, f = [x \in S |-> f[x]]
        PROVE  Usage!SumFunction(f) = SumFunctionOnSet(f, S)
    <2>1. DOMAIN f = S
      BY <1>1
    <2> QED
      BY <2>1 DEF Usage!SumFunction, Usage!SumFunctionOnSet, Usage!FoldFunctionOnSet,
         Usage!MapThenFoldSet, SumFunctionOnSet, FoldFunctionOnSet, MapThenFoldSet
  <1>2. [m \in Usage!Periods |-> metric[m].conversations] = Column(metric, "conversations")
    BY DEF Column
  <1>3. [u \in Uploads |-> IF upload[u].at = "stored" THEN upload[u].count ELSE 0]
          = PendingIn(upload)
    BY DEF PendingIn, Pending
  <1>4. \A field : Usage!SumFunction(Column(metric, field)) = Recorded(metric, field)
    <2>1. \A field : Column(metric, field) = [m \in Usage!Periods |-> Column(metric, field)[m]]
      BY DEF Column
    <2> QED
      BY <1>1, <2>1 DEF Recorded
  <1>5. Usage!SumFunction(PendingIn(upload)) = Unrecorded(upload)
    <2>1. PendingIn(upload) = [u \in Uploads |-> PendingIn(upload)[u]]
      BY DEF PendingIn
    <2> QED
      BY <1>1, <2>1 DEF Unrecorded
  <1> QED
    BY <1>2, <1>3, <1>4, <1>5 DEF Usage!Recorded, Usage!Unrecorded

LEMMA ColumnIs ==
  ASSUME Usage!UsageAssumption, NEW rows \in [Usage!Periods -> Metric],
         NEW field \in {"conversations", "active"}
  PROVE  /\ IsFiniteSet(Usage!Periods)
         /\ \A m \in Usage!Periods : Column(rows, field)[m] \in Int
         /\ Recorded(rows, field) \in Int
  <1>1. IsFiniteSet(Usage!Periods)
    BY FS_Interval DEF Usage!Periods, Usage!UsageAssumption
  <1>2. \A m \in Usage!Periods : Column(rows, field)[m] \in Int
    BY DEF Column, Metric
  <1> QED
    BY <1>1, <1>2, SumType DEF Recorded

LEMMA PendingIs ==
  ASSUME IsFiniteSet(Uploads), NEW slots \in [Uploads -> UploadState]
  PROVE  /\ \A u \in Uploads : PendingIn(slots)[u] \in Int
         /\ Unrecorded(slots) \in Int
  <1>1. ASSUME NEW u \in Uploads PROVE PendingIn(slots)[u] \in Int
    <2>1. slots[u].at = "stored" => slots[u].count \in Int
      BY DEF UploadState, Usage!Idle
    <2> QED
      BY <2>1 DEF PendingIn, Pending
  <1> QED
    BY <1>1, SumType DEF Unrecorded

\* A slot that moves changes what is not recorded by what it has more or less.
LEMMA SlotMoves ==
  ASSUME IsFiniteSet(Uploads), NEW slots \in [Uploads -> UploadState], NEW u \in Uploads,
         NEW q \in UploadState
  PROVE  Unrecorded([slots EXCEPT ![u] = q])
           = Unrecorded(slots) + (Pending(q) - Pending(slots[u]))
  <1> DEFINE moved == [slots EXCEPT ![u] = q]
             f == PendingIn(slots)
             g == PendingIn(moved)
  <1>1. moved \in [Uploads -> UploadState]
    OBVIOUS
  <1>2. \A v \in Uploads : f[v] \in Int /\ g[v] \in Int
    <2> HIDE DEF moved
    <2> QED
      BY <1>1, PendingIs
  <1>3. /\ f[u] = Pending(slots[u]) /\ g[u] = Pending(q)
        /\ \A v \in Uploads \ {u} : g[v] = f[v]
    BY DEF PendingIn
  <1>4. SumFunctionOnSet(g, Uploads) = SumFunctionOnSet(f, Uploads) + (g[u] - f[u])
    <2> HIDE DEF f, g
    <2> QED
      BY <1>2, <1>3, SumUpdate
  <1> QED
    BY <1>3, <1>4 DEF Unrecorded

\* A record adds to one column of one month, and that much to its sum.
LEMMA RecordAdds ==
  ASSUME Usage!UsageAssumption, UsageTypes, NEW field \in {"conversations", "active"},
         NEW delta \in Nat, Usage!Upsert(field, delta)
  PROVE  \A f \in {"conversations", "active"} :
           Recorded(metric', f) = Recorded(metric, f) + (IF f = field THEN delta ELSE 0)
  <1> SUFFICES ASSUME NEW f \in {"conversations", "active"}
               PROVE  Recorded(metric', f) = Recorded(metric, f) + (IF f = field THEN delta ELSE 0)
    OBVIOUS
  <1> DEFINE g == Column(metric, f)
             h == Column(metric', f)
  <1>1. /\ metric \in [Usage!Periods -> Metric] /\ metric' \in [Usage!Periods -> Metric]
        /\ now \in Usage!Periods
    BY Upserts DEF UsageTypes
  <1>2. /\ IsFiniteSet(Usage!Periods)
        /\ \A m \in Usage!Periods : g[m] \in Int /\ h[m] \in Int
    BY <1>1, ColumnIs
  <1>3. \A m \in Usage!Periods : h[m] = IF m = now /\ f = field THEN g[m] + delta ELSE g[m]
    BY <1>1, Upserts DEF Column
  <1>4. SumFunctionOnSet(h, Usage!Periods)
          = SumFunctionOnSet(g, Usage!Periods) + (h[now] - g[now])
    <2> HIDE DEF g, h
    <2> QED
      BY <1>1, <1>2, <1>3, SumUpdate
  <1>5. h[now] - g[now] = IF f = field THEN delta ELSE 0
    <2> HIDE DEF g, h
    <2> QED
      BY <1>1, <1>2, <1>3
  <1> QED
    BY <1>4, <1>5 DEF Recorded

LEMMA SumZero ==
  ASSUME NEW f, NEW S, IsFiniteSet(S), \A x \in S : f[x] = 0
  PROVE  SumFunctionOnSet(f, S) = 0
  <1>1. \A x \in S : f[x] \in Int /\ f[x] = 0 * f[x]
    OBVIOUS
  <1>2. SumFunctionOnSet(f, S) = 0 * SumFunctionOnSet(f, S)
    BY <1>1, SumScaled
  <1>3. SumFunctionOnSet(f, S) \in Int
    BY <1>1, SumType
  <1> QED
    BY <1>2, <1>3

\* What was stored and is neither recorded nor about to be.
Uncounted ==
  Cardinality(stored) - (Recorded(metric, "conversations") + Unrecorded(upload))

LEMMA UsageNumbers ==
  ASSUME Usage!UsageAssumption, IsFiniteSet(Conversations), IsFiniteSet(Uploads), UsageTypes
  PROVE  /\ Recorded(metric, "conversations") \in Int
         /\ Unrecorded(upload) \in Int
         /\ Cardinality(stored) \in Int /\ IsFiniteSet(stored)
  <1>1. metric \in [Usage!Periods -> Metric] /\ upload \in [Uploads -> UploadState]
    BY DEF UsageTypes
  <1>2. Recorded(metric, "conversations") \in Int
    BY <1>1, ColumnIs
  <1>3. Unrecorded(upload) \in Int
    BY <1>1, PendingIs
  <1>4. stored \in SUBSET Conversations
    BY DEF UsageTypes
  <1> QED
    BY <1>2, <1>3, <1>4, Counts

NothingLost ==
  /\ Uncounted' >= Uncounted
  /\ ~Faulty => Uncounted' = Uncounted

LEMMA CountStep ==
  ASSUME Usage!UsageAssumption, IsFiniteSet(Conversations), IsFiniteSet(Uploads),
         UsageTypes, UsageTypes', [Usage!Next]_(Usage!vars)
  PROVE  NothingLost
  <1>0. /\ upload \in [Uploads -> UploadState] /\ Usage!Idle \in UploadState
        /\ stored \subseteq Conversations
    BY DEF UsageTypes, UploadState
  <1>1. Uncounted \in Int /\ Recorded(metric, "conversations") \in Int
    BY UsageNumbers DEF Uncounted
  <1>2. ASSUME UNCHANGED <<metric, stored, upload>> PROVE NothingLost
    <2>1. Uncounted' = Uncounted
      BY <1>2 DEF Uncounted
    <2> QED
      BY <1>1, <2>1 DEF NothingLost
  <1>3. ASSUME NEW u \in Uploads, NEW q \in UploadState, upload' = [upload EXCEPT ![u] = q],
               UNCHANGED <<metric, stored>>,
               Pending(q) = Pending(upload[u]) \/ (Faulty /\ Pending(q) = 0)
        PROVE  NothingLost
    <2>1. Unrecorded(upload') = Unrecorded(upload) + (Pending(q) - Pending(upload[u]))
      BY <1>0, <1>3, SlotMoves
    <2>2. Pending(upload[u]) \in Nat
      BY <1>0, <1>3 DEF Pending, UploadState, Usage!Idle
    <2>3. Unrecorded(upload) \in Int /\ Cardinality(stored) \in Int
      BY UsageNumbers
    <2>4. Uncounted' = Uncounted + (Pending(upload[u]) - Pending(q))
      <3>1. Pending(q) \in Int
        BY <1>3, <2>2
      <3> QED
        BY <1>1, <1>3, <2>1, <2>2, <2>3, <3>1 DEF Uncounted
    <2> QED
      BY <1>1, <1>3, <2>2, <2>4 DEF NothingLost
  <1>4. ASSUME NEW u \in Uploads, NEW batch \in SUBSET Conversations, Usage!Check(u, batch)
        PROVE  NothingLost
    <2>1. [at |-> "checked", batch |-> batch] \in UploadState
      BY DEF UploadState
    <2>2. Pending([at |-> "checked", batch |-> batch]) = Pending(upload[u])
      BY <1>4 DEF Usage!Check, Pending, Usage!Idle
    <2> QED
      BY <1>3, <1>4, <2>1, <2>2 DEF Usage!Check
  <1>5. ASSUME NEW u \in Uploads, Usage!FindNew(u) PROVE NothingLost
    <2> DEFINE q == [at |-> "inserting", fresh |-> upload[u].batch \ stored]
    <2>1. q \in UploadState
      <3>1. upload[u] \in UploadState /\ upload[u].at = "checked"
        BY <1>0, <1>5 DEF Usage!FindNew
      <3>2. upload[u].batch \in SUBSET Conversations
        BY <3>1 DEF UploadState, Usage!Idle
      <3> QED
        BY <3>2 DEF UploadState
    <2>2. Pending(q) = Pending(upload[u])
      BY <1>5 DEF Usage!FindNew, Pending
    <2> QED
      BY <1>3, <1>5, <2>1, <2>2 DEF Usage!FindNew
  <1>6. ASSUME NEW u \in Uploads, Usage!Store(u) PROVE NothingLost
    <2> DEFINE fresh == upload[u].fresh
               q == [at |-> "stored", count |-> Cardinality(fresh)]
    <2>1. upload[u] \in UploadState /\ upload[u].at = "inserting"
      BY <1>0, <1>6 DEF Usage!Store
    <2>2. Pending(upload[u]) = 0 /\ Pending(Usage!Idle) = 0
      BY <2>1 DEF Pending, Usage!Idle
    <2>3. CASE fresh \cap stored # {}
      BY <1>0, <1>3, <1>6, <2>2, <2>3 DEF Usage!Store
    <2>4. CASE fresh \cap stored = {}
      <3>1. fresh \in SUBSET Conversations
        BY <2>1 DEF UploadState, Usage!Idle
      <3>2. Cardinality(fresh) \in 0 .. Cardinality(Conversations) /\ IsFiniteSet(fresh)
        BY <3>1, Counts
      <3>3. q \in UploadState /\ Pending(q) = Cardinality(fresh)
        BY <3>2 DEF UploadState, Pending
      <3>4. /\ upload' = [upload EXCEPT ![u] = q] /\ stored' = stored \cup fresh
            /\ UNCHANGED metric
        BY <1>6, <2>4, SameCount DEF Usage!Store
      <3>5. Unrecorded(upload') = Unrecorded(upload) + Cardinality(fresh)
        <4> HIDE DEF q
        <4>1. Unrecorded(upload') = Unrecorded(upload) + (Pending(q) - Pending(upload[u]))
          BY <1>0, <3>3, <3>4, SlotMoves
        <4> QED
          BY <2>2, <3>2, <3>3, <4>1, UsageNumbers
      <3>6. Cardinality(stored') = Cardinality(stored) + Cardinality(fresh)
        <4>1. IsFiniteSet(stored) /\ Cardinality(stored) \in Int
          BY UsageNumbers
        <4>2. Cardinality(stored \cup fresh)
                = Cardinality(stored) + Cardinality(fresh) - Cardinality(stored \cap fresh)
          BY <3>2, <4>1, FS_Union
        <4>3. Cardinality(stored \cap fresh) = 0
          BY <2>4, FS_EmptySet
        <4> QED
          BY <3>2, <3>4, <4>1, <4>2, <4>3
      <3>7. Uncounted' = Uncounted
        <4>1. Unrecorded(upload) \in Int /\ Cardinality(stored) \in Int
          BY UsageNumbers
        <4> QED
          BY <1>1, <3>2, <3>4, <3>5, <3>6, <4>1 DEF Uncounted
      <3> QED
        BY <1>1, <3>7 DEF NothingLost
    <2> QED
      BY <2>3, <2>4
  <1>7. ASSUME NEW u \in Uploads, Usage!Record(u) PROVE NothingLost
    <2>1. upload[u] \in UploadState /\ upload[u].at = "stored"
      BY <1>0, <1>7 DEF Usage!Record
    <2>2. upload[u].count \in Nat /\ Pending(upload[u]) = upload[u].count
          /\ Pending(Usage!Idle) = 0
      BY <2>1 DEF UploadState, Usage!Idle, Pending
    <2>3. /\ Usage!Upsert("conversations", upload[u].count)
          /\ upload' = [upload EXCEPT ![u] = Usage!Idle]
          /\ UNCHANGED stored
      BY <1>7 DEF Usage!Record
    <2>4. Recorded(metric', "conversations")
            = Recorded(metric, "conversations") + upload[u].count
      BY <2>2, <2>3, RecordAdds
    <2>5. Unrecorded(upload') = Unrecorded(upload) + (0 - upload[u].count)
      BY <1>0, <2>2, <2>3, SlotMoves
    <2>6. /\ Unrecorded(upload) \in Int /\ Cardinality(stored) \in Int
      BY UsageNumbers
    <2>7. Uncounted' = Uncounted
      BY <1>1, <2>2, <2>3, <2>4, <2>5, <2>6 DEF Uncounted
    <2> QED
      BY <1>1, <2>7 DEF NothingLost
  <1>8. ASSUME NEW u \in Uploads, Usage!RecordFails(u) \/ Usage!Crash(u) PROVE NothingLost
    <2>1. Pending(Usage!Idle) = 0
      BY DEF Pending, Usage!Idle
    <2> QED
      BY <1>0, <1>3, <1>8, <2>1 DEF Usage!RecordFails, Usage!Crash
  <1>9. ASSUME NEW s \in Logins, NEW u \in Users, Usage!BeginLogin(s, u) PROVE NothingLost
    BY <1>2, <1>9 DEF Usage!BeginLogin
  <1>10. ASSUME NEW s \in Logins, Usage!CommitLogin(s) PROVE NothingLost
    <2>1. CASE Usage!Upsert("active", 1)
      <3>1. /\ Recorded(metric', "conversations") = Recorded(metric, "conversations") + 0
        BY <2>1, RecordAdds
      <3>3. Uncounted' = Uncounted
        BY <1>1, <1>10, <3>1 DEF Usage!CommitLogin, Uncounted
      <3> QED
        BY <1>1, <3>3 DEF NothingLost
    <2>2. CASE UNCHANGED metric
      BY <1>2, <1>10, <2>2 DEF Usage!CommitLogin
    <2> QED
      BY <1>10, <2>1, <2>2 DEF Usage!CommitLogin
  <1>11. CASE Usage!NextMonth
    BY <1>2, <1>11 DEF Usage!NextMonth
  <1>12. CASE UNCHANGED Usage!vars
    BY <1>2, <1>12 DEF Usage!vars
  <1> QED
    BY <1>4, <1>5, <1>6, <1>7, <1>8, <1>9, <1>10, <1>11, <1>12 DEF Usage!Next

LEMMA CountStarts ==
  ASSUME Usage!UsageAssumption, IsFiniteSet(Uploads), Usage!Init
  PROVE  Uncounted = 0
  <1>1. IsFiniteSet(Usage!Periods)
    BY FS_Interval DEF Usage!Periods, Usage!UsageAssumption
  <1>2. /\ \A m \in Usage!Periods : Column(metric, "conversations")[m] = 0
        /\ \A u \in Uploads : PendingIn(upload)[u] = 0
    BY DEF Usage!Init, Usage!Empty, Usage!Idle, Column, PendingIn, Pending
  <1>3. /\ Recorded(metric, "conversations") = 0
        /\ Unrecorded(upload) = 0
    BY <1>1, <1>2, SumZero DEF Recorded, Unrecorded
  <1>4. Cardinality(stored) = 0
    BY FS_EmptySet DEF Usage!Init
  <1> QED
    BY <1>3, <1>4 DEF Uncounted

CountsFit ==
  /\ Uncounted >= 0
  /\ ~Faulty => Uncounted = 0

LEMMA CountInvariance ==
  ASSUME Usage!UsageAssumption, IsFiniteSet(Conversations), IsFiniteSet(Uploads)
  PROVE  Usage!Spec => [](UsageTypes /\ CountsFit)
  <1>1. Usage!Init => CountsFit
    BY CountStarts DEF CountsFit
  <1>2. UsageTypes /\ UsageTypes' /\ CountsFit /\ [Usage!Next]_(Usage!vars) => CountsFit'
    <2> SUFFICES ASSUME UsageTypes, UsageTypes', CountsFit, [Usage!Next]_(Usage!vars)
                 PROVE  CountsFit'
      OBVIOUS
    <2>1. NothingLost
      BY CountStep
    <2>2. Uncounted \in Int
      BY UsageNumbers DEF Uncounted
    <2>3. Uncounted' \in Int
      <3>1. metric' \in [Usage!Periods -> Metric] /\ upload' \in [Uploads -> UploadState]
        BY DEF UsageTypes
      <3>2. /\ Recorded(metric', "conversations") \in Int
            /\ Unrecorded(upload') \in Int
        BY <3>1, ColumnIs, PendingIs
      <3>3. stored' \in SUBSET Conversations
        BY DEF UsageTypes
      <3>4. Cardinality(stored') \in Int
        BY <3>3, Counts
      <3> QED
        BY <3>2, <3>4 DEF Uncounted
    <2> QED
      BY <2>1, <2>2, <2>3 DEF NothingLost, CountsFit
  <1> QED
    BY <1>1, <1>2, UsageInvariance, PTL DEF Usage!Spec

LEMMA FittingCounts ==
  ASSUME Usage!UsageAssumption, IsFiniteSet(Conversations), IsFiniteSet(Uploads),
         UsageTypes, CountsFit
  PROVE  /\ Usage!NeverOvercounted
         /\ ~Faulty => Usage!CountIsExact
  <1>1. /\ Recorded(metric, "conversations") \in Int
        /\ Unrecorded(upload) \in Int
        /\ Cardinality(stored) \in Int
    BY UsageNumbers
  <1>2. /\ Recorded(metric, "conversations") + Unrecorded(upload) <= Cardinality(stored)
        /\ ~Faulty => Recorded(metric, "conversations") + Unrecorded(upload) = Cardinality(stored)
    BY <1>1 DEF CountsFit, Uncounted
  <1> QED
    BY <1>2, SumsAre, SameCount DEF Usage!NeverOvercounted, Usage!CountIsExact

\* However uploads and logins overlap, and wherever they fail, a tenant is never
\* metered for more conversations than it has stored.
THEOREM UsageIsNeverOvercounted ==
  ASSUME Usage!UsageAssumption, IsFiniteSet(Conversations), IsFiniteSet(Uploads)
  PROVE  Usage!Spec => []Usage!NeverOvercounted
  <1>1. UsageTypes /\ CountsFit => Usage!NeverOvercounted
    BY FittingCounts
  <1> QED
    BY <1>1, CountInvariance, PTL

\* Where nothing fails, what is recorded, with what the running uploads are
\* about to record, is exactly what was stored.
THEOREM UsageIsExact ==
  ASSUME Usage!UsageAssumption, IsFiniteSet(Conversations), IsFiniteSet(Uploads), ~Faulty
  PROVE  Usage!Spec => []Usage!CountIsExact
  <1>1. UsageTypes /\ CountsFit => Usage!CountIsExact
    BY FittingCounts
  <1> QED
    BY <1>1, CountInvariance, PTL

\* What the code promises of the metered usage: never more than the tenant has
\* stored, and without faults exactly that; one upload at a time, the plan's limit
\* is kept, and one login at a time, a user is active once a month.
THEOREM UsageAlwaysHolds ==
  ASSUME Usage!UsageAssumption, IsFiniteSet(Conversations), IsFiniteSet(Uploads)
  PROVE  Usage!Spec => []Usage!UsageHolds
  <1> DEFINE Exact == ~Faulty => Usage!CountIsExact
             Limited == Usage!OneUpload => Usage!WithinCap
             Distinct == Usage!OneLogin => Usage!ActiveUsersAreDistinct
  <1>1. Usage!Spec => []Exact
    <2>1. CASE Faulty
      <3>1. Exact
        BY <2>1
      <3> QED
        BY <3>1, PTL
    <2>2. CASE ~Faulty
      <3>1. Usage!CountIsExact => Exact
        OBVIOUS
      <3> QED
        BY <2>2, <3>1, UsageIsExact, PTL
    <2> QED
      BY <2>1, <2>2
  <1>2. Usage!Spec => []Limited
    <2>1. CASE Usage!OneUpload
      <3>1. Usage!WithinCap => Limited
        OBVIOUS
      <3> QED
        BY <2>1, <3>1, LimitsAreKept, PTL
    <2>2. CASE ~Usage!OneUpload
      <3>1. Limited
        BY <2>2
      <3> QED
        BY <3>1, PTL
    <2> QED
      BY <2>1, <2>2
  <1>3. Usage!Spec => []Distinct
    <2>1. CASE Usage!OneLogin
      <3>1. Usage!ActiveUsersAreDistinct => Distinct
        OBVIOUS
      <3> QED
        BY <2>1, <3>1, ActiveUsersAreCountedOnce, PTL
    <2>2. CASE ~Usage!OneLogin
      <3>1. Distinct
        BY <2>2
      <3> QED
        BY <3>1, PTL
    <2> QED
      BY <2>1, <2>2
  <1>4. Usage!TypeOK /\ Usage!NeverOvercounted /\ Exact /\ Limited /\ Distinct
          => Usage!UsageHolds
    BY DEF Usage!UsageHolds
  <1> HIDE DEF Exact, Limited, Distinct
  <1> QED
    BY <1>1, <1>2, <1>3, <1>4, UsageIsTyped, UsageIsNeverOvercounted, PTL

-----------------------------------------------------------------------------
(* Products, quotients and rounding *)

LEMMA Products ==
  ASSUME NEW a \in Int, NEW b \in Int, NEW c \in Nat, a <= b
  PROVE  a * c <= b * c
  OBVIOUS

LEMMA Quotients ==
  ASSUME NEW n \in Nat, NEW d \in Nat \ {0}
  PROVE  /\ n \div d \in Nat /\ n % d \in Nat /\ n % d < d
         /\ n = d * (n \div d) + (n % d)
  OBVIOUS

LEMMA RoundIs ==
  ASSUME NEW n \in Nat, NEW d \in Nat \ {0}, NEW policy
  PROVE  /\ Round(n, d, policy) \in {n \div d, (n \div d) + 1}
         /\ n % d = 0 => Round(n, d, policy) = n \div d
         /\ n \div d \in Nat
  <1>1. n \div d \in Nat
    OBVIOUS
  <1>2. n % d = 0 => Round(n, d, policy) = n \div d
    BY DEF Round
  <1> QED
    BY <1>1, <1>2 DEF Round

LEMMA RoundAtMost ==
  ASSUME NEW n \in Nat, NEW d \in Nat \ {0}, NEW policy, NEW k \in Nat, n <= k * d
  PROVE  Round(n, d, policy) \in 0 .. k
  <1> DEFINE w == n \div d
             r == n % d
  <1>1. w \in Nat /\ r \in Nat /\ r < d /\ n = d * w + r
    BY Quotients, Zenon
  <1>2. Round(n, d, policy) \in {w, w + 1} /\ (r = 0 => Round(n, d, policy) = w)
    BY RoundIs
  <1> HIDE DEF w, r
  <1>3. w <= k
    <2>1. CASE w >= k + 1
      <3>1. (k + 1) * d <= w * d
        BY <1>1, <2>1, Products
      <3>2. (k + 1) * d = k * d + d /\ w * d = d * w /\ k * d \in Int
        BY <1>1
      <3> QED
        BY <1>1, <3>1, <3>2
    <2> QED
      BY <1>1, <2>1
  <1>4. w = k => r = 0
    <2>1. d * k = k * d /\ k * d \in Int
      OBVIOUS
    <2> QED
      BY <1>1, <2>1
  <1> QED
    BY <1>1, <1>2, <1>3, <1>4

LEMMA RoundExact ==
  ASSUME NEW n \in Nat, NEW d \in Nat \ {0}, NEW policy, NEW k \in Nat, n = k * d
  PROVE  Round(n, d, policy) = k
  <1> DEFINE w == n \div d
             r == n % d
  <1>1. w \in Nat /\ r \in Nat /\ r < d /\ n = d * w + r
    BY Quotients, Zenon
  <1>2. r = 0 => Round(n, d, policy) = w
    BY RoundIs
  <1> HIDE DEF w, r
  <1>3. w = k
    <2>1. CASE w >= k + 1
      <3>1. (k + 1) * d <= w * d
        BY <1>1, <2>1, Products
      <3>2. (k + 1) * d = k * d + d /\ w * d = d * w /\ k * d \in Int
        BY <1>1
      <3> QED
        BY <1>1, <3>1, <3>2
    <2>2. CASE w + 1 <= k
      <3>1. (w + 1) * d <= k * d
        BY <1>1, <2>2, Products
      <3>2. (w + 1) * d = w * d + d /\ w * d = d * w /\ k * d \in Int /\ w * d \in Int
        BY <1>1
      <3> QED
        BY <1>1, <3>1, <3>2
    <2> QED
      BY <1>1, <2>1, <2>2
  <1>4. r = 0
    <2>1. d * k = k * d /\ k * d \in Int
      OBVIOUS
    <2> QED
      BY <1>1, <1>3, <2>1
  <1> QED
    BY <1>2, <1>3, <1>4

\* Each policy rounds what is larger to what is at least as large.
LEMMA RoundMonotonic ==
  ASSUME NEW m \in Nat, NEW n \in Nat, NEW d \in Nat \ {0}, NEW policy, m <= n
  PROVE  Round(m, d, policy) <= Round(n, d, policy)
  <1> DEFINE v == m \div d
             w == n \div d
             r == m % d
             t == n % d
  <1>1. /\ v \in Nat /\ r \in Nat /\ r < d /\ m = d * v + r
        /\ w \in Nat /\ t \in Nat /\ t < d /\ n = d * w + t
    BY Quotients, Zenon
  <1>2. Round(m, d, policy) \in {v, v + 1} /\ Round(n, d, policy) \in {w, w + 1}
    BY RoundIs
  <1>3. v <= w
    <2> HIDE DEF v, w, r, t
    <2>1. CASE w + 1 <= v
      <3>1. (w + 1) * d <= v * d
        BY <1>1, <2>1, Products
      <3>2. (w + 1) * d = d * w + d /\ v * d = d * v /\ d * w \in Int /\ d * v \in Int
        BY <1>1
      <3> QED
        BY <1>1, <3>1, <3>2
    <2> QED
      BY <1>1, <2>1
  <1>4. CASE v < w
    <2> HIDE DEF v, w, r, t
    <2> QED
      BY <1>1, <1>2, <1>4
  <1>5. CASE v = w
    <2>1. r <= t
      <3> HIDE DEF v, w, r, t
      <3>1. d * w \in Int
        BY <1>1
      <3> QED
        BY <1>1, <1>5, <3>1
    <2>2. 2 * r <= 2 * t
      <3> HIDE DEF r, t
      <3> QED
        BY <1>1, <2>1
    <2>3. CASE Round(m, d, policy) = v + 1
      <3>1. \/ policy = "ceil" /\ 2 * r > 0
            \/ policy \notin {"ceil", "floor"} /\ (2 * r > d \/ (2 * r = d /\ v % 2 = 1))
        BY <1>1, <2>3 DEF Round
      <3>2. \/ policy = "ceil" /\ 2 * t > 0
            \/ policy \notin {"ceil", "floor"} /\ (2 * t > d \/ (2 * t = d /\ w % 2 = 1))
        <4> HIDE DEF v, w, r, t
        <4> QED
          BY <1>1, <1>5, <2>2, <3>1
      <3>3. Round(n, d, policy) = w + 1
        BY <3>2 DEF Round
      <3> QED
        BY <1>5, <2>3, <3>3
    <2>4. CASE Round(m, d, policy) = v
      <3> HIDE DEF v, w, r, t
      <3> QED
        BY <1>1, <1>2, <1>5, <2>4
    <2> QED
      BY <1>2, <2>3, <2>4
  <1> QED
    BY <1>1, <1>3, <1>4, <1>5

-----------------------------------------------------------------------------
(* What an answer counts for *)

LEMMA MaxOfTwo ==
  ASSUME NEW a \in Int, NEW b \in Int
  PROVE  Max({a, b}) = IF a >= b THEN a ELSE b
  BY DEF Max

LEMMA MinOfTwo ==
  ASSUME NEW a \in Int, NEW b \in Int
  PROVE  Min({a, b}) = IF a <= b THEN a ELSE b
  BY DEF Min

LEMMA ClampIs ==
  ASSUME NEW v \in Int, NEW low \in Int, NEW high \in Int, low <= high
  PROVE  Clamp(v, low, high) = IF v <= low THEN low ELSE IF v >= high THEN high ELSE v
  <1>1. Max({v, low}) = IF v >= low THEN v ELSE low
    BY MaxOfTwo
  <1>2. Max({v, low}) \in Int
    BY <1>1
  <1>3. Min({Max({v, low}), high}) = IF Max({v, low}) <= high THEN Max({v, low}) ELSE high
    BY <1>2, MinOfTwo
  <1> QED
    BY <1>1, <1>3 DEF Clamp

\* The most a normalized answer can be, in 1/Unit points.
Full == Unit * Scale

LEMMA FullIs == ASSUME ScoringAssumption PROVE Full \in Nat
  BY DEF ScoringAssumption, Full

\* A value on a range's scale grows with the value and stays within it.
LEMMA ScaleIs ==
  ASSUME ScoringAssumption, NEW v \in Int, NEW low \in Int, NEW high \in Int,
         low < high => Unit % (high - low) = 0
  PROVE  /\ ScaleValue(v, low, high) \in 0 .. Full
         /\ \A u \in Int : u <= v => ScaleValue(u, low, high) <= ScaleValue(v, low, high)
  <1>1. Unit \in Nat \ {0} /\ Scale \in Nat \ {0}
    BY DEF ScoringAssumption
  <1>2. CASE high <= low
    <2> DEFINE c(u) == Clamp(u, 0, Scale)
    <2>1. \A u \in Int : ScaleValue(u, low, high) = c(u) * Unit
      BY <1>2 DEF ScaleValue
    <2>2. \A u \in Int : c(u) \in 0 .. Scale /\ (u <= v => c(u) <= c(v))
      BY <1>1, ClampIs
    <2> HIDE DEF c
    <2>3. c(v) * Unit <= Scale * Unit /\ 0 * Unit <= c(v) * Unit
      BY <1>1, <2>2, Products
    <2>4. c(v) * Unit \in Int /\ Scale * Unit = Full
      BY <1>1, <2>2 DEF Full
    <2>5. ASSUME NEW u \in Int, u <= v
          PROVE  c(u) * Unit <= c(v) * Unit
      BY <1>1, <2>2, <2>5, Products
    <2> QED
      BY <1>1, <2>1, <2>3, <2>4, <2>5
  <1>3. CASE low < high
    <2> DEFINE width == high - low
               part == Unit \div width
               c(u) == Clamp(u, low, high) - low
    <2>1. \A u \in Int : ScaleValue(u, low, high) = (c(u) * Scale) * part
      BY <1>3 DEF ScaleValue
    <2>2. \A u \in Int : c(u) \in 0 .. width /\ (u <= v => c(u) <= c(v))
      BY <1>3, ClampIs
    <2>3. width \in Nat \ {0}
      BY <1>3
    <2>4. part \in Nat /\ Unit = width * part
      <3>1. /\ Unit \div width \in Nat /\ Unit % width \in Nat
            /\ Unit = width * (Unit \div width) + (Unit % width)
        <4> HIDE DEF width
        <4> QED
          BY <1>1, <2>3, Quotients, Zenon
      <3>2. Unit % width = 0
        BY <1>3
      <3>3. width * part \in Int
        <4> HIDE DEF width
        <4> QED
          BY <2>3, <3>1
      <3> QED
        BY <3>1, <3>2, <3>3
    <2> HIDE DEF c, part, width
    <2>5. ASSUME NEW m \in Int, NEW n \in Int, m <= n
          PROVE  (m * Scale) * part <= (n * Scale) * part
      <3>1. m * Scale <= n * Scale /\ m * Scale \in Int /\ n * Scale \in Int
        BY <1>1, <2>5, Products
      <3> QED
        BY <2>4, <3>1, Products
    <2>6. (width * Scale) * part = Full /\ (0 * Scale) * part = 0
      BY <1>1, <2>3, <2>4 DEF Full
    <2>7. 0 <= (c(v) * Scale) * part /\ (c(v) * Scale) * part <= Full
      <3>1. c(v) \in Int /\ 0 <= c(v) /\ c(v) <= width /\ width \in Int
        BY <2>2, <2>3
      <3> QED
        BY <2>5, <2>6, <3>1
    <2>8. (c(v) * Scale) * part \in Int
      BY <1>1, <2>2, <2>4
    <2>9. Full \in Nat
      BY FullIs
    <2>10. ASSUME NEW u \in Int, u <= v
           PROVE  (c(u) * Scale) * part <= (c(v) * Scale) * part
      <3>1. c(u) \in Int /\ c(v) \in Int /\ c(u) <= c(v)
        BY <2>2, <2>10
      <3> QED
        BY <2>5, <3>1
    <2> QED
      BY <2>1, <2>7, <2>8, <2>9, <2>10
  <1> QED
    BY <1>2, <1>3

AnswersFit(a) == a \in [Questions -> Int \cup {None}]

\* The answers q gets are as in a, or better.
NotWorse(a, b, q) == b[q] = a[q] \/ (b[q] # None /\ (a[q] = None \/ a[q] <= b[q]))

LEMMA NormalizeIs ==
  ASSUME PreviewAssumption, NEW f, FormFits(f), NEW a, AnswersFit(a), NEW q \in Questions
  PROVE  /\ Normalize(f, a, q) \in 0 .. Full
         /\ \A b : AnswersFit(b) /\ NotWorse(a, b, q) =>
              Normalize(f, a, q) <= Normalize(f, b, q)
  <1> DEFINE low == f.range[q].min
             high == f.range[q].max
  <1>1. /\ low \in Int /\ high \in Int /\ f.range[q] # None
        /\ low < high => Unit % (high - low) = 0
    BY DEF FormFits, PreviewAssumption
  <1>2. ScoringAssumption /\ Full \in Nat /\ None \notin Int
    BY FullIs DEF PreviewAssumption, ScoringAssumption
  <1>3. \A c : Normalize(f, c, q) = IF c[q] = None THEN 0 ELSE ScaleValue(c[q], low, high)
    BY <1>1 DEF Normalize
  <1> HIDE DEF low, high
  <1>4. \A v \in Int : ScaleValue(v, low, high) \in 0 .. Full
    BY <1>1, <1>2, ScaleIs
  <1>5. \A c : AnswersFit(c) => c[q] = None \/ c[q] \in Int
    BY DEF AnswersFit
  <1>6. Normalize(f, a, q) \in 0 .. Full
    BY <1>2, <1>3, <1>4, <1>5
  <1>7. ASSUME NEW b, AnswersFit(b), NotWorse(a, b, q)
        PROVE  Normalize(f, a, q) <= Normalize(f, b, q)
    <2>1. CASE b[q] = a[q]
      <3>1. Normalize(f, b, q) = Normalize(f, a, q)
        BY <1>3, <2>1
      <3> QED
        BY <1>6, <3>1
    <2>2. CASE b[q] # None /\ a[q] = None
      <3>1. Normalize(f, a, q) = 0 /\ Normalize(f, b, q) = ScaleValue(b[q], low, high)
        BY <1>3, <2>2
      <3>2. ScaleValue(b[q], low, high) \in 0 .. Full
        BY <1>4, <1>5, <1>7, <2>2
      <3> QED
        BY <1>2, <3>1, <3>2
    <2>3. CASE b[q] # None /\ a[q] # None /\ a[q] <= b[q]
      <3>1. a[q] \in Int /\ b[q] \in Int
        BY <1>5, <1>7, <2>3
      <3>2. ScaleValue(a[q], low, high) <= ScaleValue(b[q], low, high)
        BY <1>1, <1>2, <2>3, <3>1, ScaleIs
      <3> QED
        BY <1>3, <2>3, <3>2
    <2> QED
      BY <1>7, <2>1, <2>2, <2>3 DEF NotWorse
  <1> QED
    BY <1>6, <1>7

-----------------------------------------------------------------------------
(* Weighted means *)

\* A sum of parts of at most k each by weight is at most k times the weight.
LEMMA WeightedSum ==
  ASSUME NEW S, IsFiniteSet(S), NEW w, \A x \in S : w[x] \in Nat, NEW k \in Nat,
         NEW g, \A x \in S : \E n \in 0 .. k : g[x] = n * w[x]
  PROVE  /\ SumFunctionOnSet(w, S) \in Nat
         /\ SumFunctionOnSet(g, S) \in Nat
         /\ SumFunctionOnSet(g, S) <= k * SumFunctionOnSet(w, S)
  <1> DEFINE zero == [x \in S |-> 0]
             most == [x \in S |-> k * w[x]]
  <1>1. ASSUME NEW x \in S
        PROVE  w[x] \in Int /\ g[x] \in Int /\ most[x] \in Int
               /\ zero[x] <= w[x] /\ zero[x] <= g[x] /\ g[x] <= most[x]
    <2>1. PICK n \in 0 .. k : g[x] = n * w[x]
      BY <1>1
    <2>2. w[x] \in Nat
      BY <1>1
    <2>3. n * w[x] <= k * w[x] /\ 0 * w[x] <= n * w[x]
      BY <2>2, Products
    <2>4. n * w[x] \in Int /\ k * w[x] \in Int /\ 0 * w[x] = 0
      BY <2>2
    <2>5. most[x] = k * w[x] /\ zero[x] = 0
      BY <1>1
    <2> QED
      BY <2>1, <2>2, <2>3, <2>4, <2>5
  <1>2. \A x \in S : zero[x] \in Int /\ zero[x] = 0
    OBVIOUS
  <1>3. SumFunctionOnSet(zero, S) = 0
    <2> HIDE DEF zero
    <2> QED
      BY <1>2, SumZero
  <1>4. SumFunctionOnSet(most, S) = k * SumFunctionOnSet(w, S)
    <2>1. \A x \in S : w[x] \in Int /\ most[x] = k * w[x]
      OBVIOUS
    <2>2. k \in Int
      OBVIOUS
    <2> HIDE DEF most
    <2> QED
      BY <2>1, <2>2, SumScaled
  <1> HIDE DEF zero, most
  <1>5. /\ SumFunctionOnSet(zero, S) <= SumFunctionOnSet(w, S)
        /\ SumFunctionOnSet(zero, S) <= SumFunctionOnSet(g, S)
        /\ SumFunctionOnSet(g, S) <= SumFunctionOnSet(most, S)
    BY <1>1, <1>2, SumMonotonic
  <1>6. SumFunctionOnSet(w, S) \in Int /\ SumFunctionOnSet(g, S) \in Int
    BY <1>1, SumType
  <1> QED
    BY <1>3, <1>4, <1>5, <1>6

-----------------------------------------------------------------------------
(* Section scores *)

Weight(f, a, s) == SumFunctionOnSet(f.weight, Visible(f, a, s))

Points(f, a, s) == [q \in Visible(f, a, s) |-> Normalize(f, a, q) * f.weight[q]]

LEMMA SectionScoreIs ==
  ASSUME NEW f, NEW a, NEW s
  PROVE  SectionScore(f, a, s) =
           IF Weight(f, a, s) > 0
           THEN Round(100 * SumFunctionOnSet(Points(f, a, s), Visible(f, a, s)),
                      Unit * Weight(f, a, s), f.policy)
           ELSE 0
  BY DEF SectionScore, Weight, Points, SumFunction

AllFull(f, a, s) == \A q \in Visible(f, a, s) : Normalize(f, a, q) = Full

LEMMA PointsAre ==
  ASSUME PreviewAssumption, NEW f, FormFits(f), NEW a, AnswersFit(a), NEW s
  PROVE  /\ IsFiniteSet(Visible(f, a, s)) /\ Visible(f, a, s) \subseteq Questions
         /\ Weight(f, a, s) \in Nat
         /\ SumFunctionOnSet(Points(f, a, s), Visible(f, a, s)) \in Nat
         /\ SumFunctionOnSet(Points(f, a, s), Visible(f, a, s)) <= Full * Weight(f, a, s)
         /\ AllFull(f, a, s) =>
              SumFunctionOnSet(Points(f, a, s), Visible(f, a, s)) = Full * Weight(f, a, s)
  <1> DEFINE qs == Visible(f, a, s)
             w == f.weight
             g == Points(f, a, s)
  <1>1. qs \subseteq Questions /\ IsFiniteSet(qs)
    <2>1. IsFiniteSet(Questions)
      BY DEF PreviewAssumption
    <2>2. qs \subseteq Questions
      BY DEF Visible
    <2> HIDE DEF qs
    <2> QED
      BY <2>1, <2>2, FS_Subset
  <1>2. \A q \in qs : w[q] \in Nat /\ g[q] = Normalize(f, a, q) * w[q]
    BY <1>1 DEF FormFits, Points
  <1>3. Full \in Nat
    BY FullIs DEF PreviewAssumption
  <1>4. \A q \in qs : Normalize(f, a, q) \in 0 .. Full
    BY <1>1, NormalizeIs
  <1>5. \A q \in qs : \E n \in 0 .. Full : g[q] = n * w[q]
    BY <1>2, <1>4
  <1>6. AllFull(f, a, s) => \A q \in qs : w[q] \in Int /\ g[q] = Full * w[q]
    BY <1>2 DEF AllFull
  <1> HIDE DEF qs, w, g
  <1>7. /\ SumFunctionOnSet(w, qs) \in Nat
        /\ SumFunctionOnSet(g, qs) \in Nat
        /\ SumFunctionOnSet(g, qs) <= Full * SumFunctionOnSet(w, qs)
    BY <1>1, <1>2, <1>3, <1>5, WeightedSum
  <1>8. AllFull(f, a, s) => SumFunctionOnSet(g, qs) = Full * SumFunctionOnSet(w, qs)
    BY <1>1, <1>3, <1>6, SumScaled
  <1> QED
    BY <1>1, <1>7, <1>8 DEF qs, w, g, Weight

LEMMA SectionScoreInScale ==
  ASSUME PreviewAssumption, NEW f, FormFits(f), NEW a, AnswersFit(a), NEW s
  PROVE  /\ SectionScore(f, a, s) \in 0 .. 100 * Scale
         /\ AllFull(f, a, s) /\ Weight(f, a, s) > 0 => SectionScore(f, a, s) = 100 * Scale
  <1> DEFINE n == SumFunctionOnSet(Points(f, a, s), Visible(f, a, s))
             t == Weight(f, a, s)
             d == Unit * t
             k == 100 * Scale
  <1>1. /\ n \in Nat /\ t \in Nat /\ n <= Full * t
        /\ AllFull(f, a, s) => n = Full * t
    BY PointsAre
  <1>2. Unit \in Nat \ {0} /\ Scale \in Nat
    BY DEF PreviewAssumption, ScoringAssumption
  <1>3. SectionScore(f, a, s) = IF t > 0 THEN Round(100 * n, d, f.policy) ELSE 0
    BY SectionScoreIs
  <1> HIDE DEF n, t
  <1>4. CASE t > 0
    <2>1. d \in Nat \ {0} /\ k \in Nat /\ 100 * n \in Nat
      BY <1>1, <1>2, <1>4
    <2>2. 100 * (Full * t) = k * d
      BY <1>1, <1>2 DEF Full
    <2>3. Full * t \in Nat
      BY <1>1, <1>2 DEF Full
    <2>4. 100 * n <= k * d /\ (AllFull(f, a, s) => 100 * n = k * d)
      BY <1>1, <2>2, <2>3
    <2> HIDE DEF d, k
    <2>5. Round(100 * n, d, f.policy) \in 0 .. k
      BY <2>1, <2>4, RoundAtMost
    <2>6. AllFull(f, a, s) => Round(100 * n, d, f.policy) = k
      BY <2>1, <2>4, RoundExact
    <2> QED
      BY <1>3, <1>4, <2>5, <2>6 DEF k, t
  <1>5. CASE ~(t > 0)
    BY <1>2, <1>3, <1>5 DEF t
  <1> QED
    BY <1>4, <1>5

\* b answers what a does as well or better, and shows the same questions.
AllNotWorse(f, a, b) ==
  \A q \in Questions : NotWorse(a, b, q) /\ IsVisible(f, a, q) = IsVisible(f, b, q)

LEMMA SameVisible ==
  ASSUME NEW f, NEW a, NEW b, \A q \in Questions : IsVisible(f, a, q) = IsVisible(f, b, q)
  PROVE  /\ \A s : Visible(f, b, s) = Visible(f, a, s)
         /\ Scored(f, b) = Scored(f, a)
  <1>1. \A s : Visible(f, b, s) = Visible(f, a, s)
    BY Zenon DEF Visible
  <1> QED
    BY <1>1 DEF Scored

LEMMA SectionScoreMonotonic ==
  ASSUME PreviewAssumption, NEW f, FormFits(f), NEW a, AnswersFit(a),
         NEW b, AnswersFit(b), AllNotWorse(f, a, b), NEW s
  PROVE  SectionScore(f, a, s) <= SectionScore(f, b, s)
  <1> DEFINE qs == Visible(f, a, s)
             g == Points(f, a, s)
             h == Points(f, b, s)
             m == SumFunctionOnSet(g, qs)
             n == SumFunctionOnSet(h, qs)
             t == Weight(f, a, s)
             d == Unit * t
  <1>1. Visible(f, b, s) = qs
    BY SameVisible DEF AllNotWorse
  <1>2. IsFiniteSet(qs) /\ qs \subseteq Questions /\ t \in Nat /\ m \in Nat /\ n \in Nat
    BY <1>1, PointsAre
  <1>3. \A q \in qs : g[q] \in Int /\ h[q] \in Int /\ g[q] <= h[q]
    <2> TAKE q \in qs
    <2>1. q \in Questions /\ f.weight[q] \in Nat
      BY <1>2 DEF FormFits
    <2>2. g[q] = Normalize(f, a, q) * f.weight[q] /\ h[q] = Normalize(f, b, q) * f.weight[q]
      BY <1>1 DEF Points
    <2>3. /\ Normalize(f, a, q) \in Int /\ Normalize(f, b, q) \in Int
          /\ Normalize(f, a, q) <= Normalize(f, b, q)
      <3>1. Normalize(f, a, q) \in 0 .. Full /\ Normalize(f, b, q) \in 0 .. Full
        BY <2>1, NormalizeIs
      <3>2. Normalize(f, a, q) <= Normalize(f, b, q)
        BY <2>1, NormalizeIs DEF AllNotWorse
      <3> QED
        BY <3>1, <3>2
    <2>4. Normalize(f, a, q) * f.weight[q] <= Normalize(f, b, q) * f.weight[q]
      BY <2>1, <2>3, Products
    <2>5. Normalize(f, a, q) * f.weight[q] \in Int /\ Normalize(f, b, q) * f.weight[q] \in Int
      BY <2>1, <2>3
    <2> QED
      BY <2>2, <2>4, <2>5
  <1>4. m <= n
    <2> HIDE DEF qs, g, h
    <2> QED
      BY <1>2, <1>3, SumMonotonic
  <1>5. Weight(f, b, s) = t
    BY <1>1 DEF Weight
  <1>6. /\ SectionScore(f, a, s) = IF t > 0 THEN Round(100 * m, d, f.policy) ELSE 0
        /\ SectionScore(f, b, s) = IF t > 0 THEN Round(100 * n, d, f.policy) ELSE 0
    BY <1>1, <1>5, SectionScoreIs
  <1>7. Unit \in Nat \ {0}
    BY DEF PreviewAssumption, ScoringAssumption
  <1> HIDE DEF m, n, t
  <1>8. CASE t > 0
    <2>1. d \in Nat \ {0} /\ 100 * m \in Nat /\ 100 * n \in Nat /\ 100 * m <= 100 * n
      BY <1>2, <1>4, <1>7, <1>8
    <2> HIDE DEF d
    <2>2. Round(100 * m, d, f.policy) <= Round(100 * n, d, f.policy)
      BY <2>1, RoundMonotonic
    <2> QED
      BY <1>6, <1>8, <2>2
  <1>9. CASE ~(t > 0)
    BY <1>6, <1>9
  <1> QED
    BY <1>8, <1>9

-----------------------------------------------------------------------------
(* Overall scores *)

SectionPoints(f, a) == [s \in Scored(f, a) |-> SectionScore(f, a, s) * f.weight[s]]

LEMMA OverallScoreIs ==
  ASSUME NEW f, NEW a
  PROVE  OverallScore(f, a) =
           IF SumFunctionOnSet(f.weight, Scored(f, a)) > 0
           THEN Round(SumFunctionOnSet(SectionPoints(f, a), Scored(f, a)),
                      SumFunctionOnSet(f.weight, Scored(f, a)), f.policy)
           ELSE 0
  BY DEF OverallScore, SectionPoints, SumFunction

\* Every section that is shown is answered in full.
AllSectionsFull(f, a) == \A s \in Scored(f, a) : SectionScore(f, a, s) = 100 * Scale

LEMMA SectionPointsAre ==
  ASSUME PreviewAssumption, NEW f, FormFits(f), NEW a, AnswersFit(a)
  PROVE  LET ss == Scored(f, a)
             n == SumFunctionOnSet(SectionPoints(f, a), ss)
             t == SumFunctionOnSet(f.weight, ss)
         IN  /\ IsFiniteSet(ss) /\ ss \subseteq Sections
             /\ t \in Nat /\ n \in Nat /\ n <= (100 * Scale) * t
             /\ AllSectionsFull(f, a) => n = (100 * Scale) * t
  <1> DEFINE ss == Scored(f, a)
             w == f.weight
             g == SectionPoints(f, a)
             k == 100 * Scale
  <1>1. ss \subseteq Sections /\ IsFiniteSet(ss)
    <2>1. IsFiniteSet(Sections)
      BY DEF PreviewAssumption
    <2>2. ss \subseteq Sections
      BY DEF Scored
    <2> HIDE DEF ss
    <2> QED
      BY <2>1, <2>2, FS_Subset
  <1>2. \A s \in ss : w[s] \in Nat /\ g[s] = SectionScore(f, a, s) * w[s]
    BY <1>1 DEF FormFits, SectionPoints
  <1>3. k \in Nat
    BY DEF PreviewAssumption, ScoringAssumption
  <1>4. \A s \in ss : \E n \in 0 .. k : g[s] = n * w[s]
    BY <1>2, SectionScoreInScale
  <1>5. AllSectionsFull(f, a) => \A s \in ss : w[s] \in Int /\ g[s] = k * w[s]
    BY <1>2 DEF AllSectionsFull
  <1> HIDE DEF ss, w, g, k
  <1>6. /\ SumFunctionOnSet(w, ss) \in Nat
        /\ SumFunctionOnSet(g, ss) \in Nat
        /\ SumFunctionOnSet(g, ss) <= k * SumFunctionOnSet(w, ss)
    BY <1>1, <1>2, <1>3, <1>4, WeightedSum
  <1>7. AllSectionsFull(f, a) => SumFunctionOnSet(g, ss) = k * SumFunctionOnSet(w, ss)
    BY <1>1, <1>3, <1>5, SumScaled
  <1> QED
    BY <1>1, <1>6, <1>7 DEF ss, w, g, k

LEMMA OverallScoreInScale ==
  ASSUME PreviewAssumption, NEW f, FormFits(f), NEW a, AnswersFit(a)
  PROVE  /\ OverallScore(f, a) \in 0 .. 100 * Scale
         /\ /\ AllSectionsFull(f, a)
            /\ SumFunctionOnSet(f.weight, Scored(f, a)) > 0
            => OverallScore(f, a) = 100 * Scale
  <1> DEFINE n == SumFunctionOnSet(SectionPoints(f, a), Scored(f, a))
             t == SumFunctionOnSet(f.weight, Scored(f, a))
             k == 100 * Scale
  <1>1. /\ n \in Nat /\ t \in Nat /\ n <= k * t
        /\ AllSectionsFull(f, a) => n = k * t
    BY SectionPointsAre
  <1>2. k \in Nat
    BY DEF PreviewAssumption, ScoringAssumption
  <1>3. OverallScore(f, a) = IF t > 0 THEN Round(n, t, f.policy) ELSE 0
    BY OverallScoreIs
  <1> HIDE DEF n, t, k
  <1>4. CASE t > 0
    <2>1. t \in Nat \ {0}
      BY <1>1, <1>4
    <2>2. Round(n, t, f.policy) \in 0 .. k
      BY <1>1, <1>2, <2>1, RoundAtMost
    <2>3. AllSectionsFull(f, a) => Round(n, t, f.policy) = k
      BY <1>1, <1>2, <2>1, RoundExact
    <2> QED
      BY <1>3, <1>4, <2>2, <2>3 DEF k
  <1>5. CASE ~(t > 0)
    BY <1>2, <1>3, <1>5 DEF t, k
  <1> QED
    BY <1>4, <1>5

LEMMA OverallScoreMonotonic ==
  ASSUME PreviewAssumption, NEW f, FormFits(f), NEW a, AnswersFit(a),
         NEW b, AnswersFit(b), AllNotWorse(f, a, b)
  PROVE  OverallScore(f, a) <= OverallScore(f, b)
  <1> DEFINE ss == Scored(f, a)
             g == SectionPoints(f, a)
             h == SectionPoints(f, b)
             m == SumFunctionOnSet(g, ss)
             n == SumFunctionOnSet(h, ss)
             t == SumFunctionOnSet(f.weight, ss)
  <1>1. Scored(f, b) = ss
    BY SameVisible DEF AllNotWorse
  <1>2. IsFiniteSet(ss) /\ ss \subseteq Sections /\ t \in Nat /\ m \in Nat /\ n \in Nat
    <2>1. IsFiniteSet(ss) /\ ss \subseteq Sections /\ t \in Nat /\ m \in Nat
      BY SectionPointsAre
    <2>2. n \in Nat
      BY <1>1, SectionPointsAre
    <2> QED
      BY <2>1, <2>2
  <1>3. \A s \in ss : g[s] \in Int /\ h[s] \in Int /\ g[s] <= h[s]
    <2> TAKE s \in ss
    <2> DEFINE x == SectionScore(f, a, s)
               y == SectionScore(f, b, s)
               w == f.weight[s]
    <2>1. w \in Nat
      BY <1>2 DEF FormFits
    <2>2. g[s] = x * w /\ h[s] = y * w
      BY <1>1 DEF SectionPoints
    <2>3. x \in 0 .. 100 * Scale /\ y \in 0 .. 100 * Scale
      BY SectionScoreInScale
    <2>4. x <= y
      BY SectionScoreMonotonic
    <2> HIDE DEF x, y, w, g, h
    <2>5. x * w <= y * w /\ x * w \in Int /\ y * w \in Int
      BY <2>1, <2>3, <2>4, Products
    <2> QED
      BY <2>2, <2>5
  <1>4. m <= n
    <2> HIDE DEF ss, g, h
    <2> QED
      BY <1>2, <1>3, SumMonotonic
  <1>5. /\ OverallScore(f, a) = IF t > 0 THEN Round(m, t, f.policy) ELSE 0
        /\ OverallScore(f, b) = IF t > 0 THEN Round(n, t, f.policy) ELSE 0
    BY <1>1, OverallScoreIs
  <1> HIDE DEF m, n, t
  <1>6. CASE t > 0
    <2>1. t \in Nat \ {0}
      BY <1>2, <1>6
    <2>2. Round(m, t, f.policy) <= Round(n, t, f.policy)
      BY <1>2, <1>4, <2>1, RoundMonotonic
    <2> QED
      BY <1>5, <1>6, <2>2
  <1> QED
    BY <1>5, <1>6

\* What passes keeps passing.
LEMMA PassMonotonic ==
  ASSUME PreviewAssumption, NEW f, FormFits(f), NEW a, AnswersFit(a),
         NEW b, AnswersFit(b), AllNotWorse(f, a, b), PassFail(f, a)
  PROVE  PassFail(f, b)
  <1>1. /\ Scored(f, b) = Scored(f, a)
        /\ \A s : Visible(f, b, s) = Visible(f, a, s)
    BY SameVisible DEF AllNotWorse
  <1>2. 100 * f.passMark \in Int /\ Unit * f.passMark \in Int
    BY DEF FormFits, PreviewAssumption, ScoringAssumption
  <1>3. ASSUME NEW s \in Scored(f, a), s \in f.critical
        PROVE  ~(SectionScore(f, b, s) < 100 * f.passMark)
    <2>1. ~(SectionScore(f, a, s) < 100 * f.passMark)
      BY <1>3 DEF PassFail, CriticalFailure
    <2>2. /\ SectionScore(f, a, s) \in 0 .. 100 * Scale
          /\ SectionScore(f, b, s) \in 0 .. 100 * Scale
      BY SectionScoreInScale
    <2>3. SectionScore(f, a, s) <= SectionScore(f, b, s)
      BY SectionScoreMonotonic
    <2> QED
      BY <1>2, <2>1, <2>2, <2>3
  <1>4. ASSUME NEW s \in Scored(f, a), NEW q \in Visible(f, a, s) \cap f.critical
        PROVE  ~(Normalize(f, b, q) < Unit * f.passMark)
    <2>1. ~(Normalize(f, a, q) < Unit * f.passMark)
      BY DEF PassFail, CriticalFailure
    <2>2. q \in Questions
      BY DEF Visible
    <2>3. Normalize(f, a, q) \in 0 .. Full /\ Normalize(f, b, q) \in 0 .. Full
      BY <2>2, NormalizeIs
    <2>4. Normalize(f, a, q) <= Normalize(f, b, q)
      BY <2>2, NormalizeIs DEF AllNotWorse
    <2> QED
      BY <1>2, <2>1, <2>3, <2>4
  <1>5. ~CriticalFailure(f, b)
    <2>1. \A s \in Scored(f, b) : Visible(f, b, s) = Visible(f, a, s)
      BY <1>1
    <2> QED
      BY <1>1, <1>3, <1>4, <2>1 DEF CriticalFailure
  <1>6. OverallScore(f, b) >= 100 * f.passMark
    <2>1. OverallScore(f, a) >= 100 * f.passMark
      BY DEF PassFail
    <2>2. /\ OverallScore(f, a) \in 0 .. 100 * Scale
          /\ OverallScore(f, b) \in 0 .. 100 * Scale
      BY OverallScoreInScale
    <2>3. OverallScore(f, a) <= OverallScore(f, b)
      BY OverallScoreMonotonic
    <2> QED
      BY <1>2, <2>1, <2>2, <2>3
  <1> QED
    BY <1>5, <1>6 DEF PassFail

LEMMA SumPositive ==
  ASSUME NEW S, IsFiniteSet(S), NEW w, \A x \in S : w[x] \in Nat \ {0}, S # {}
  PROVE  SumFunctionOnSet(w, S) > 0
  <1>1. PICK x \in S : TRUE
    OBVIOUS
  <1>2. IsFiniteSet(S \ {x}) /\ \A y \in S \ {x} : w[y] \in Nat
    BY FS_Subset
  <1>3. SumFunctionOnSet(w, S) = w[x] + SumFunctionOnSet(w, S \ {x})
    BY <1>1, SumRemove
  <1>4. SumFunctionOnSet(w, S \ {x}) \in Nat
    <2>1. \A y \in S \ {x} : \E n \in 0 .. 1 : w[y] = n * w[y]
      BY <1>2
    <2> QED
      BY <1>2, <2>1, WeightedSum
  <1> QED
    BY <1>1, <1>3, <1>4

-----------------------------------------------------------------------------
(* ScorePreview *)

PreviewInv == form \in Forms /\ AnswersFit(answers)

LEMMA PreviewInit == Init => PreviewInv
  BY DEF Init, PreviewInv, AnswersFit

LEMMA PreviewStep ==
  ASSUME PreviewAssumption, PreviewInv, [Next]_vars
  PROVE  PreviewInv'
  <1>1. ASSUME NEW q \in Questions, NEW value \in Values \cup {None}, SetAnswer(q, value)
        PROVE  PreviewInv'
    BY <1>1 DEF PreviewInv, AnswersFit, SetAnswer, PreviewAssumption
  <1>2. ASSUME UNCHANGED vars
        PROVE  PreviewInv'
    BY <1>2 DEF PreviewInv, AnswersFit, vars
  <1> QED
    BY <1>1, <1>2 DEF Next

LEMMA PreviewInvariance == ASSUME PreviewAssumption PROVE Spec => []PreviewInv
  <1>1. PreviewInv /\ [Next]_vars => PreviewInv'
    BY PreviewStep
  <1> QED
    BY <1>1, PreviewInit, PTL DEF Spec

LEMMA PreviewFits ==
  ASSUME PreviewAssumption, PreviewInv
  PROVE  FormFits(form) /\ AnswersFit(answers)
  BY DEF PreviewAssumption, PreviewInv

LEMMA FullAnswers ==
  ASSUME PreviewAssumption, PreviewInv, WeightsArePositive
  PROVE  FullMarks
  <1> SUFFICES ASSUME \E s \in Sections : Visible(form, answers, s) # {},
                      \A s \in Sections : \A q \in Visible(form, answers, s) : AtFull(q)
               PROVE  OverallScore(form, answers) = 100 * Scale
    BY DEF FullMarks
  <1>1. FormFits(form) /\ AnswersFit(answers)
    BY PreviewFits
  <1>2. \A x \in Questions \cup Sections : form.weight[x] \in Nat \ {0}
    BY <1>1 DEF FormFits, WeightsArePositive, PreviewInv
  <1>3. ASSUME NEW s \in Scored(form, answers)
        PROVE  SectionScore(form, answers, s) = 100 * Scale
    <2>1. s \in Sections /\ Visible(form, answers, s) # {}
      BY DEF Scored
    <2>2. AllFull(form, answers, s)
      BY <2>1 DEF AllFull, AtFull, Full
    <2>3. Weight(form, answers, s) > 0
      <3>1. /\ IsFiniteSet(Visible(form, answers, s))
            /\ Visible(form, answers, s) \subseteq Questions
        BY <1>1, PointsAre
      <3>2. \A q \in Visible(form, answers, s) : form.weight[q] \in Nat \ {0}
        BY <1>2, <3>1
      <3> QED
        BY <2>1, <3>1, <3>2, SumPositive DEF Weight
    <2> QED
      BY <1>1, <2>2, <2>3, SectionScoreInScale
  <1>4. SumFunctionOnSet(form.weight, Scored(form, answers)) > 0
    <2>1. IsFiniteSet(Scored(form, answers)) /\ Scored(form, answers) \subseteq Sections
      BY <1>1, SectionPointsAre
    <2>2. Scored(form, answers) # {}
      BY DEF Scored
    <2>3. \A s \in Scored(form, answers) : form.weight[s] \in Nat \ {0}
      BY <1>2, <2>1
    <2> QED
      BY <2>1, <2>2, <2>3, SumPositive
  <1> QED
    BY <1>1, <1>3, <1>4, OverallScoreInScale DEF AllSectionsFull

\* On every form whose questions have ranges, the score is a number of points of
\* the scale, however many are answered and with whatever numbers; and where
\* everything weighs something, full answers to what is shown make the full score.
THEOREM ScoresStayInScale ==
  ASSUME PreviewAssumption
  PROVE  Spec => [](ScoreInScale /\ (WeightsArePositive => FullMarks))
  <1>1. ASSUME PreviewInv
        PROVE  ScoreInScale /\ (WeightsArePositive => FullMarks)
    <2>1. OverallScore(form, answers) \in 0 .. 100 * Scale
      BY <1>1, PreviewFits, OverallScoreInScale
    <2> QED
      BY <1>1, <2>1, FullAnswers DEF ScoreInScale
  <1> QED
    BY <1>1, PreviewInvariance, PTL

\* An answer that improves leaves every answer as good as it was.
LEMMA ImprovesIsNotWorse ==
  ASSUME PreviewAssumption, PreviewInv, Next, NEW q \in Questions, Improves(q)
  PROVE  /\ form' = form /\ AnswersFit(answers')
         /\ AllNotWorse(form, answers, answers')
  <1>1. PICK p \in Questions, value \in Values \cup {None} : SetAnswer(p, value)
    BY DEF Next
  <1>2. form' = form /\ answers' = [answers EXCEPT ![p] = value]
    BY <1>1 DEF SetAnswer
  <1>3. AnswersFit(answers) /\ AnswersFit(answers')
    BY PreviewStep DEF PreviewInv
  <1>4. q = p
    BY <1>2, <1>3 DEF Improves, Changes, AnswersFit
  <1>5. ASSUME NEW x \in Questions
        PROVE  NotWorse(answers, answers', x)
    <2>1. CASE x = q
      <3>1. answers[q] \in Int \cup {None} /\ answers'[q] \in Int
        BY <1>3 DEF AnswersFit, Improves
      <3>2. answers[q] = None \/ answers'[q] > answers[q]
        BY DEF Improves
      <3>3. answers'[q] # None
        BY DEF Improves
      <3> QED
        BY <2>1, <3>1, <3>2, <3>3 DEF NotWorse, PreviewAssumption, ScoringAssumption
    <2>2. CASE x # q
      BY <1>2, <1>3, <1>4, <2>2 DEF NotWorse, AnswersFit
    <2> QED
      BY <2>1, <2>2
  <1>6. \A x \in Questions : IsVisible(form, answers, x) = IsVisible(form, answers', x)
    BY <1>2 DEF Improves, Changes
  <1> QED
    BY <1>2, <1>3, <1>5, <1>6 DEF AllNotWorse

\* What is hidden before and after is not a summand.
LEMMA HiddenStep ==
  ASSUME PreviewAssumption, PreviewInv, Next, NEW q \in Questions, Changes(q),
         ~IsVisible(form, answers, q)
  PROVE  OverallScore(form', answers') = OverallScore(form, answers)
  <1>1. PICK p \in Questions, value \in Values \cup {None} : SetAnswer(p, value)
    BY DEF Next
  <1>2. form' = form /\ answers' = [answers EXCEPT ![p] = value]
    BY <1>1 DEF SetAnswer
  <1>3. AnswersFit(answers)
    BY DEF PreviewInv
  <1>4. q = p
    BY <1>2, <1>3 DEF Changes, AnswersFit
  <1>5. /\ \A s : Visible(form, answers', s) = Visible(form, answers, s)
        /\ Scored(form, answers') = Scored(form, answers)
    BY <1>2, SameVisible DEF Changes
  <1>6. ASSUME NEW s, NEW x \in Visible(form, answers, s)
        PROVE  Normalize(form, answers', x) = Normalize(form, answers, x)
    <2>1. x \in Questions /\ x # q
      BY DEF Visible
    <2>2. answers'[x] = answers[x]
      BY <1>2, <1>3, <1>4, <2>1 DEF AnswersFit
    <2> QED
      BY <2>2, Zenon DEF Normalize
  <1>7. ASSUME NEW s
        PROVE  SectionScore(form, answers', s) = SectionScore(form, answers, s)
    <2>1. Points(form, answers', s) = Points(form, answers, s)
      BY <1>5, <1>6 DEF Points
    <2>2. Weight(form, answers', s) = Weight(form, answers, s)
      BY <1>5 DEF Weight
    <2> QED
      BY <1>5, <2>1, <2>2, SectionScoreIs
  <1>8. SectionPoints(form, answers') = SectionPoints(form, answers)
    BY <1>5, <1>7 DEF SectionPoints
  <1> QED
    BY <1>2, <1>5, <1>8, OverallScoreIs

\* A better answer, or a first one, to whatever form lowers no score and takes
\* no pass away; and what is stored for a hidden question does not count.
THEOREM BetterAnswersScoreMore ==
  ASSUME PreviewAssumption
  PROVE  Spec => [][BetterScoresMore /\ BetterKeepsPass /\ HiddenDoesNotCount]_vars
  <1>1. ASSUME PreviewInv, Next, NEW q \in Questions, Improves(q)
        PROVE  /\ OverallScore(form, answers)' >= OverallScore(form, answers)
               /\ PassFail(form, answers) => PassFail(form, answers)'
    <2>1. /\ form' = form /\ AnswersFit(answers')
          /\ AllNotWorse(form, answers, answers')
      BY <1>1, ImprovesIsNotWorse
    <2>2. FormFits(form) /\ AnswersFit(answers)
      BY <1>1, PreviewFits
    <2>3. OverallScore(form, answers) <= OverallScore(form, answers')
      BY <2>1, <2>2, OverallScoreMonotonic
    <2>4. PassFail(form, answers) => PassFail(form, answers')
      BY <2>1, <2>2, PassMonotonic
    <2> QED
      BY <2>1, <2>3, <2>4
  <1>2. ASSUME PreviewInv, Next
        PROVE  BetterScoresMore /\ BetterKeepsPass /\ HiddenDoesNotCount
    BY <1>1, <1>2, HiddenStep DEF BetterScoresMore, BetterKeepsPass, HiddenDoesNotCount
  <1>3. PreviewInv /\ [Next]_vars
          => [BetterScoresMore /\ BetterKeepsPass /\ HiddenDoesNotCount]_vars
    BY <1>2
  <1> QED
    BY <1>3, PreviewInvariance, PTL DEF Spec

\* What preview_score promises of every form and every way of filling it in.
THEOREM ScoresAlwaysHold == ASSUME PreviewAssumption PROVE Spec => ScoresHold
  BY ScoresStayInScale, BetterAnswersScoreMore DEF ScoresHold
=============================================================================
