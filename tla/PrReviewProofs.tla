--------------------------- MODULE PrReviewProofs ---------------------------
(***************************************************************************)
(* Theorems about PrScope and PrReview, for every value of the constants.  *)
(* First the pure functions: a fold is unrolled into a run of values, and  *)
(* what holds of the run is shown place by place.  Then the job: JobInv    *)
(* and WorldInv are its types, PageInv is about the reviews and summaries  *)
(* on the page that is read, SyncInv about the threads on the way of the   *)
(* publication, and IInv is all of them.                                   *)
(***************************************************************************)
EXTENDS PrReview, FoldFacts, FiniteSetTheorems, TLAPS

-----------------------------------------------------------------------------
\* Sorting.

\* So a sort takes every element from a place of its own.
Moves(s, t) ==
    \E c \in [DOMAIN s -> DOMAIN s] :
        /\ \A p, q \in DOMAIN s : p # q => c[p] # c[q]
        /\ t = [p \in DOMAIN s |-> s[c[p]]]

\* The order by three numbers, and by position where they are equal.
Less(x, y, z, i, j) ==
    \/ x[i] < x[j]
    \/ x[i] = x[j] /\ y[i] < y[j]
    \/ x[i] = x[j] /\ y[i] = y[j] /\ z[i] < z[j]
    \/ x[i] = x[j] /\ y[i] = y[j] /\ z[i] = z[j] /\ i < j

Orders(Under, n, x, y, z) ==
    /\ \A i \in 1..n : x[i] \in Int /\ y[i] \in Int /\ z[i] \in Int /\ Under[i] \subseteq 1..n
    /\ \A i, j \in 1..n : i \in Under[j] <=> Less(x, y, z, i, j)

LEMMA LessTaken ==
    ASSUME NEW n \in Nat, NEW x, NEW y, NEW z, NEW Under, Orders(Under, n, x, y, z)
    PROVE  \A p \in 1..n : \E i \in 1..n : 1 + Cardinality(Under[i]) = p
  <1>0. /\ \A i \in 1..n : x[i] \in Int /\ y[i] \in Int /\ z[i] \in Int /\ Under[i] \subseteq 1..n
        /\ \A i, j \in 1..n : i \in Under[j] <=> Less(x, y, z, i, j)
    BY DEF Orders
  <1>1. ASSUME NEW i \in 1..n
        PROVE  Under[i] \subseteq (1..n) \ {i}
    <2>1. ~Less(x, y, z, i, i)
      BY <1>0 DEF Less
    <2> QED BY <1>0, <2>1
  <1>2. ASSUME NEW i \in 1..n, NEW j \in 1..n, i # j
        PROVE  i \in Under[j] \/ j \in Under[i]
    <2>1. {x[i], x[j], y[i], y[j], z[i], z[j], i, j} \subseteq Int
      BY <1>0
    <2>2. Less(x, y, z, i, j) \/ Less(x, y, z, j, i)
      BY <1>2, <2>1 DEF Less
    <2> QED BY <1>0, <2>2
  <1>3. ASSUME NEW i \in 1..n, NEW j \in 1..n, NEW k \in 1..n, Less(x, y, z, i, j), Less(x, y, z, j, k)
        PROVE  Less(x, y, z, i, k)
    <2>1. {x[i], x[j], x[k], y[i], y[j], y[k], z[i], z[j], z[k], i, j, k} \subseteq Int
      BY <1>0
    <2> QED BY <1>3, <2>1 DEF Less
  <1>4. \A i, j \in 1..n : i \in Under[j] => Under[i] \subseteq Under[j]
    BY <1>0, <1>3
  <1> QED BY <1>1, <1>2, <1>4, PlacesTaken

LEMMA FindingsMove ==
    ASSUME NEW s \in Seq(Finding)
    PROVE  Moves(s, SortFindings(s))
  <1> DEFINE n == Len(s)
             Before(a, b) == \/ severity_rank(a.severity) > severity_rank(b.severity)
                             \/ /\ severity_rank(a.severity) = severity_rank(b.severity)
                                /\ a.file < b.file \/ (a.file = b.file /\ a.line < b.line)
             precedes(i, j) == Before(s[i], s[j]) \/ (~Before(s[j], s[i]) /\ i < j)
             place(i) == 1 + Cardinality({j \in 1..n : precedes(j, i)})
             c == [p \in 1..n |-> CHOOSE i \in 1..n : place(i) = p]
             Under == [i \in 1..n |-> {j \in 1..n : precedes(j, i)}]
             x == [i \in 1..n |-> 0 - severity_rank(s[i].severity)]
             y == [i \in 1..n |-> s[i].file]
             z == [i \in 1..n |-> s[i].line]
  <1>1. n \in Nat /\ DOMAIN s = 1..n
    OBVIOUS
  <1>2. \A i \in 1..n : severity_rank(s[i].severity) \in Int /\ s[i].file \in Int /\ s[i].line \in Int
    <2>1. \A i \in 1..n : s[i].file \in Int /\ s[i].line \in Int
      <3>1. \A i \in 1..n : s[i] \in Finding
        OBVIOUS
      <3>2. \A f \in Finding : f.file \in Int /\ f.line \in Int
        BY DEF Finding
      <3> QED BY <3>1, <3>2
    <2>2. \A i \in 1..n : severity_rank(s[i].severity) \in Int
      BY DEF severity_rank
    <2> QED BY <2>1, <2>2
  <1>3. \A i \in 1..n : x[i] \in Int /\ y[i] \in Int /\ z[i] \in Int
    BY <1>2
  <1>4. ASSUME NEW i \in 1..n, NEW j \in 1..n
        PROVE  precedes(i, j) <=> Less(x, y, z, i, j)
    <2>1. /\ x[i] = 0 - severity_rank(s[i].severity) /\ y[i] = s[i].file /\ z[i] = s[i].line
          /\ x[j] = 0 - severity_rank(s[j].severity) /\ y[j] = s[j].file /\ z[j] = s[j].line
      OBVIOUS
    <2>2. {severity_rank(s[i].severity), severity_rank(s[j].severity), s[i].file, s[j].file, s[i].line, s[j].line, i, j}
              \subseteq Int
      BY <1>2
    <2> HIDE DEF x, y, z
    <2> QED BY <2>1, <2>2 DEF Less
  <1>5. SortFindings(s) = [p \in 1..n |-> s[CHOOSE i \in 1..n : place(i) = p]]
    BY <1>1 DEF SortFindings, StableSort
  <1>6. /\ \A i \in 1..n : Under[i] \subseteq 1..n /\ place(i) = 1 + Cardinality(Under[i])
        /\ \A i, j \in 1..n : i \in Under[j] <=> precedes(i, j)
    <2> HIDE DEF precedes
    <2> QED OBVIOUS
  <1> HIDE DEF precedes, place, Under, x, y, z
  <1>7. \A p \in 1..n : \E i \in 1..n : place(i) = p
    <2>1. \A i, j \in 1..n : i \in Under[j] <=> Less(x, y, z, i, j)
      BY <1>4, <1>6
    <2>2. \A p \in 1..n : \E i \in 1..n : 1 + Cardinality(Under[i]) = p
      <3>1. Orders(Under, n, x, y, z)
        BY <1>3, <1>6, <2>1 DEF Orders
      <3> HIDE DEF n
      <3> QED BY <1>1, <3>1, LessTaken
    <2> QED BY <1>6, <2>2
  <1>8. \A p \in 1..n : c[p] = (CHOOSE i \in 1..n : place(i) = p)
    OBVIOUS
  <1>9. \A p \in 1..n : c[p] \in 1..n /\ place(c[p]) = p
    BY <1>7, <1>8
  <1>10. c \in [1..n -> 1..n]
    BY <1>7
  <1>11. SortFindings(s) = [p \in 1..n |-> s[c[p]]]
    BY <1>5, <1>8
  <1> HIDE DEF c
  <1>12. \A p, q \in 1..n : p # q => c[p] # c[q]
    BY <1>9
  <1> QED BY <1>1, <1>10, <1>11, <1>12 DEF Moves

-----------------------------------------------------------------------------
\* The loops.  Each is a fold; its run is what has been gathered after each element.

IsRun(run, n, base, result) == run[0] = base /\ result = run[n]

LEMMA KeptRuns ==
    ASSUME NEW scope, NEW kept \in Seq(Finding), NEW s \in Seq(Finding)
    PROVE  \E run : /\ IsRun(run, Len(s), kept, KeptOf(scope, kept, s))
                    /\ \A k \in 1..Len(s) : run[k] = Kept(scope, run[k - 1], s[k])
  <1> DEFINE n == Len(s)
             V == Seq(Finding)
             F == [v \in V \X (1..n) |-> Kept(scope, v[1], s[v[2]])]
             Body(g) == [t \in SUBSET (1..n) |-> IF t = {} THEN kept ELSE Kept(scope, g[t \ {Max(t)}], s[Max(t)])]
             it == CHOOSE g : g = Body(g)
             run == [k \in 0..n |-> it[1..k]]
  <1>1. n \in Nat /\ DOMAIN s = 1..n
    OBVIOUS
  <1>2. KeptOf(scope, kept, s) = it[1..n]
    BY <1>1 DEF KeptOf, FoldLeft, MapThenFoldSet
  <1>3. F \in [V \X (1..n) -> V]
    <2>1. \A v \in V, k \in 1..n : Kept(scope, v, s[k]) \in V
      BY DEF Kept
    <2> QED BY <2>1
  <1>4. PICK g : g \in [SUBSET (1..n) -> V] /\ GoesUpwards(g, n, kept, F)
    <2>1. kept \in V
      OBVIOUS
    <2> HIDE DEF F, n, V
    <2> QED BY <1>1, <1>3, <2>1, FoldUpwards
  <1>5. ASSUME NEW t \in SUBSET (1..n), t # {}
        PROVE  F[<<g[t \ {Max(t)}], Max(t)>>] = Kept(scope, g[t \ {Max(t)}], s[Max(t)])
    <2>1. Max(t) \in 1..n
      <3>1. IsFiniteSet(1..n) /\ 1..n \subseteq Int
        BY <1>1, FS_Interval
      <3> HIDE DEF n
      <3> QED BY <1>5, <3>1, MaxIn
    <2>2. t \ {Max(t)} \in SUBSET (1..n)
      OBVIOUS
    <2>3. g[t \ {Max(t)}] \in V
      BY <1>4, <2>2
    <2> HIDE DEF n, V
    <2> QED BY <2>1, <2>3
  <1>6. g = Body(g)
    <2> HIDE DEF F
    <2> QED BY <1>4, <1>5 DEF GoesUpwards
  <1>7. it = Body(it)
    <2> HIDE DEF Body
    <2> QED BY <1>6
  <1>8. \A t \in SUBSET (1..n) : it[t] = IF t = {} THEN kept ELSE Kept(scope, it[t \ {Max(t)}], s[Max(t)])
    <2> HIDE DEF it
    <2> QED BY <1>7
  <1> HIDE DEF it
  <1>9. run[0] = kept /\ KeptOf(scope, kept, s) = run[n]
    <2>1. 1..0 = {} /\ {} \in SUBSET (1..n) /\ 0 \in 0..n /\ n \in 0..n
      BY <1>1
    <2>2. it[{}] = kept
      BY <1>8, <2>1
    <2>3. run[0] = it[1..0] /\ run[n] = it[1..n]
      BY <2>1
    <2> QED BY <1>2, <2>1, <2>2, <2>3
  <1>10. ASSUME NEW k \in 1..n
         PROVE  run[k] = Kept(scope, run[k - 1], s[k])
    <2>1. Max(1..k) = k /\ (1..k) \ {k} = 1..(k - 1) /\ 1..k # {} /\ 1..k \in SUBSET (1..n)
      <3> HIDE DEF n
      <3> QED BY <1>1, LastOfPrefix
    <2>2. it[1..k] = Kept(scope, it[1..(k - 1)], s[k])
      BY <1>8, <2>1
    <2>3. k \in 0..n /\ k - 1 \in 0..n
      OBVIOUS
    <2> QED BY <2>2, <2>3
  <1> HIDE DEF run
  <1> QED BY <1>9, <1>10 DEF IsRun

\* Findings no two of which are the same one.
Apart(s) == \A i, j \in DOMAIN s : i # j => build_finding_key(s[i]) # build_finding_key(s[j])

LEMMA KeptApart ==
    ASSUME NEW scope, NEW kept \in Seq(Finding), Apart(kept), NEW f \in Finding
    PROVE  Kept(scope, kept, f) \in Seq(Finding) /\ Apart(Kept(scope, kept, f))
  <1>1. CASE Kept(scope, kept, f) = kept
    BY <1>1
  <1>2. CASE Kept(scope, kept, f) # kept
    <2> DEFINE all == Append(kept, f)
    <2>1. Kept(scope, kept, f) = all /\ \A g \in ToSet(kept) : build_finding_key(g) # build_finding_key(f)
      BY <1>2 DEF Kept
    <2>2. /\ all \in Seq(Finding) /\ DOMAIN all = 1..(Len(kept) + 1) /\ all[Len(kept) + 1] = f
          /\ \A i \in 1..Len(kept) : all[i] = kept[i] /\ kept[i] \in ToSet(kept) /\ i \in DOMAIN kept
      BY DEF ToSet
    <2> HIDE DEF all
    <2>3. Apart(all)
      <3> SUFFICES ASSUME NEW i \in DOMAIN all, NEW j \in DOMAIN all, i # j
                   PROVE  build_finding_key(all[i]) # build_finding_key(all[j])
        BY DEF Apart
      <3>1. CASE i \in 1..Len(kept) /\ j \in 1..Len(kept)
        BY <2>2, <3>1 DEF Apart
      <3>2. CASE i \notin 1..Len(kept)
        <4>1. i = Len(kept) + 1 /\ j \in 1..Len(kept)
          BY <2>2, <3>2
        <4> QED BY <2>1, <2>2, <4>1
      <3>3. CASE j \notin 1..Len(kept)
        <4>1. j = Len(kept) + 1 /\ i \in 1..Len(kept)
          BY <2>2, <3>3
        <4> QED BY <2>1, <2>2, <4>1
      <3> QED BY <3>1, <3>2, <3>3
    <2> QED BY <2>1, <2>2, <2>3
  <1> QED BY <1>1, <1>2

LEMMA KeptOfApart ==
    ASSUME NEW scope, NEW kept \in Seq(Finding), Apart(kept), NEW s \in Seq(Finding)
    PROVE  KeptOf(scope, kept, s) \in Seq(Finding) /\ Apart(KeptOf(scope, kept, s))
  <1>1. PICK run : /\ IsRun(run, Len(s), kept, KeptOf(scope, kept, s))
                   /\ \A k \in 1..Len(s) : run[k] = Kept(scope, run[k - 1], s[k])
    BY KeptRuns
  <1> DEFINE T == {k \in 0..Len(s) : run[k] \in Seq(Finding) /\ Apart(run[k])}
  <1>2. Len(s) \in Nat /\ \A k \in 1..Len(s) : s[k] \in Finding
    OBVIOUS
  <1>3. 0 \in T
    BY <1>1, <1>2 DEF IsRun
  <1>4. ASSUME NEW k \in 1..Len(s), k - 1 \in T PROVE k \in T
    <2>1. run[k - 1] \in Seq(Finding) /\ Apart(run[k - 1])
      BY <1>4
    <2> QED BY <1>1, <1>2, <2>1, KeptApart
  <1> HIDE DEF T
  <1>5. \A k \in 0..Len(s) : k \in T
    BY <1>2, <1>3, <1>4, UpToLast
  <1>6. Len(s) \in 0..Len(s)
    BY <1>2
  <1> QED BY <1>1, <1>5, <1>6 DEF T, IsRun

Review == [findings : Seq(Finding), verdict : {"pass", "warn", "fail"}]

LEMMA DedupedRuns ==
    ASSUME NEW scope, NEW answers \in Seq(Review)
    PROVE  \E run : /\ IsRun(run, Len(answers), <<>>, Deduped(scope, answers))
                    /\ \A k \in 1..Len(answers) : run[k] = KeptOf(scope, run[k - 1], answers[k].findings)
  <1> DEFINE n == Len(answers)
             V == {s \in Seq(Finding) : Apart(s)}
             F == [v \in V \X (1..n) |-> KeptOf(scope, v[1], answers[v[2]].findings)]
             Body(g) == [t \in SUBSET (1..n) |-> IF t = {} THEN <<>> ELSE KeptOf(scope, g[t \ {Max(t)}], answers[Max(t)].findings)]
             it == CHOOSE g : g = Body(g)
             run == [k \in 0..n |-> it[1..k]]
  <1>1. n \in Nat /\ DOMAIN answers = 1..n /\ \A k \in 1..n : answers[k].findings \in Seq(Finding)
    <2>1. \A k \in 1..n : answers[k] \in Review
      OBVIOUS
    <2> QED BY <2>1 DEF Review
  <1>2. Deduped(scope, answers) = it[1..n]
    BY <1>1 DEF Deduped, FoldLeft, MapThenFoldSet
  <1>3. F \in [V \X (1..n) -> V]
    <2>1. \A v \in V, k \in 1..n : KeptOf(scope, v, answers[k].findings) \in V
      BY <1>1, KeptOfApart
    <2> HIDE DEF n, V
    <2> QED BY <2>1
  <1>4. PICK g : g \in [SUBSET (1..n) -> V] /\ GoesUpwards(g, n, <<>>, F)
    <2>1. <<>> \in V
      BY DEF Apart
    <2> HIDE DEF F, n, V
    <2> QED BY <1>1, <1>3, <2>1, FoldUpwards
  <1>5. ASSUME NEW t \in SUBSET (1..n), t # {}
        PROVE  F[<<g[t \ {Max(t)}], Max(t)>>] = KeptOf(scope, g[t \ {Max(t)}], answers[Max(t)].findings)
    <2>1. Max(t) \in 1..n
      <3>1. IsFiniteSet(1..n) /\ 1..n \subseteq Int
        BY <1>1, FS_Interval
      <3> HIDE DEF n
      <3> QED BY <1>5, <3>1, MaxIn
    <2>2. t \ {Max(t)} \in SUBSET (1..n)
      OBVIOUS
    <2>3. g[t \ {Max(t)}] \in V
      BY <1>4, <2>2
    <2> HIDE DEF n, V
    <2> QED BY <2>1, <2>3
  <1>6. g = Body(g)
    <2> HIDE DEF F
    <2> QED BY <1>4, <1>5 DEF GoesUpwards
  <1>7. it = Body(it)
    <2> HIDE DEF Body
    <2> QED BY <1>6
  <1>8. \A t \in SUBSET (1..n) :
            it[t] = IF t = {} THEN <<>> ELSE KeptOf(scope, it[t \ {Max(t)}], answers[Max(t)].findings)
    <2> HIDE DEF it
    <2> QED BY <1>7
  <1> HIDE DEF it
  <1>9. run[0] = <<>> /\ Deduped(scope, answers) = run[n]
    <2>1. 1..0 = {} /\ {} \in SUBSET (1..n) /\ 0 \in 0..n /\ n \in 0..n
      BY <1>1
    <2>2. it[{}] = <<>>
      BY <1>8, <2>1
    <2>3. run[0] = it[1..0] /\ run[n] = it[1..n]
      BY <2>1
    <2> QED BY <1>2, <2>1, <2>2, <2>3
  <1>10. ASSUME NEW k \in 1..n
         PROVE  run[k] = KeptOf(scope, run[k - 1], answers[k].findings)
    <2>1. Max(1..k) = k /\ (1..k) \ {k} = 1..(k - 1) /\ 1..k # {} /\ 1..k \in SUBSET (1..n)
      <3> HIDE DEF n
      <3> QED BY <1>1, LastOfPrefix
    <2>2. it[1..k] = KeptOf(scope, it[1..(k - 1)], answers[k].findings)
      BY <1>8, <2>1
    <2>3. k \in 0..n /\ k - 1 \in 0..n
      OBVIOUS
    <2> QED BY <2>2, <2>3
  <1> HIDE DEF run
  <1> QED BY <1>9, <1>10 DEF IsRun

LEMMA DedupedApart ==
    ASSUME NEW scope, NEW answers \in Seq(Review)
    PROVE  Deduped(scope, answers) \in Seq(Finding) /\ Apart(Deduped(scope, answers))
  <1>1. PICK run : /\ IsRun(run, Len(answers), <<>>, Deduped(scope, answers))
                   /\ \A k \in 1..Len(answers) : run[k] = KeptOf(scope, run[k - 1], answers[k].findings)
    BY DedupedRuns
  <1> DEFINE T == {k \in 0..Len(answers) : run[k] \in Seq(Finding) /\ Apart(run[k])}
  <1>2. Len(answers) \in Nat /\ \A k \in 1..Len(answers) : answers[k].findings \in Seq(Finding)
    <2>1. \A k \in 1..Len(answers) : answers[k] \in Review
      OBVIOUS
    <2> QED BY <2>1 DEF Review
  <1>3. 0 \in T
    <2>1. run[0] = <<>> /\ <<>> \in Seq(Finding) /\ Apart(<<>>)
      BY <1>1 DEF IsRun, Apart
    <2>2. 0 \in 0..Len(answers)
      BY <1>2
    <2> QED BY <2>1, <2>2
  <1>4. ASSUME NEW k \in 1..Len(answers), k - 1 \in T PROVE k \in T
    <2>1. run[k - 1] \in Seq(Finding) /\ Apart(run[k - 1])
      BY <1>4
    <2> QED BY <1>1, <1>2, <2>1, KeptOfApart
  <1> HIDE DEF T
  <1>5. \A k \in 0..Len(answers) : k \in T
    BY <1>2, <1>3, <1>4, UpToLast
  <1>6. Len(answers) \in 0..Len(answers)
    BY <1>2
  <1> QED BY <1>1, <1>5, <1>6 DEF T, IsRun

\* What moves stays apart.
LEMMA MovedApart ==
    ASSUME NEW s \in Seq(Finding), NEW t, Apart(s), Moves(s, t)
    PROVE  t \in Seq(Finding) /\ Apart(t) /\ ToSet(t) \subseteq ToSet(s)
  <1>1. PICK c \in [DOMAIN s -> DOMAIN s] : /\ \A p, q \in DOMAIN s : p # q => c[p] # c[q]
                                            /\ t = [p \in DOMAIN s |-> s[c[p]]]
    BY DEF Moves
  <1>2. DOMAIN s = 1..Len(s) /\ Len(s) \in Nat
    OBVIOUS
  <1>3. t \in Seq(Finding) /\ DOMAIN t = DOMAIN s
    <2>1. \A p \in 1..Len(s) : s[c[p]] \in Finding
      BY <1>2
    <2>2. t = [p \in 1..Len(s) |-> s[c[p]]]
      BY <1>1, <1>2
    <2> QED BY <1>2, <2>1, <2>2
  <1>4. Apart(t)
    BY <1>1, <1>3 DEF Apart
  <1> QED BY <1>1, <1>3, <1>4 DEF ToSet

LEMMA NormalizedReview ==
    ASSUME NEW review, review.findings \in Seq(Finding)
    PROVE  normalize_review(review) \in Review
  <1> DEFINE clean(f) == [file |-> f.file, title |-> f.title,
                          severity |-> IF severity_rank(f.severity) = 0 THEN "medium" ELSE f.severity,
                          line |-> IF f.line < 0 THEN 0 ELSE f.line]
             findings == [i \in DOMAIN review.findings |-> clean(review.findings[i])]
             n == Len(review.findings)
  <1>1. n \in Nat /\ DOMAIN review.findings = 1..n
    OBVIOUS
  <1>2. ASSUME NEW f \in Finding PROVE clean(f) \in Finding
    <2>1. f.file \in Nat /\ f.title \in STRING /\ f.severity \in Severities /\ f.line \in Int
      BY DEF Finding
    <2> DEFINE severity == IF severity_rank(f.severity) = 0 THEN "medium" ELSE f.severity
               line == IF f.line < 0 THEN 0 ELSE f.line
    <2>2. severity \in Severities
      BY <2>1 DEF Severities
    <2>4. line \in Int
      <3>1. 0 \in Int
        OBVIOUS
      <3> QED BY <2>1, <3>1
    <2>3. clean(f) = [file |-> f.file, title |-> f.title, severity |-> severity, line |-> line]
      OBVIOUS
    <2> HIDE DEF severity, line, clean
    <2> QED BY <2>1, <2>2, <2>3, <2>4 DEF Finding
  <1>3. \A i \in 1..n : review.findings[i] \in Finding
    OBVIOUS
  <1>4. findings \in Seq(Finding)
    <2>1. findings = [i \in 1..n |-> clean(review.findings[i])] /\ \A i \in 1..n : clean(review.findings[i]) \in Finding
      BY <1>1, <1>2, <1>3
    <2> HIDE DEF findings, clean
    <2> QED BY <1>1, <2>1
  <1>5. SortFindings(findings) \in Seq(Finding)
    <2>1. PICK c \in [DOMAIN findings -> DOMAIN findings] :
              SortFindings(findings) = [p \in DOMAIN findings |-> findings[c[p]]]
      <3> HIDE DEF findings
      <3> QED BY <1>4, FindingsMove DEF Moves
    <2> HIDE DEF findings
    <2>2. DOMAIN findings = 1..Len(findings) /\ Len(findings) \in Nat
      BY <1>4
    <2>3. \A p \in 1..Len(findings) : findings[c[p]] \in Finding
      BY <1>4, <2>2
    <2> QED BY <2>1, <2>2, <2>3
  <1> HIDE DEF findings
  <1> DEFINE given == IF review.verdict \in {"pass", "warn", "fail"} THEN review.verdict ELSE "warn"
             verdict == CASE \E i \in DOMAIN findings : findings[i].severity = "high" -> "fail"
                          [] findings # <<>> /\ given = "pass" -> "warn"
                          [] findings = <<>> /\ given = "fail" -> "warn"
                          [] OTHER -> given
  <1>6. normalize_review(review) = [findings |-> SortFindings(findings), verdict |-> verdict]
    BY DEF normalize_review, findings
  <1>7. given \in {"pass", "warn", "fail"}
    OBVIOUS
  <1>8. verdict \in {"pass", "warn", "fail"}
    <2> HIDE DEF given
    <2> QED BY <1>7
  <1> HIDE DEF verdict
  <1> QED BY <1>5, <1>6, <1>8 DEF Review

\* The findings of a job are told apart by their keys.
LEMMA MergedApart ==
    ASSUME NEW scope, NEW answers \in Seq(Review)
    PROVE  LET merged == merge_reviews(scope, answers) IN merged \in Review /\ Apart(merged.findings)
  <1> DEFINE findings == SortFindings(Deduped(scope, answers))
             verdict == IF \E f \in ToSet(findings) : f.severity = "high" THEN "fail"
                        ELSE IF findings # <<>> THEN "warn" ELSE "pass"
  <1>1. findings \in Seq(Finding) /\ Apart(findings)
    BY DedupedApart, FindingsMove, MovedApart
  <1>2. merge_reviews(scope, answers) = [findings |-> findings, verdict |-> verdict]
    BY DEF merge_reviews
  <1>3. verdict \in {"pass", "warn", "fail"}
    OBVIOUS
  <1> HIDE DEF findings, verdict
  <1> QED BY <1>1, <1>2, <1>3 DEF Review

-----------------------------------------------------------------------------
\* The new comments of a job.

LEMMA NewRuns ==
    ASSUME job.merged.findings \in Seq(Finding)
    PROVE  LET s == job.merged.findings IN
           \E run : /\ IsRun(run, Len(s), <<>>, NewFindings)
                    /\ \A k \in 1..Len(s) : run[k] = WithComment(run[k - 1], s[k])
  <1> DEFINE s == job.merged.findings
             n == Len(s)
             V == Seq(Finding)
             F == [v \in V \X (1..n) |-> WithComment(v[1], s[v[2]])]
             Body(g) == [t \in SUBSET (1..n) |-> IF t = {} THEN <<>> ELSE WithComment(g[t \ {Max(t)}], s[Max(t)])]
             it == CHOOSE g : g = Body(g)
             run == [k \in 0..n |-> it[1..k]]
  <1>1. n \in Nat /\ DOMAIN s = 1..n
    OBVIOUS
  <1>2. NewFindings = it[1..n]
    BY <1>1 DEF NewFindings, FoldLeft, MapThenFoldSet
  <1>3. F \in [V \X (1..n) -> V]
    <2>1. \A v \in V, k \in 1..n : WithComment(v, s[k]) \in V
      BY DEF WithComment
    <2> HIDE DEF s, n, V
    <2> QED BY <2>1
  <1>4. PICK g : g \in [SUBSET (1..n) -> V] /\ GoesUpwards(g, n, <<>>, F)
    <2>1. <<>> \in V
      OBVIOUS
    <2> HIDE DEF F, n, V
    <2> QED BY <1>1, <1>3, <2>1, FoldUpwards
  <1>5. ASSUME NEW t \in SUBSET (1..n), t # {}
        PROVE  F[<<g[t \ {Max(t)}], Max(t)>>] = WithComment(g[t \ {Max(t)}], s[Max(t)])
    <2>1. Max(t) \in 1..n
      <3> HIDE DEF s, n
      <3>1. IsFiniteSet(1..n) /\ 1..n \subseteq Int
        BY <1>1, FS_Interval
      <3> QED BY <1>5, <3>1, MaxIn
    <2>2. t \ {Max(t)} \in SUBSET (1..n)
      OBVIOUS
    <2>3. g[t \ {Max(t)}] \in V
      BY <1>4, <2>2
    <2> HIDE DEF s, n, V
    <2> QED BY <2>1, <2>3
  <1>6. g = Body(g)
    <2> HIDE DEF F
    <2> QED BY <1>4, <1>5 DEF GoesUpwards
  <1>7. it = Body(it)
    <2> HIDE DEF Body
    <2> QED BY <1>6
  <1>8. \A t \in SUBSET (1..n) :
            it[t] = IF t = {} THEN <<>> ELSE WithComment(it[t \ {Max(t)}], s[Max(t)])
    <2> HIDE DEF it
    <2> QED BY <1>7
  <1> HIDE DEF it
  <1>9. run[0] = <<>> /\ NewFindings = run[n]
    <2>1. 1..0 = {} /\ {} \in SUBSET (1..n) /\ 0 \in 0..n /\ n \in 0..n
      BY <1>1
    <2>2. it[{}] = <<>>
      BY <1>8, <2>1
    <2>3. run[0] = it[1..0] /\ run[n] = it[1..n]
      BY <2>1
    <2> QED BY <1>2, <2>1, <2>2, <2>3
  <1>10. ASSUME NEW k \in 1..n
         PROVE  run[k] = WithComment(run[k - 1], s[k])
    <2>1. Max(1..k) = k /\ (1..k) \ {k} = 1..(k - 1) /\ 1..k # {} /\ 1..k \in SUBSET (1..n)
      <3> HIDE DEF n
      <3> QED BY <1>1, LastOfPrefix
    <2>2. it[1..k] = WithComment(it[1..(k - 1)], s[k])
      BY <1>8, <2>1
    <2>3. k \in 0..n /\ k - 1 \in 0..n
      OBVIOUS
    <2> QED BY <2>2, <2>3
  <1> HIDE DEF run
  <1> QED BY <1>9, <1>10 DEF IsRun

\* What the loop does with a finding: it has a thread, or no line, or comes too late, or is new.
Passed(new, f) ==
    \/ build_finding_key(f) \in job.tracked
    \/ Anchor(f) = NoLine
    \/ Len(new) = MaxComments
    \/ f \in ToSet(new)

Commented(new, s, k) ==
    /\ new \in Seq(Finding) /\ Len(new) <= MaxComments /\ Apart(new)
    /\ \A m \in DOMAIN new : build_finding_key(new[m]) \notin job.tracked /\ \E i \in 1..k : new[m] = s[i]
    /\ \A i \in 1..k : Passed(new, s[i])

LEMMA CommentedStep ==
    ASSUME NEW s \in Seq(Finding), Apart(s), NEW k \in 1..Len(s), NEW new, Commented(new, s, k - 1)
    PROVE  Commented(WithComment(new, s[k]), s, k)
  <1> DEFINE f == s[k]
             all == Append(new, f)
  <1>0. MaxComments \in Nat
    BY Bounds
  <1>1. /\ new \in Seq(Finding) /\ Len(new) <= MaxComments /\ Apart(new) /\ Len(new) \in Nat
        /\ \A m \in DOMAIN new : build_finding_key(new[m]) \notin job.tracked
        /\ \A m \in DOMAIN new : \E i \in 1..(k - 1) : new[m] = s[i]
        /\ \A i \in 1..(k - 1) : Passed(new, s[i])
    BY DEF Commented
  <1>2. k \in Nat /\ k - 1 \in Nat /\ (1..k) = (1..(k - 1)) \cup {k} /\ k \notin 1..(k - 1) /\ f \in Finding
        /\ 1..k \subseteq DOMAIN s
    OBVIOUS
  <1>3. CASE Len(new) < MaxComments /\ build_finding_key(f) \notin job.tracked /\ Anchor(f) # NoLine
    <2>1. WithComment(new, f) = all
      BY <1>3 DEF WithComment
    <2>2. /\ all \in Seq(Finding) /\ DOMAIN all = 1..(Len(new) + 1) /\ all[Len(new) + 1] = f /\ Len(all) = Len(new) + 1
          /\ DOMAIN new = 1..Len(new)
          /\ \A m \in 1..Len(new) : all[m] = new[m] /\ m \in DOMAIN all
      BY <1>1, <1>2
    <2> HIDE DEF all
    <2>3. \A m \in 1..Len(new) : build_finding_key(new[m]) # build_finding_key(f)
      <3> SUFFICES ASSUME NEW m \in 1..Len(new) PROVE build_finding_key(new[m]) # build_finding_key(f)
        OBVIOUS
      <3>1. PICK i \in 1..(k - 1) : new[m] = s[i]
        BY <1>1, <2>2
      <3>2. i \in DOMAIN s /\ k \in DOMAIN s /\ i # k
        BY <1>2
      <3> QED BY <3>1, <3>2 DEF Apart
    <2>4. Apart(all)
      <3> SUFFICES ASSUME NEW i \in DOMAIN all, NEW j \in DOMAIN all, i # j
                   PROVE  build_finding_key(all[i]) # build_finding_key(all[j])
        BY DEF Apart
      <3>1. CASE i \in 1..Len(new) /\ j \in 1..Len(new)
        BY <1>1, <2>2, <3>1 DEF Apart
      <3>2. CASE i \notin 1..Len(new)
        <4>1. i = Len(new) + 1 /\ j \in 1..Len(new)
          BY <1>1, <2>2, <3>2
        <4> QED BY <2>2, <2>3, <4>1
      <3>3. CASE j \notin 1..Len(new)
        <4>1. j = Len(new) + 1 /\ i \in 1..Len(new)
          BY <1>1, <2>2, <3>3
        <4> QED BY <2>2, <2>3, <4>1
      <3> QED BY <3>1, <3>2, <3>3
    <2>5. ASSUME NEW m \in DOMAIN all
          PROVE  build_finding_key(all[m]) \notin job.tracked /\ \E i \in 1..k : all[m] = s[i]
      <3>1. CASE m \in 1..Len(new)
        <4>1. PICK i \in 1..(k - 1) : new[m] = s[i]
          BY <1>1, <2>2, <3>1
        <4> QED BY <1>1, <1>2, <2>2, <3>1, <4>1
      <3>2. CASE m \notin 1..Len(new)
        <4>1. all[m] = f /\ k \in 1..k
          BY <1>1, <1>2, <2>2, <3>2
        <4> QED BY <1>3, <4>1
      <3> QED BY <3>1, <3>2
    <2>6. ToSet(new) \subseteq ToSet(all) /\ f \in ToSet(all)
      <3>1. Len(new) + 1 \in DOMAIN all
        BY <1>1, <2>2
      <3> QED BY <2>2, <3>1 DEF ToSet
    <2>7. ASSUME NEW i \in 1..k
          PROVE  Passed(all, s[i])
      <3>1. CASE i = k
        BY <2>6, <3>1 DEF Passed
      <3>2. CASE i \in 1..(k - 1)
        <4>1. Passed(new, s[i]) /\ Len(new) # MaxComments
          BY <1>0, <1>1, <1>3, <3>2
        <4> QED BY <2>6, <4>1 DEF Passed
      <3> QED BY <1>2, <3>1, <3>2
    <2>8. Len(all) <= MaxComments
      BY <1>0, <1>1, <1>3, <2>2
    <2> HIDE DEF f
    <2>9. Commented(all, s, k)
      BY <2>2, <2>4, <2>5, <2>7, <2>8 DEF Commented
    <2> QED BY <2>1, <2>9 DEF f
  <1>4. CASE ~(Len(new) < MaxComments /\ build_finding_key(f) \notin job.tracked /\ Anchor(f) # NoLine)
    <2>1. WithComment(new, f) = new
      BY <1>4 DEF WithComment
    <2>2. Passed(new, f)
      BY <1>0, <1>1, <1>4 DEF Passed
    <2>3. ASSUME NEW i \in 1..k
          PROVE  Passed(new, s[i])
      BY <1>1, <1>2, <2>2
    <2>4. ASSUME NEW m \in DOMAIN new
          PROVE  \E i \in 1..k : new[m] = s[i]
      BY <1>1, <1>2
    <2>5. Commented(new, s, k)
      BY <1>1, <2>3, <2>4 DEF Commented
    <2> QED BY <2>1, <2>5
  <1> QED BY <1>3, <1>4

LEMMA NewCommented ==
    ASSUME job.merged.findings \in Seq(Finding), Apart(job.merged.findings)
    PROVE  Commented(NewFindings, job.merged.findings, Len(job.merged.findings))
  <1> DEFINE s == job.merged.findings
  <1>1. PICK run : /\ IsRun(run, Len(s), <<>>, NewFindings)
                   /\ \A k \in 1..Len(s) : run[k] = WithComment(run[k - 1], s[k])
    BY NewRuns
  <1>2. s \in Seq(Finding) /\ Apart(s) /\ Len(s) \in Nat
    OBVIOUS
  <1> HIDE DEF s
  <1> DEFINE T == {k \in 0..Len(s) : Commented(run[k], s, k)}
  <1>3. 0 \in T
    <2>1. run[0] = <<>> /\ <<>> \in Seq(Finding) /\ Len(<<>>) = 0 /\ DOMAIN <<>> = {} /\ 1..0 = {}
      BY <1>1 DEF IsRun
    <2>2. MaxComments \in Nat
      BY Bounds
    <2>3. Commented(<<>>, s, 0)
      BY <2>1, <2>2 DEF Commented, Apart
    <2> QED BY <1>2, <2>1, <2>3
  <1>4. ASSUME NEW k \in 1..Len(s), k - 1 \in T PROVE k \in T
    <2>1. Commented(run[k - 1], s, k - 1) /\ k \in 0..Len(s)
      BY <1>2, <1>4
    <2>2. Commented(WithComment(run[k - 1], s[k]), s, k)
      BY <1>2, <2>1, CommentedStep
    <2> QED BY <1>1, <2>1, <2>2
  <1> HIDE DEF T
  <1>5. \A k \in 0..Len(s) : k \in T
    BY <1>2, <1>3, <1>4, UpToLast
  <1>6. Len(s) \in 0..Len(s)
    BY <1>2
  <1>7. Commented(NewFindings, s, Len(s))
    BY <1>1, <1>5, <1>6 DEF T, IsRun
  <1> QED BY <1>7 DEF s

\* As many keys as comments.
LEMMA KeysCounted ==
    ASSUME NEW s \in Seq(Finding), Apart(s)
    PROVE  Cardinality({build_finding_key(f) : f \in ToSet(s)}) = Len(s)
  <1> DEFINE n == Len(s)
             K == {build_finding_key(f) : f \in ToSet(s)}
             b == [i \in 1..n |-> build_finding_key(s[i])]
  <1>1. n \in Nat /\ DOMAIN s = 1..n
    OBVIOUS
  <1>2. K = {b[i] : i \in 1..n}
    BY <1>1 DEF ToSet
  <1>3. \A i, j \in 1..n : i # j => b[i] # b[j]
    BY <1>1 DEF Apart
  <1>4. b \in [1..n -> K]
    BY <1>2
  <1> HIDE DEF b, K, n
  <1>5. b \in Bijection(1..n, K)
    BY <1>2, <1>3, <1>4 DEF Bijection, Injection, Surjection, IsInjective
  <1>6. IsFiniteSet(1..n) /\ Cardinality(1..n) = n
    BY <1>1, FS_Interval
  <1>7. Cardinality(K) = Cardinality(1..n)
    <2>1. ExistsBijection(1..n, K)
      BY <1>5 DEF ExistsBijection
    <2> QED BY <1>6, <2>1, FS_Bijection
  <1> QED BY <1>6, <1>7 DEF K, n

-----------------------------------------------------------------------------
\* The sections of a scope.

LEMMA FilesListed ==
    ASSUME NEW S, IsFiniteSet(S)
    PROVE  SetToSeq(S) \in Seq(S) /\ \A i, j \in DOMAIN SetToSeq(S) : i # j => SetToSeq(S)[i] # SetToSeq(S)[j]
  <1> DEFINE n == Cardinality(S)
             s == SetToSeq(S)
  <1>1. n \in Nat /\ ExistsBijection(1..n, S)
    BY FS_CardinalityType
  <1>2. PICK b : b \in Bijection(1..n, S)
    BY <1>1 DEF ExistsBijection
  <1>3. b \in [1..n -> S] /\ IsInjective(b)
    BY <1>2 DEF Bijection, Injection
  <1>4. s \in [1..n -> S] /\ IsInjective(s)
    BY <1>3 DEF SetToSeq
  <1> HIDE DEF s, n
  <1>5. s \in Seq(S) /\ DOMAIN s = 1..n
    BY <1>1, <1>4
  <1> QED BY <1>4, <1>5 DEF IsInjective, s

LEMMA FilesMove ==
    ASSUME NEW pr \in Contents
    PROVE  Moves(SetToSeq(DOMAIN pr), SortFiles(pr))
  <1> DEFINE s == SetToSeq(DOMAIN pr)
             n == Len(s)
             Before(f, g) == pr[f].changes > pr[g].changes \/ (pr[f].changes = pr[g].changes /\ f < g)
             precedes(i, j) == Before(s[i], s[j]) \/ (~Before(s[j], s[i]) /\ i < j)
             place(i) == 1 + Cardinality({j \in 1..n : precedes(j, i)})
             c == [p \in 1..n |-> CHOOSE i \in 1..n : place(i) = p]
             Under == [i \in 1..n |-> {j \in 1..n : precedes(j, i)}]
             x == [i \in 1..n |-> 0 - pr[s[i]].changes]
             y == [i \in 1..n |-> s[i]]
             z == [i \in 1..n |-> 0]
  <1>0. IsFiniteSet(DOMAIN pr) /\ DOMAIN pr \subseteq Nat /\ pr \in [DOMAIN pr -> FileInfo]
    BY Listed
  <1>1. s \in Seq(DOMAIN pr)
    BY <1>0, FilesListed
  <1>2. n \in Nat /\ DOMAIN s = 1..n /\ \A i \in 1..n : s[i] \in DOMAIN pr
    <2> HIDE DEF s
    <2> QED BY <1>1
  <1> DEFINE at(i) == 1 + Cardinality({j \in DOMAIN s : precedes(j, i)})
  <1>14. SortFiles(pr) = [p \in DOMAIN s |-> s[CHOOSE i \in DOMAIN s : at(i) = p]]
    BY DEF SortFiles, StableSort
  <1> HIDE DEF s, n
  <1>3. \A i \in 1..n : pr[s[i]].changes \in Int /\ s[i] \in Int
    <2>1. \A f \in DOMAIN pr : pr[f].changes \in Nat
      <3>1. \A info \in FileInfo : info.changes \in Nat
        BY DEF FileInfo
      <3> QED BY <1>0, <3>1
    <2> QED BY <1>0, <1>2, <2>1
  <1>4. \A i \in 1..n : x[i] \in Int /\ y[i] \in Int /\ z[i] \in Int
    BY <1>3
  <1>5. ASSUME NEW i \in 1..n, NEW j \in 1..n
        PROVE  precedes(i, j) <=> Less(x, y, z, i, j)
    <2>1. /\ x[i] = 0 - pr[s[i]].changes /\ y[i] = s[i] /\ z[i] = 0
          /\ x[j] = 0 - pr[s[j]].changes /\ y[j] = s[j] /\ z[j] = 0
      OBVIOUS
    <2>2. {pr[s[i]].changes, pr[s[j]].changes, s[i], s[j], i, j} \subseteq Int
      BY <1>2, <1>3
    <2> HIDE DEF x, y, z
    <2> QED BY <2>1, <2>2 DEF Less
  <1>6. SortFiles(pr) = [p \in 1..n |-> s[CHOOSE i \in 1..n : place(i) = p]]
    BY <1>2, <1>14
  <1>7. /\ \A i \in 1..n : Under[i] \subseteq 1..n /\ place(i) = 1 + Cardinality(Under[i])
        /\ \A i, j \in 1..n : i \in Under[j] <=> precedes(i, j)
    <2> HIDE DEF precedes
    <2> QED OBVIOUS
  <1> HIDE DEF precedes, place, Under, x, y, z
  <1>8. \A p \in 1..n : \E i \in 1..n : place(i) = p
    <2>1. \A i, j \in 1..n : i \in Under[j] <=> Less(x, y, z, i, j)
      BY <1>5, <1>7
    <2>2. \A p \in 1..n : \E i \in 1..n : 1 + Cardinality(Under[i]) = p
      <3>1. Orders(Under, n, x, y, z)
        BY <1>4, <1>7, <2>1 DEF Orders
      <3> QED BY <1>2, <3>1, LessTaken
    <2> QED BY <1>7, <2>2
  <1>9. \A p \in 1..n : c[p] = (CHOOSE i \in 1..n : place(i) = p)
    OBVIOUS
  <1>10. \A p \in 1..n : c[p] \in 1..n /\ place(c[p]) = p
    BY <1>8, <1>9
  <1>11. c \in [1..n -> 1..n]
    BY <1>8
  <1>12. SortFiles(pr) = [p \in 1..n |-> s[c[p]]]
    BY <1>6, <1>9
  <1> HIDE DEF c
  <1>13. \A p, q \in 1..n : p # q => c[p] # c[q]
    BY <1>10
  <1>15. c \in [DOMAIN s -> DOMAIN s] /\ SortFiles(pr) = [p \in DOMAIN s |-> s[c[p]]]
    BY <1>2, <1>11, <1>12
  <1>16. \A p, q \in DOMAIN s : p # q => c[p] # c[q]
    BY <1>2, <1>13
  <1>17. Moves(s, SortFiles(pr))
    BY <1>15, <1>16 DEF Moves
  <1> QED BY <1>17 DEF s

\* Every file at one place of the order at most.
LEMMA FilesSorted ==
    ASSUME NEW pr \in Contents
    PROVE  /\ SortFiles(pr) \in Seq(DOMAIN pr)
           /\ \A i, j \in DOMAIN SortFiles(pr) : i # j => SortFiles(pr)[i] # SortFiles(pr)[j]
  <1> DEFINE s == SetToSeq(DOMAIN pr)
             t == SortFiles(pr)
  <1>1. s \in Seq(DOMAIN pr) /\ \A i, j \in DOMAIN s : i # j => s[i] # s[j]
    BY Listed, FilesListed
  <1>2. PICK c \in [DOMAIN s -> DOMAIN s] : /\ \A p, q \in DOMAIN s : p # q => c[p] # c[q]
                                            /\ t = [p \in DOMAIN s |-> s[c[p]]]
    BY FilesMove DEF Moves
  <1> HIDE DEF s, t
  <1>3. DOMAIN s = 1..Len(s) /\ Len(s) \in Nat
    BY <1>1
  <1>4. t \in Seq(DOMAIN pr) /\ DOMAIN t = DOMAIN s
    <2>1. \A p \in 1..Len(s) : s[c[p]] \in DOMAIN pr
      BY <1>1, <1>3
    <2>2. t = [p \in 1..Len(s) |-> s[c[p]]]
      BY <1>2, <1>3
    <2> QED BY <1>3, <2>1, <2>2
  <1> QED BY <1>1, <1>2, <1>4 DEF t

LEMMA SectionLength ==
    ASSUME NEW info \in FileInfo
    PROVE  build_file_review_section(info).length \in Nat
  <1>1. Len(info.patch) \in Nat /\ info.content \in Nat /\ MaxPatch \in Nat /\ MaxContext \in Nat
    BY Limits DEF FileInfo
  <1>2. ASSUME NEW a \in Nat, NEW b \in Nat PROVE clip_text(a, b) \in Nat
    <2>1. \E x \in {a, b} : \A y \in {a, b} : x =< y
      OBVIOUS
    <2>2. Min({a, b}) \in {a, b}
      BY <2>1 DEF Min
    <2> QED BY <2>2 DEF clip_text
  <1> DEFINE p == clip_text(Len(info.patch), MaxPatch)
             q == clip_text(info.content, MaxContext)
             u == IF info.patch # <<>> THEN 1 + p ELSE 1
             v == IF should_include_file_context(info) THEN 1 + q ELSE 0
  <1>3. p \in Nat /\ q \in Nat
    BY <1>1, <1>2
  <1> HIDE DEF p, q
  <1>4. u \in Nat /\ v \in Nat
    BY <1>3
  <1>5. build_file_review_section(info).length = 1 + u + v
    BY DEF build_file_review_section, p, q
  <1> HIDE DEF u, v
  <1> QED BY <1>4, <1>5

LEMMA SectionRuns ==
    ASSUME NEW pr \in Contents
    PROVE  LET s == SortFiles(pr) IN
           \E run : /\ IsRun(run, Len(s), <<>>, ReviewSections(pr))
                    /\ \A k \in 1..Len(s) : run[k] = WithSection(pr, run[k - 1], s[k])
  <1> DEFINE s == SortFiles(pr)
             n == Len(s)
             V == Seq(Section)
             F == [v \in V \X (1..n) |-> WithSection(pr, v[1], s[v[2]])]
             Body(g) == [t \in SUBSET (1..n) |-> IF t = {} THEN <<>> ELSE WithSection(pr, g[t \ {Max(t)}], s[Max(t)])]
             it == CHOOSE g : g = Body(g)
             run == [k \in 0..n |-> it[1..k]]
  <1>0. s \in Seq(DOMAIN pr) /\ DOMAIN pr \subseteq Nat /\ \A f \in DOMAIN pr : pr[f] \in FileInfo
    BY FilesSorted, Listed
  <1>1. n \in Nat /\ DOMAIN s = 1..n /\ \A k \in 1..n : s[k] \in DOMAIN pr
    <2> HIDE DEF s
    <2> QED BY <1>0
  <1>2. ReviewSections(pr) = it[1..n]
    BY <1>1 DEF ReviewSections, FoldLeft, MapThenFoldSet
  <1>3. F \in [V \X (1..n) -> V]
    <2>1. ASSUME NEW v \in V, NEW k \in 1..n
          PROVE  WithSection(pr, v, s[k]) \in V
      <3>1. build_file_review_section(pr[s[k]]).length \in Nat /\ s[k] \in Nat
        BY <1>0, <1>1, SectionLength
      <3> DEFINE new == [file |-> s[k], length |-> build_file_review_section(pr[s[k]]).length]
      <3>2. new \in Section
        BY <3>1 DEF Section
      <3>3. WithSection(pr, v, s[k]) \in {v, Append(v, new)}
        BY DEF WithSection
      <3> HIDE DEF s, n, new
      <3> QED BY <3>2, <3>3
    <2> HIDE DEF s, n, V
    <2> QED BY <2>1
  <1>4. PICK g : g \in [SUBSET (1..n) -> V] /\ GoesUpwards(g, n, <<>>, F)
    <2>1. <<>> \in V
      OBVIOUS
    <2> HIDE DEF F, n, V
    <2> QED BY <1>1, <1>3, <2>1, FoldUpwards
  <1>5. ASSUME NEW t \in SUBSET (1..n), t # {}
        PROVE  F[<<g[t \ {Max(t)}], Max(t)>>] = WithSection(pr, g[t \ {Max(t)}], s[Max(t)])
    <2>1. Max(t) \in 1..n
      <3> HIDE DEF s, n
      <3>1. IsFiniteSet(1..n) /\ 1..n \subseteq Int
        BY <1>1, FS_Interval
      <3> QED BY <1>5, <3>1, MaxIn
    <2>2. t \ {Max(t)} \in SUBSET (1..n)
      OBVIOUS
    <2>3. g[t \ {Max(t)}] \in V
      BY <1>4, <2>2
    <2> HIDE DEF s, n, V
    <2> QED BY <2>1, <2>3
  <1>6. g = Body(g)
    <2> HIDE DEF F, s
    <2> QED BY <1>4, <1>5 DEF GoesUpwards
  <1>7. it = Body(it)
    <2> HIDE DEF Body
    <2> QED BY <1>6
  <1>8. \A t \in SUBSET (1..n) :
            it[t] = IF t = {} THEN <<>> ELSE WithSection(pr, it[t \ {Max(t)}], s[Max(t)])
    <2> HIDE DEF it, s
    <2> QED BY <1>7
  <1> HIDE DEF it
  <1>9. run[0] = <<>> /\ ReviewSections(pr) = run[n]
    <2>1. 1..0 = {} /\ {} \in SUBSET (1..n) /\ 0 \in 0..n /\ n \in 0..n
      BY <1>1
    <2>2. it[{}] = <<>>
      BY <1>8, <2>1
    <2>3. run[0] = it[1..0] /\ run[n] = it[1..n]
      BY <2>1
    <2> QED BY <1>2, <2>1, <2>2, <2>3
  <1>10. ASSUME NEW k \in 1..n
         PROVE  run[k] = WithSection(pr, run[k - 1], s[k])
    <2>1. Max(1..k) = k /\ (1..k) \ {k} = 1..(k - 1) /\ 1..k # {} /\ 1..k \in SUBSET (1..n)
      <3> HIDE DEF s, n
      <3> QED BY <1>1, LastOfPrefix
    <2>2. it[1..k] = WithSection(pr, it[1..(k - 1)], s[k])
      BY <1>8, <2>1
    <2> HIDE DEF s
    <2>3. k \in 0..n /\ k - 1 \in 0..n
      BY <1>1
    <2> QED BY <2>2, <2>3
  <1> HIDE DEF run
  <1> QED BY <1>9, <1>10 DEF IsRun

\* Sections of different files.
Distinct(sections) == \A i, j \in DOMAIN sections : i # j => sections[i].file # sections[j].file

Gathered(sections, files, k) ==
    /\ sections \in Seq(Section) /\ Distinct(sections) /\ Len(sections) <= MaxFiles
    /\ \A m \in DOMAIN sections : \E i \in 1..k : sections[m].file = files[i]

LEMMA GatheredStep ==
    ASSUME NEW pr \in Contents, NEW k \in 1..Len(SortFiles(pr)), NEW sections, Gathered(sections, SortFiles(pr), k - 1)
    PROVE  Gathered(WithSection(pr, sections, SortFiles(pr)[k]), SortFiles(pr), k)
  <1> DEFINE files == SortFiles(pr)
             f == files[k]
             section == build_file_review_section(pr[f])
             new == [file |-> f, length |-> section.length]
             all == Append(sections, new)
  <1>0. /\ files \in Seq(DOMAIN pr) /\ \A i, j \in DOMAIN files : i # j => files[i] # files[j]
        /\ DOMAIN pr \subseteq Nat /\ \A g \in DOMAIN pr : pr[g] \in FileInfo
        /\ MaxFiles \in Nat
    BY FilesSorted, Listed, Limits
  <1>1. /\ sections \in Seq(Section) /\ Distinct(sections) /\ Len(sections) <= MaxFiles /\ Len(sections) \in Nat
        /\ \A m \in DOMAIN sections : \E i \in 1..(k - 1) : sections[m].file = files[i]
    BY DEF Gathered
  <1>2. k \in 1..Len(files)
    OBVIOUS
  <1> HIDE DEF files
  <1>3. k \in Nat /\ (1..k) = (1..(k - 1)) \cup {k} /\ k \notin 1..(k - 1) /\ f \in DOMAIN pr /\ 1..k \subseteq DOMAIN files
    BY <1>0, <1>2
  <1>4. CASE Len(sections) < MaxFiles /\ section.included
    <2>1. WithSection(pr, sections, f) = all
      BY <1>4 DEF WithSection
    <2>2. new \in Section /\ new.file = f
      <3>1. section.length \in Nat /\ f \in Nat
        BY <1>0, <1>3, SectionLength
      <3> HIDE DEF section
      <3> QED BY <3>1 DEF Section
    <2> HIDE DEF new
    <2>3. /\ all \in Seq(Section) /\ DOMAIN all = 1..(Len(sections) + 1) /\ all[Len(sections) + 1] = new
          /\ Len(all) = Len(sections) + 1 /\ DOMAIN sections = 1..Len(sections)
          /\ \A m \in 1..Len(sections) : all[m] = sections[m]
      BY <1>1, <2>2
    <2> HIDE DEF all
    <2>4. \A m \in 1..Len(sections) : sections[m].file # f
      <3> SUFFICES ASSUME NEW m \in 1..Len(sections) PROVE sections[m].file # f
        OBVIOUS
      <3>1. PICK i \in 1..(k - 1) : sections[m].file = files[i]
        BY <1>1, <2>3
      <3>2. i \in DOMAIN files /\ k \in DOMAIN files /\ i # k
        BY <1>3
      <3> QED BY <1>0, <3>1, <3>2
    <2>5. Distinct(all)
      <3> SUFFICES ASSUME NEW i \in DOMAIN all, NEW j \in DOMAIN all, i # j
                   PROVE  all[i].file # all[j].file
        BY DEF Distinct
      <3>1. CASE i \in 1..Len(sections) /\ j \in 1..Len(sections)
        BY <1>1, <2>3, <3>1 DEF Distinct
      <3>2. CASE i \notin 1..Len(sections)
        <4>1. i = Len(sections) + 1 /\ j \in 1..Len(sections)
          BY <1>1, <2>3, <3>2
        <4> QED BY <2>2, <2>3, <2>4, <4>1
      <3>3. CASE j \notin 1..Len(sections)
        <4>1. j = Len(sections) + 1 /\ i \in 1..Len(sections)
          BY <1>1, <2>3, <3>3
        <4> QED BY <2>2, <2>3, <2>4, <4>1
      <3> QED BY <3>1, <3>2, <3>3
    <2>6. ASSUME NEW m \in DOMAIN all
          PROVE  \E i \in 1..k : all[m].file = files[i]
      <3>1. CASE m \in 1..Len(sections)
        <4>1. PICK i \in 1..(k - 1) : sections[m].file = files[i]
          BY <1>1, <2>3, <3>1
        <4> QED BY <1>3, <2>3, <3>1, <4>1
      <3>2. CASE m \notin 1..Len(sections)
        <4>1. all[m] = new /\ k \in 1..k
          BY <1>1, <1>3, <2>3, <3>2
        <4> QED BY <2>2, <4>1
      <3> QED BY <3>1, <3>2
    <2>7. Len(all) <= MaxFiles
      BY <1>0, <1>1, <1>4, <2>3
    <2>8. Gathered(all, files, k)
      BY <2>3, <2>5, <2>6, <2>7 DEF Gathered
    <2> QED BY <2>1, <2>8 DEF files
  <1>5. CASE ~(Len(sections) < MaxFiles /\ section.included)
    <2>1. WithSection(pr, sections, f) = sections
      BY <1>5 DEF WithSection
    <2>2. ASSUME NEW m \in DOMAIN sections
          PROVE  \E i \in 1..k : sections[m].file = files[i]
      BY <1>1, <1>3
    <2>3. Gathered(sections, files, k)
      BY <1>1, <2>2 DEF Gathered
    <2> QED BY <2>1, <2>3 DEF files
  <1> QED BY <1>4, <1>5

\* A scope asks about different changed files, and not too many.
LEMMA SectionsGathered ==
    ASSUME NEW pr \in Contents
    PROVE  LET sections == ReviewSections(pr) IN
           /\ sections \in Seq(Section) /\ Distinct(sections) /\ Len(sections) <= MaxFiles
           /\ \A m \in DOMAIN sections : sections[m].file \in DOMAIN pr
  <1> DEFINE s == SortFiles(pr)
  <1>1. PICK run : /\ IsRun(run, Len(s), <<>>, ReviewSections(pr))
                   /\ \A k \in 1..Len(s) : run[k] = WithSection(pr, run[k - 1], s[k])
    BY SectionRuns
  <1>2. s \in Seq(DOMAIN pr)
    BY FilesSorted
  <1>3. \A k \in 1..Len(s) : \A sections : Gathered(sections, s, k - 1) => Gathered(WithSection(pr, sections, s[k]), s, k)
    BY GatheredStep
  <1> HIDE DEF s
  <1>4. Len(s) \in Nat /\ \A k \in 1..Len(s) : s[k] \in DOMAIN pr
    BY <1>2
  <1> DEFINE T == {k \in 0..Len(s) : Gathered(run[k], s, k)}
  <1>5. 0 \in T
    <2>1. run[0] = <<>> /\ <<>> \in Seq(Section) /\ Len(<<>>) = 0 /\ DOMAIN <<>> = {}
      BY <1>1 DEF IsRun
    <2>2. MaxFiles \in Nat
      BY Limits
    <2>3. Gathered(<<>>, s, 0)
      BY <2>1, <2>2 DEF Gathered, Distinct
    <2> QED BY <1>4, <2>1, <2>3
  <1>6. ASSUME NEW k \in 1..Len(s), k - 1 \in T PROVE k \in T
    <2>1. Gathered(run[k - 1], s, k - 1) /\ k \in 0..Len(s)
      BY <1>4, <1>6
    <2>2. Gathered(WithSection(pr, run[k - 1], s[k]), s, k)
      BY <1>3, <2>1
    <2> QED BY <1>1, <2>1, <2>2
  <1> HIDE DEF T
  <1>7. \A k \in 0..Len(s) : k \in T
    BY <1>4, <1>5, <1>6, UpToLast
  <1>8. Len(s) \in 0..Len(s)
    BY <1>4
  <1>9. Gathered(ReviewSections(pr), s, Len(s))
    BY <1>1, <1>7, <1>8 DEF T, IsRun
  <1> QED BY <1>4, <1>9 DEF Gathered

-----------------------------------------------------------------------------
\* The length of a chunk.

IsText(run, c) ==
    run[0] = 0 /\ TextLength(c) = run[Len(c)] /\ \A k \in 1..Len(c) : run[k] = run[k - 1] + c[k].length

LEMMA TextRuns ==
    ASSUME NEW s \in Seq(Section)
    PROVE  \E run : IsText(run, s)
  <1> DEFINE n == Len(s)
             F == [v \in Nat \X (1..n) |-> v[1] + s[v[2]].length]
             Body(g) == [t \in SUBSET (1..n) |-> IF t = {} THEN 0 ELSE g[t \ {Max(t)}] + s[Max(t)].length]
             it == CHOOSE g : g = Body(g)
             run == [k \in 0..n |-> it[1..k]]
  <1>1. n \in Nat /\ DOMAIN s = 1..n /\ \A k \in 1..n : s[k].length \in Nat
    <2>1. \A k \in 1..n : s[k] \in Section
      OBVIOUS
    <2> QED BY <2>1 DEF Section
  <1>2. TextLength(s) = it[1..n]
    BY <1>1 DEF TextLength, FoldLeft, MapThenFoldSet
  <1>3. F \in [Nat \X (1..n) -> Nat]
    <2> HIDE DEF n
    <2> QED BY <1>1
  <1>4. PICK g : g \in [SUBSET (1..n) -> Nat] /\ GoesUpwards(g, n, 0, F)
    <2>1. 0 \in Nat
      OBVIOUS
    <2> HIDE DEF F, n
    <2> QED BY <1>1, <1>3, <2>1, FoldUpwards
  <1>5. ASSUME NEW t \in SUBSET (1..n), t # {}
        PROVE  F[<<g[t \ {Max(t)}], Max(t)>>] = g[t \ {Max(t)}] + s[Max(t)].length
    <2>1. Max(t) \in 1..n
      <3> HIDE DEF n
      <3>1. IsFiniteSet(1..n) /\ 1..n \subseteq Int
        BY <1>1, FS_Interval
      <3> QED BY <1>5, <3>1, MaxIn
    <2>2. t \ {Max(t)} \in SUBSET (1..n)
      OBVIOUS
    <2>3. g[t \ {Max(t)}] \in Nat
      BY <1>4, <2>2
    <2> HIDE DEF n
    <2> QED BY <2>1, <2>3
  <1>6. g = Body(g)
    <2> HIDE DEF F
    <2> QED BY <1>4, <1>5 DEF GoesUpwards
  <1>7. it = Body(it)
    <2> HIDE DEF Body
    <2> QED BY <1>6
  <1>8. \A t \in SUBSET (1..n) :
            it[t] = IF t = {} THEN 0 ELSE it[t \ {Max(t)}] + s[Max(t)].length
    <2> HIDE DEF it
    <2> QED BY <1>7
  <1> HIDE DEF it
  <1>9. run[0] = 0 /\ TextLength(s) = run[n]
    <2>1. 1..0 = {} /\ {} \in SUBSET (1..n) /\ 0 \in 0..n /\ n \in 0..n
      BY <1>1
    <2>2. it[{}] = 0
      BY <1>8, <2>1
    <2>3. run[0] = it[1..0] /\ run[n] = it[1..n]
      BY <2>1
    <2> QED BY <1>2, <2>1, <2>2, <2>3
  <1>10. ASSUME NEW k \in 1..n
         PROVE  run[k] = run[k - 1] + s[k].length
    <2>1. Max(1..k) = k /\ (1..k) \ {k} = 1..(k - 1) /\ 1..k # {} /\ 1..k \in SUBSET (1..n)
      <3> HIDE DEF n
      <3> QED BY <1>1, LastOfPrefix
    <2>2. it[1..k] = it[1..(k - 1)] + s[k].length
      BY <1>8, <2>1
    <2>3. k \in 0..n /\ k - 1 \in 0..n
      OBVIOUS
    <2> QED BY <2>2, <2>3
  <1> HIDE DEF run
  <1> QED BY <1>9, <1>10 DEF IsText

LEMMA TextGrows ==
    ASSUME NEW c \in Seq(Section), NEW e \in Section
    PROVE  /\ TextLength(<<>>) = 0 /\ TextLength(c) \in Nat
           /\ TextLength(Append(c, e)) = TextLength(c) + e.length
  <1> DEFINE d == Append(c, e)
             n == Len(c)
  <1>0. /\ d \in Seq(Section) /\ n \in Nat /\ Len(d) = n + 1 /\ d[n + 1] = e /\ e.length \in Nat
        /\ \A k \in 1..n : d[k] = c[k] /\ c[k] \in Section
    <2>1. e.length \in Nat
      BY DEF Section
    <2> QED BY <2>1
  <1>1. PICK p : IsText(p, c)
    BY TextRuns
  <1>2. PICK q : IsText(q, d)
    BY <1>0, TextRuns
  <1> HIDE DEF d
  <1>3. /\ p[0] = 0 /\ TextLength(c) = p[n] /\ \A k \in 1..n : p[k] = p[k - 1] + c[k].length
        /\ q[0] = 0 /\ TextLength(d) = q[n + 1] /\ \A k \in 1..(n + 1) : q[k] = q[k - 1] + d[k].length
    BY <1>0, <1>1, <1>2 DEF IsText
  <1>4. \A k \in 1..n : c[k].length \in Nat
    BY <1>0 DEF Section
  <1> HIDE DEF n
  <1> DEFINE T == {k \in 0..n : p[k] \in Nat /\ q[k] = p[k]}
  <1>5. 0 \in T
    BY <1>0, <1>3
  <1>6. ASSUME NEW k \in 1..n, k - 1 \in T PROVE k \in T
    <2>1. p[k - 1] \in Nat /\ q[k - 1] = p[k - 1] /\ k \in 0..n /\ k \in 1..(n + 1)
      BY <1>0, <1>6
    <2>2. p[k] = p[k - 1] + c[k].length /\ q[k] = q[k - 1] + c[k].length
      BY <1>0, <1>3, <2>1
    <2> QED BY <1>4, <2>1, <2>2
  <1> HIDE DEF T
  <1>7. \A k \in 0..n : k \in T
    BY <1>0, <1>5, <1>6, UpToLast
  <1>8. p[n] \in Nat /\ q[n] = p[n]
    <2>1. n \in 0..n
      BY <1>0
    <2> QED BY <1>7, <2>1 DEF T
  <1>9. q[n + 1] = q[n] + e.length
    <2>1. n + 1 \in 1..(n + 1) /\ (n + 1) - 1 = n
      BY <1>0
    <2> QED BY <1>0, <1>3, <2>1
  <1>10. TextLength(<<>>) = 0
    <2>2. Len(<<>>) = 0 /\ <<>> \in Seq(Section)
      OBVIOUS
    <2>1. PICK r : IsText(r, <<>>)
      BY <2>2, TextRuns
    <2> QED BY <2>1, <2>2 DEF IsText
  <1> QED BY <1>3, <1>8, <1>9, <1>10 DEF d

\* What a chunk holds is within the limit, unless it is one section.
Fits(c) == Len(c) > 1 => ChunkLength(c) <= MaxChunk

LEMMA OneFits ==
    ASSUME NEW e \in Section
    PROVE  Fits(<<e>>) /\ ChunkLength(<<e>>) = e.length
  <1>1. <<e>> = Append(<<>>, e) /\ Len(<<e>>) = 1 /\ <<>> \in Seq(Section) /\ e.length \in Nat
    BY DEF Section
  <1>2. TextLength(<<>>) = 0 /\ TextLength(<<e>>) = TextLength(<<>>) + e.length
    BY <1>1, TextGrows
  <1>3. TextLength(<<e>>) = e.length
    BY <1>1, <1>2
  <1> QED BY <1>1, <1>3 DEF Fits, ChunkLength, Separator

LEMMA ChunkGrows ==
    ASSUME NEW c \in Seq(Section), NEW e \in Section
    PROVE  /\ ChunkLength(c) \in Int
           /\ ChunkLength(Append(c, e)) = ChunkLength(c) + e.length + Separator
  <1>1. Len(c) \in Nat /\ Len(Append(c, e)) = Len(c) + 1 /\ e.length \in Nat
    BY DEF Section
  <1>2. TextLength(c) \in Nat /\ TextLength(Append(c, e)) = TextLength(c) + e.length
    BY TextGrows
  <1> QED BY <1>1, <1>2 DEF ChunkLength, Separator

-----------------------------------------------------------------------------
\* Packing.

Acc == [chunks : Seq(Seq(Section)), current : Seq(Section), length : Nat, full : BOOLEAN, omitted : SUBSET Nat]

\* The four ways a section may go.
Refused(acc, e) == [acc EXCEPT !.omitted = @ \cup {e.file}]
Closed(acc, e) == [acc EXCEPT !.full = TRUE, !.omitted = @ \cup {e.file},
                              !.chunks = Append(@, acc.current), !.current = <<>>]
Opened(acc, e) == [acc EXCEPT !.chunks = Append(@, acc.current), !.current = <<e>>, !.length = e.length]
Joined(acc, e) == [acc EXCEPT !.current = Append(@, e), !.length = @ + e.length + Separator]

LEMMA PackStep ==
    ASSUME NEW acc \in Acc, NEW e \in Section
    PROVE  /\ PackNext(acc, e) \in Acc
           /\ \/ acc.full /\ PackNext(acc, e) = Refused(acc, e)
              \/ /\ ~acc.full /\ acc.current # <<>>
                 /\ \/ Len(acc.chunks) + 1 >= MaxChunks /\ PackNext(acc, e) = Closed(acc, e)
                    \/ Len(acc.chunks) + 1 < MaxChunks /\ PackNext(acc, e) = Opened(acc, e)
              \/ /\ ~acc.full /\ PackNext(acc, e) = Joined(acc, e)
                 /\ acc.current = <<>> \/ acc.length + e.length + Separator <= MaxChunk
  <1> DEFINE overflow == acc.current # <<>> /\ acc.length + e.length + Separator > MaxChunk
  <1>1. /\ acc.chunks \in Seq(Seq(Section)) /\ acc.current \in Seq(Section) /\ acc.length \in Nat
        /\ acc.full \in BOOLEAN /\ acc.omitted \in SUBSET Nat
    BY DEF Acc
  <1>2. e.file \in Nat /\ e.length \in Nat
    BY DEF Section
  <1>3. MaxChunk \in Nat /\ MaxChunks \in Nat /\ Separator \in Nat
    BY Limits DEF Separator
  <1>4. PackNext(acc, e) = CASE acc.full -> Refused(acc, e)
                             [] ~acc.full /\ overflow /\ Len(acc.chunks) + 1 >= MaxChunks -> Closed(acc, e)
                             [] ~acc.full /\ overflow /\ Len(acc.chunks) + 1 < MaxChunks -> Opened(acc, e)
                             [] OTHER -> Joined(acc, e)
    BY DEF PackNext, Refused, Closed, Opened, Joined
  <1>5. Refused(acc, e) \in Acc
    BY <1>1, <1>2 DEF Acc, Refused
  <1>6. Closed(acc, e) \in Acc
    <2>1. <<>> \in Seq(Section) /\ Append(acc.chunks, acc.current) \in Seq(Seq(Section)) /\ acc.omitted \cup {e.file} \in SUBSET Nat
      BY <1>1, <1>2
    <2> QED BY <2>1 DEF Acc, Closed
  <1>7. Opened(acc, e) \in Acc
    <2>1. <<e>> \in Seq(Section) /\ Append(acc.chunks, acc.current) \in Seq(Seq(Section))
      BY <1>1
    <2> QED BY <1>2, <2>1 DEF Acc, Opened
  <1>8. Joined(acc, e) \in Acc
    <2>1. Append(acc.current, e) \in Seq(Section) /\ acc.length + e.length + Separator \in Nat
      BY <1>1, <1>2, <1>3
    <2> QED BY <2>1 DEF Acc, Joined
  <1>9. Len(acc.chunks) \in Nat
    BY <1>1
  <1>10. CASE acc.full
    BY <1>4, <1>5, <1>10
  <1>11. CASE ~acc.full /\ overflow
    <2>1. Len(acc.chunks) + 1 >= MaxChunks \/ Len(acc.chunks) + 1 < MaxChunks
      BY <1>3, <1>9
    <2>2. CASE Len(acc.chunks) + 1 >= MaxChunks
      <3>1. ~(Len(acc.chunks) + 1 < MaxChunks)
        BY <1>3, <1>9, <2>2
      <3> QED BY <1>4, <1>6, <1>11, <2>2, <3>1
    <2>3. CASE Len(acc.chunks) + 1 < MaxChunks
      <3>1. ~(Len(acc.chunks) + 1 >= MaxChunks)
        BY <1>3, <1>9, <2>3
      <3> QED BY <1>4, <1>7, <1>11, <2>3, <3>1
    <2> QED BY <2>1, <2>2, <2>3
  <1>12. CASE ~acc.full /\ ~overflow
    <2>1. acc.current = <<>> \/ acc.length + e.length + Separator <= MaxChunk
      BY <1>1, <1>2, <1>3, <1>12
    <2> QED BY <1>4, <1>8, <1>12, <2>1
  <1> QED BY <1>10, <1>11, <1>12

LEMMA PackRuns ==
    ASSUME NEW s \in Seq(Section)
    PROVE  \E run : /\ IsRun(run, Len(s), Unpacked, Packed(s))
                    /\ \A k \in 1..Len(s) : run[k] = PackNext(run[k - 1], s[k])
  <1> DEFINE n == Len(s)
             F == [v \in Acc \X (1..n) |-> PackNext(v[1], s[v[2]])]
             Body(g) == [t \in SUBSET (1..n) |-> IF t = {} THEN Unpacked ELSE PackNext(g[t \ {Max(t)}], s[Max(t)])]
             it == CHOOSE g : g = Body(g)
             run == [k \in 0..n |-> it[1..k]]
  <1>1. n \in Nat /\ DOMAIN s = 1..n /\ \A k \in 1..n : s[k] \in Section
    OBVIOUS
  <1>2. Packed(s) = it[1..n]
    BY <1>1 DEF Packed, FoldLeft, MapThenFoldSet
  <1>3. F \in [Acc \X (1..n) -> Acc]
    <2> HIDE DEF n
    <2>1. \A v \in Acc, k \in 1..n : PackNext(v, s[k]) \in Acc
      BY <1>1, PackStep
    <2> QED BY <2>1
  <1>4. PICK g : g \in [SUBSET (1..n) -> Acc] /\ GoesUpwards(g, n, Unpacked, F)
    <2>1. Unpacked \in Acc
      <3>1. <<>> \in Seq(Section) /\ <<>> \in Seq(Seq(Section)) /\ {} \in SUBSET Nat /\ FALSE \in BOOLEAN
        OBVIOUS
      <3> QED BY <3>1 DEF Unpacked, Acc
    <2> HIDE DEF F, n
    <2> QED BY <1>1, <1>3, <2>1, FoldUpwards
  <1>5. ASSUME NEW t \in SUBSET (1..n), t # {}
        PROVE  F[<<g[t \ {Max(t)}], Max(t)>>] = PackNext(g[t \ {Max(t)}], s[Max(t)])
    <2>1. Max(t) \in 1..n
      <3> HIDE DEF n
      <3>1. IsFiniteSet(1..n) /\ 1..n \subseteq Int
        BY <1>1, FS_Interval
      <3> QED BY <1>5, <3>1, MaxIn
    <2>2. t \ {Max(t)} \in SUBSET (1..n)
      OBVIOUS
    <2>3. g[t \ {Max(t)}] \in Acc
      BY <1>4, <2>2
    <2> HIDE DEF n
    <2> QED BY <2>1, <2>3
  <1>6. g = Body(g)
    <2> HIDE DEF F
    <2> QED BY <1>4, <1>5 DEF GoesUpwards
  <1>7. it = Body(it)
    <2> HIDE DEF Body
    <2> QED BY <1>6
  <1>8. \A t \in SUBSET (1..n) :
            it[t] = IF t = {} THEN Unpacked ELSE PackNext(it[t \ {Max(t)}], s[Max(t)])
    <2> HIDE DEF it
    <2> QED BY <1>7
  <1> HIDE DEF it
  <1>9. run[0] = Unpacked /\ Packed(s) = run[n]
    <2>1. 1..0 = {} /\ {} \in SUBSET (1..n) /\ 0 \in 0..n /\ n \in 0..n
      BY <1>1
    <2>2. it[{}] = Unpacked
      BY <1>8, <2>1
    <2>3. run[0] = it[1..0] /\ run[n] = it[1..n]
      BY <2>1
    <2> QED BY <1>2, <2>1, <2>2, <2>3
  <1>10. ASSUME NEW k \in 1..n
         PROVE  run[k] = PackNext(run[k - 1], s[k])
    <2>1. Max(1..k) = k /\ (1..k) \ {k} = 1..(k - 1) /\ 1..k # {} /\ 1..k \in SUBSET (1..n)
      <3> HIDE DEF n
      <3> QED BY <1>1, LastOfPrefix
    <2>2. it[1..k] = PackNext(it[1..(k - 1)], s[k])
      BY <1>8, <2>1
    <2>3. k \in 0..n /\ k - 1 \in 0..n
      OBVIOUS
    <2> QED BY <2>2, <2>3
  <1> HIDE DEF run
  <1> QED BY <1>9, <1>10 DEF IsRun

\* The chunks lie one after the other, and none is empty.
IsCut(cut, chunks, s) ==
    /\ cut[0] = 0
    /\ \A i \in 1..Len(chunks) : cut[i - 1] < cut[i] /\ chunks[i] = SubSeq(s, cut[i - 1] + 1, cut[i])

CutAt(chunks, s, j, a) ==
    \E cut \in [0..Len(chunks) -> 0..j] : IsCut(cut, chunks, s) /\ cut[Len(chunks)] = a

FilesBetween(s, a, b) == {s[i].file : i \in a..b}

Rest(acc, s, last, k) ==
    /\ acc.full => acc.current = <<>> /\ acc.omitted = FilesBetween(s, last + 1, k)
    /\ ~acc.full => acc.current = SubSeq(s, last + 1, k) /\ acc.omitted = {}
    /\ last < k \/ (k = 0 /\ acc.chunks = <<>>)

Sized(acc) ==
    /\ acc.full => Len(acc.chunks) = MaxChunks
    /\ ~acc.full => Len(acc.chunks) < MaxChunks
    /\ \A i \in 1..Len(acc.chunks) : Fits(acc.chunks[i])
    /\ Fits(acc.current)
    /\ ~acc.full /\ acc.current # <<>> => ChunkLength(acc.current) <= acc.length

Packing(acc, s, k) ==
    /\ acc \in Acc /\ Sized(acc)
    /\ \E cut \in [0..Len(acc.chunks) -> 0..k] :
          IsCut(cut, acc.chunks, s) /\ Rest(acc, s, cut[Len(acc.chunks)], k)

LEMMA SubGrows ==
    ASSUME NEW s \in Seq(Section), NEW k \in 1..Len(s), NEW a \in 1..k
    PROVE  /\ SubSeq(s, a, k) = Append(SubSeq(s, a, k - 1), s[k])
           /\ SubSeq(s, a, k - 1) \in Seq(Section) /\ (SubSeq(s, a, k - 1) = <<>> <=> a = k)
  <1> DEFINE t == SubSeq(s, a, k - 1)
             u == SubSeq(s, a, k)
  <1>0. Len(s) \in Nat /\ k \in Nat /\ a \in Nat /\ a >= 1 /\ k <= Len(s) /\ a <= k
    OBVIOUS
  <1>1. /\ t \in Seq(Section) /\ Len(t) = k - a
        /\ \A i \in 1..(k - a) : t[i] = s[a + i - 1]
    OBVIOUS
  <1>2. /\ u \in Seq(Section) /\ Len(u) = k - a + 1
        /\ \A i \in 1..(k - a + 1) : u[i] = s[a + i - 1]
    OBVIOUS
  <1>3. s[k] \in Section
    BY <1>0
  <1>4. Append(t, s[k]) \in Seq(Section) /\ Len(Append(t, s[k])) = k - a + 1
    BY <1>0, <1>1, <1>3
  <1>5. ASSUME NEW i \in 1..(k - a + 1)
        PROVE  Append(t, s[k])[i] = u[i]
    <2> HIDE DEF t, u
    <2>1. CASE i <= k - a
      <3>1. i \in 1..(k - a) /\ i \in 1..Len(t)
        BY <1>0, <1>1, <2>1
      <3>2. Append(t, s[k])[i] = t[i]
        BY <1>1, <1>3, <3>1
      <3>3. t[i] = s[a + i - 1]
        BY <1>1, <3>1
      <3>4. u[i] = s[a + i - 1]
        BY <1>2
      <3> QED BY <3>2, <3>3, <3>4
    <2>2. CASE i = k - a + 1
      <3>1. Append(t, s[k])[i] = s[k] /\ a + i - 1 = k
        BY <1>0, <1>1, <1>3, <2>2
      <3> QED BY <1>2, <3>1
    <2>3. i <= k - a \/ i = k - a + 1
      BY <1>0
    <2> QED BY <2>1, <2>2, <2>3
  <1> HIDE DEF t, u
  <1>6. u = Append(t, s[k])
    BY <1>2, <1>4, <1>5
  <1>7. t = <<>> <=> a = k
    BY <1>0, <1>1
  <1> QED BY <1>1, <1>6, <1>7 DEF t, u

LEMMA SubOne ==
    ASSUME NEW s \in Seq(Section), NEW k \in 1..Len(s)
    PROVE  SubSeq(s, k, k) = <<s[k]>>
  <1>1. k \in 1..k /\ s[k] \in Section
    OBVIOUS
  <1>2. SubSeq(s, k, k - 1) = <<>> /\ SubSeq(s, k, k) = Append(SubSeq(s, k, k - 1), s[k])
    BY <1>1, SubGrows
  <1>3. \A x \in Section : Append(<<>>, x) = <<x>>
    OBVIOUS
  <1> QED BY <1>1, <1>2, <1>3

\* What is being gathered becomes the next chunk.
LEMMA CutGrows ==
    ASSUME NEW s \in Seq(Section), NEW j \in 0..Len(s), NEW chunks \in Seq(Seq(Section)),
           NEW a \in Nat, CutAt(chunks, s, j, a), a < j
    PROVE  CutAt(Append(chunks, SubSeq(s, a + 1, j)), s, j, j)
  <1>12. PICK cut \in [0..Len(chunks) -> 0..j] : IsCut(cut, chunks, s) /\ cut[Len(chunks)] = a
    BY DEF CutAt
  <1> DEFINE n == Len(chunks)
             c == SubSeq(s, cut[n] + 1, j)
             more == Append(chunks, c)
             far == [i \in 0..(n + 1) |-> IF i = n + 1 THEN j ELSE cut[i]]
  <1>0. Len(s) \in Nat /\ j \in Nat /\ j <= Len(s)
    OBVIOUS
  <1>1. n \in Nat /\ cut[n] \in Nat /\ n \in 0..n
    <2>1. n \in Nat /\ cut \in [0..n -> 0..j]
      BY <1>12
    <2> HIDE DEF n
    <2> QED BY <2>1
  <1>11. c \in Seq(Section)
    BY <1>0, <1>1
  <1> HIDE DEF c
  <1>2. Len(more) = n + 1 /\ more[n + 1] = c /\ \A i \in 1..n : more[i] = chunks[i]
    BY <1>11
  <1>3. cut[0] = 0 /\ \A i \in 1..n : cut[i - 1] < cut[i] /\ chunks[i] = SubSeq(s, cut[i - 1] + 1, cut[i])
    BY <1>12 DEF IsCut
  <1>4. cut[n] = a /\ a < j /\ cut \in [0..n -> 0..j]
    BY <1>12
  <1> HIDE DEF n, more
  <1>5. far \in [0..(n + 1) -> 0..j]
    <2>1. ASSUME NEW i \in 0..(n + 1) PROVE (IF i = n + 1 THEN j ELSE cut[i]) \in 0..j
      <3>1. CASE i = n + 1
        BY <1>0, <3>1
      <3>2. CASE i # n + 1
        <4>1. i \in 0..n
          BY <1>1, <3>2
        <4>2. cut[i] \in 0..j
          BY <1>4, <4>1
        <4> QED BY <1>0, <3>2, <4>2
      <3> QED BY <3>1, <3>2
    <2> QED BY <2>1
  <1>6. far[n + 1] = j /\ \A i \in 0..n : far[i] = cut[i]
    BY <1>1
  <1> HIDE DEF far
  <1>7. ASSUME NEW i \in 1..(n + 1)
        PROVE  far[i - 1] < far[i] /\ more[i] = SubSeq(s, far[i - 1] + 1, far[i])
    <2>1. CASE i = n + 1
      <3>1. i - 1 = n /\ far[n] = cut[n]
        BY <1>1, <1>6, <2>1
      <3> QED BY <1>2, <1>4, <1>6, <2>1, <3>1 DEF c
    <2>2. CASE i \in 1..n
      <3>1. far[i - 1] = cut[i - 1] /\ far[i] = cut[i]
        BY <1>1, <1>6, <2>2
      <3> QED BY <1>2, <1>3, <2>2, <3>1
    <2> QED BY <1>1, <2>1, <2>2
  <1>8. far[0] = 0
    BY <1>1, <1>3, <1>6
  <1>9. IsCut(far, more, s)
    BY <1>2, <1>7, <1>8 DEF IsCut
  <1>10. far \in [0..Len(more) -> 0..j] /\ far[Len(more)] = j
    BY <1>2, <1>5, <1>6
  <1>13. CutAt(more, s, j, j)
    BY <1>9, <1>10 DEF CutAt
  <1> QED BY <1>4, <1>13 DEF more, c

LEMMA PackingStep ==
    ASSUME NEW s \in Seq(Section), NEW k \in 1..Len(s), NEW acc, Packing(acc, s, k - 1)
    PROVE  Packing(PackNext(acc, s[k]), s, k)
  <1> DEFINE e == s[k]
             n == Len(acc.chunks)
             next == PackNext(acc, e)
  <1>0. e \in Section /\ k \in Nat /\ k - 1 \in Nat /\ Len(s) \in Nat
    OBVIOUS
  <1>1. acc \in Acc /\ Sized(acc)
    BY DEF Packing
  <1>2. /\ acc.chunks \in Seq(Seq(Section)) /\ acc.current \in Seq(Section) /\ acc.length \in Nat
        /\ acc.full \in BOOLEAN /\ n \in Nat
    BY <1>1 DEF Acc
  <1>3. PICK cut \in [0..n -> 0..(k - 1)] : IsCut(cut, acc.chunks, s) /\ Rest(acc, s, cut[n], k - 1)
    BY DEF Packing
  <1> DEFINE last == cut[n]
  <1>4. last \in 0..(k - 1) /\ last + 1 \in 1..k /\ last \in Nat
    <2>1. n \in 0..n
      BY <1>2
    <2>2. last \in 0..(k - 1)
      BY <1>3, <2>1
    <2> HIDE DEF last
    <2> QED BY <1>0, <2>2
  <1>5. MaxChunks \in Nat /\ MaxChunks >= 1 /\ MaxChunk \in Nat
    BY Limits
  <1>6. next \in Acc
    BY <1>0, <1>1, PackStep
  <1>7. e.length \in Nat /\ Separator \in Nat
    BY <1>0 DEF Section, Separator
  <1> HIDE DEF last
  <1>8. CASE acc.full /\ next = Refused(acc, e)
    <2>1. /\ next.chunks = acc.chunks /\ next.current = acc.current /\ next.full = acc.full
          /\ next.omitted = acc.omitted \cup {e.file}
      BY <1>1, <1>8 DEF Acc, Refused
    <2>2. Sized(next)
      BY <1>1, <1>8, <2>1 DEF Sized
    <2>3. acc.omitted = FilesBetween(s, last + 1, k - 1) /\ acc.current = <<>>
      BY <1>3, <1>8 DEF Rest, last
    <2>4. FilesBetween(s, last + 1, k) = FilesBetween(s, last + 1, k - 1) \cup {e.file}
      <3>1. (last + 1)..k = ((last + 1)..(k - 1)) \cup {k}
        BY <1>0, <1>4
      <3> QED BY <3>1 DEF FilesBetween
    <2>5. last < k
      BY <1>0, <1>4
    <2>6. Rest(next, s, last, k)
      BY <1>8, <2>1, <2>3, <2>4, <2>5 DEF Rest
    <2>7. cut \in [0..n -> 0..k]
      <3>1. 0..(k - 1) \subseteq 0..k
        BY <1>0
      <3> QED BY <3>1
    <2> HIDE DEF next
    <2>8. IsCut(cut, next.chunks, s) /\ Len(next.chunks) = n /\ Rest(next, s, cut[n], k)
      BY <1>3, <2>1, <2>6 DEF last
    <2>9. Packing(next, s, k)
      BY <1>6, <2>2, <2>7, <2>8 DEF Packing
    <2> QED BY <2>9 DEF next
  <1>9. ASSUME ~acc.full
        PROVE  acc.current = SubSeq(s, last + 1, k - 1) /\ acc.omitted = {} /\ n < MaxChunks
    BY <1>1, <1>3, <1>9 DEF Rest, Sized, last
  <1>10. ASSUME ~acc.full, acc.current # <<>>
         PROVE  \E far \in [0..(n + 1) -> 0..k] : IsCut(far, Append(acc.chunks, acc.current), s) /\ far[n + 1] = k - 1
    <2>1. acc.current = SubSeq(s, cut[n] + 1, k - 1)
      BY <1>9, <1>10 DEF last
    <2>2. last < k - 1
      <3>1. last + 1 # k
        BY <1>4, <1>10, <2>1, SubGrows DEF last
      <3> QED BY <1>0, <1>4, <3>1
    <2>3. Len(Append(acc.chunks, acc.current)) = n + 1 /\ (k - 1) + 1 = k
      BY <1>0, <1>2
    <2>4. cut[n] < k - 1
      BY <2>2 DEF last
    <2> HIDE DEF next, e
    <2>5. k - 1 \in 0..Len(s)
      BY <1>0
    <2>6. PICK j : j = k - 1
      OBVIOUS
    <2>7. j \in 0..Len(s) /\ last \in Nat /\ last < j /\ j + 1 = k
      BY <1>0, <1>4, <2>2, <2>5, <2>6
    <2>8. CutAt(acc.chunks, s, j, last)
      BY <1>3, <2>6 DEF CutAt, last
    <2>10. CutAt(Append(acc.chunks, SubSeq(s, last + 1, j)), s, j, j)
      BY <1>2, <2>7, <2>8, CutGrows
    <2>11. PICK far \in [0..(n + 1) -> 0..j] : IsCut(far, Append(acc.chunks, acc.current), s) /\ far[n + 1] = j
      BY <2>1, <2>3, <2>6, <2>10 DEF CutAt, last
    <2>12. far \in [0..(n + 1) -> 0..k]
      <3>1. 0..j \subseteq 0..k
        BY <2>7
      <3> QED BY <3>1
    <2> QED BY <2>6, <2>11, <2>12
  <1>11. \A i \in 1..(n + 1) : /\ i \in 1..n => Append(acc.chunks, acc.current)[i] = acc.chunks[i]
                               /\ i \notin 1..n => Append(acc.chunks, acc.current)[i] = acc.current
    <2>1. Append(acc.chunks, acc.current)[n + 1] = acc.current
      BY <1>2
    <2>2. \A i \in 1..n : Append(acc.chunks, acc.current)[i] = acc.chunks[i]
      BY <1>2
    <2>3. \A i \in 1..(n + 1) : i \notin 1..n => i = n + 1
      <3>1. n \in Nat
        BY <1>2
      <3> HIDE DEF n
      <3> QED BY <3>1
    <2> QED BY <2>1, <2>2, <2>3
  <1>12. ASSUME NEW i \in 1..(n + 1) PROVE Fits(Append(acc.chunks, acc.current)[i])
    BY <1>1, <1>11 DEF Sized
  <1>13. CASE /\ ~acc.full /\ acc.current # <<>> /\ next = Closed(acc, e)
              /\ n + 1 >= MaxChunks
    <2>1. /\ next.chunks = Append(acc.chunks, acc.current) /\ next.current = <<>> /\ next.full = TRUE
          /\ next.omitted = {e.file} /\ Len(next.chunks) = n + 1
      <3>1. acc.omitted = {} /\ Len(Append(acc.chunks, acc.current)) = n + 1
        BY <1>2, <1>9, <1>13
      <3> QED BY <1>1, <1>13, <3>1 DEF Acc, Closed
    <2>2. Sized(next)
      <3>1. n + 1 = MaxChunks
        <4>1. n \in Nat /\ n < MaxChunks /\ n + 1 >= MaxChunks
          BY <1>2, <1>9, <1>13
        <4> HIDE DEF n
        <4> QED BY <1>5, <4>1
      <3>2. Fits(<<>>)
        BY DEF Fits
      <3> HIDE DEF next
      <3> QED BY <1>12, <2>1, <3>1, <3>2 DEF Sized
    <2>3. PICK far \in [0..(n + 1) -> 0..k] : IsCut(far, Append(acc.chunks, acc.current), s) /\ far[n + 1] = k - 1
      BY <1>10, <1>13
    <2>4. Rest(next, s, k - 1, k)
      <3>1. (k - 1) + 1 = k /\ k..k = {k} /\ k - 1 < k
        BY <1>0
      <3>2. FilesBetween(s, (k - 1) + 1, k) = {e.file}
        BY <3>1 DEF FilesBetween
      <3> QED BY <2>1, <3>1, <3>2 DEF Rest
    <2> HIDE DEF next
    <2>5. IsCut(far, next.chunks, s) /\ Len(next.chunks) = n + 1 /\ Rest(next, s, far[n + 1], k)
      BY <2>1, <2>3, <2>4
    <2>9. Packing(next, s, k)
      BY <1>6, <2>2, <2>3, <2>5 DEF Packing
    <2> QED BY <2>9 DEF next
  <1>14. CASE /\ ~acc.full /\ acc.current # <<>> /\ next = Opened(acc, e)
              /\ n + 1 < MaxChunks
    <2>1. /\ next.chunks = Append(acc.chunks, acc.current) /\ next.current = <<e>> /\ next.full = FALSE
          /\ next.omitted = {} /\ Len(next.chunks) = n + 1 /\ next.length = e.length
      <3>1. acc.omitted = {} /\ Len(Append(acc.chunks, acc.current)) = n + 1
        BY <1>2, <1>9, <1>14
      <3> QED BY <1>1, <1>14, <3>1 DEF Acc, Opened
    <2>2. Sized(next)
      <3>1. Fits(<<e>>) /\ ChunkLength(<<e>>) = e.length /\ e.length <= e.length
        BY <1>0, <1>7, OneFits
      <3> HIDE DEF next, e
      <3> QED BY <1>12, <1>14, <2>1, <3>1 DEF Sized
    <2>3. PICK far \in [0..(n + 1) -> 0..k] : IsCut(far, Append(acc.chunks, acc.current), s) /\ far[n + 1] = k - 1
      BY <1>10, <1>14
    <2>4. Rest(next, s, k - 1, k)
      <3>1. (k - 1) + 1 = k /\ k - 1 < k /\ k \in 1..k
        BY <1>0
      <3>2. SubSeq(s, k, k) = <<e>>
        BY SubOne
      <3> QED BY <2>1, <3>1, <3>2 DEF Rest
    <2> HIDE DEF next
    <2>5. IsCut(far, next.chunks, s) /\ Len(next.chunks) = n + 1 /\ Rest(next, s, far[n + 1], k)
      BY <2>1, <2>3, <2>4
    <2>9. Packing(next, s, k)
      BY <1>6, <2>2, <2>3, <2>5 DEF Packing
    <2> QED BY <2>9 DEF next
  <1>15. CASE /\ ~acc.full /\ next = Joined(acc, e)
              /\ acc.current = <<>> \/ acc.length + e.length + Separator <= MaxChunk
    <2>1. /\ next.chunks = acc.chunks /\ next.current = Append(acc.current, e) /\ next.full = FALSE
          /\ next.omitted = {} /\ next.length = acc.length + e.length + Separator
      BY <1>1, <1>9, <1>15 DEF Acc, Joined
    <2>2. Sized(next)
      <3>1. CASE acc.current = <<>>
        <4>1. Append(acc.current, e) = <<e>>
          BY <3>1
        <4>2. Fits(<<e>>) /\ ChunkLength(<<e>>) = e.length
          BY <1>0, OneFits
        <4>3. e.length <= acc.length + e.length + Separator
          BY <1>2, <1>7
        <4> HIDE DEF next, e
        <4> QED BY <1>1, <1>9, <1>15, <2>1, <4>1, <4>2, <4>3 DEF Sized
      <3>2. CASE acc.current # <<>>
        <4>1. ChunkLength(acc.current) <= acc.length
          BY <1>1, <1>15, <3>2 DEF Sized
        <4>2. /\ ChunkLength(acc.current) \in Int
              /\ ChunkLength(Append(acc.current, e)) = ChunkLength(acc.current) + e.length + Separator
          BY <1>0, <1>2, ChunkGrows
        <4> HIDE DEF next, e
        <4>3. ChunkLength(Append(acc.current, e)) <= acc.length + e.length + Separator
          BY <1>2, <1>7, <4>1, <4>2
        <4>4. ChunkLength(Append(acc.current, e)) <= MaxChunk
          BY <1>2, <1>5, <1>7, <1>15, <3>2, <4>1, <4>2
        <4>5. Fits(Append(acc.current, e))
          BY <4>4 DEF Fits
        <4> QED BY <1>1, <1>9, <1>15, <2>1, <4>3, <4>5 DEF Sized
      <3> QED BY <3>1, <3>2
    <2>3. Rest(next, s, last, k)
      <3>1. last < k
        BY <1>0, <1>4
      <3>2. SubSeq(s, last + 1, k) = Append(SubSeq(s, last + 1, k - 1), e)
        BY <1>4, SubGrows
      <3> QED BY <1>9, <1>15, <2>1, <3>1, <3>2 DEF Rest
    <2>4. cut \in [0..n -> 0..k]
      <3>1. 0..(k - 1) \subseteq 0..k
        BY <1>0
      <3> QED BY <3>1
    <2> HIDE DEF next
    <2>5. IsCut(cut, next.chunks, s) /\ Len(next.chunks) = n /\ Rest(next, s, cut[n], k)
      BY <1>3, <2>1, <2>3 DEF last
    <2>9. Packing(next, s, k)
      BY <1>6, <2>2, <2>4, <2>5 DEF Packing
    <2> QED BY <2>9 DEF next
  <1>16. \/ acc.full /\ next = Refused(acc, e)
         \/ /\ ~acc.full /\ acc.current # <<>>
            /\ \/ n + 1 >= MaxChunks /\ next = Closed(acc, e)
               \/ n + 1 < MaxChunks /\ next = Opened(acc, e)
         \/ /\ ~acc.full /\ next = Joined(acc, e)
            /\ acc.current = <<>> \/ acc.length + e.length + Separator <= MaxChunk
    BY <1>0, <1>1, PackStep
  <1> QED BY <1>8, <1>13, <1>14, <1>15, <1>16

LEMMA PackedSound ==
    ASSUME NEW s \in Seq(Section)
    PROVE  Packing(Packed(s), s, Len(s))
  <1>1. PICK run : /\ IsRun(run, Len(s), Unpacked, Packed(s))
                   /\ \A k \in 1..Len(s) : run[k] = PackNext(run[k - 1], s[k])
    BY PackRuns
  <1>2. Len(s) \in Nat
    OBVIOUS
  <1> DEFINE T == {k \in 0..Len(s) : Packing(run[k], s, k)}
  <1>3. 0 \in T
    <2>1. run[0] = Unpacked /\ 0 \in 0..Len(s)
      BY <1>1, <1>2 DEF IsRun
    <2>2. /\ Unpacked.chunks = <<>> /\ Unpacked.current = <<>> /\ ~Unpacked.full /\ Unpacked.omitted = {}
          /\ Len(<<>>) = 0
      BY DEF Unpacked
    <2>3. Unpacked \in Acc
      <3>1. <<>> \in Seq(Section) /\ <<>> \in Seq(Seq(Section)) /\ {} \in SUBSET Nat /\ FALSE \in BOOLEAN
        OBVIOUS
      <3> QED BY <3>1 DEF Unpacked, Acc
    <2>4. Sized(Unpacked)
      BY <2>2, Limits DEF Sized, Fits
    <2> DEFINE cut == [i \in 0..0 |-> 0]
    <2>5. cut \in [0..0 -> 0..0] /\ cut[0] = 0
      OBVIOUS
    <2> HIDE DEF cut
    <2>6. IsCut(cut, <<>>, s)
      BY <2>5 DEF IsCut
    <2>7. SubSeq(s, 0 + 1, 0) = <<>>
      BY <1>2
    <2>8. Rest(Unpacked, s, 0, 0)
      BY <2>2, <2>7 DEF Rest
    <2>9. Packing(Unpacked, s, 0)
      BY <2>2, <2>3, <2>4, <2>5, <2>6, <2>8 DEF Packing
    <2> QED BY <2>1, <2>9
  <1>4. ASSUME NEW k \in 1..Len(s), k - 1 \in T PROVE k \in T
    <2>1. Packing(run[k - 1], s, k - 1) /\ k \in 0..Len(s)
      BY <1>2, <1>4
    <2>2. Packing(PackNext(run[k - 1], s[k]), s, k)
      BY <2>1, PackingStep
    <2> QED BY <1>1, <2>1, <2>2
  <1> HIDE DEF T
  <1>5. \A k \in 0..Len(s) : k \in T
    BY <1>2, <1>3, <1>4, UpToLast
  <1>6. Len(s) \in 0..Len(s)
    BY <1>2
  <1> QED BY <1>1, <1>5, <1>6 DEF T, IsRun

\* Whatever sections a scope has, pack_review_sections loses none and
\* doubles none, keeps the order, omits only what comes after the rest, makes no
\* more than MaxChunks chunks, and joins several sections only within MaxChunk (447-537).
THEOREM PackingHolds ==
    ASSUME NEW s \in Seq(Section)
    PROVE  PackingIsSound(s)
  <1> DEFINE acc == Packed(s)
             n == Len(acc.chunks)
             result == pack_review_sections(s)
  <1>1. Packing(acc, s, Len(s))
    BY PackedSound
  <1> HIDE DEF acc
  <1>2. /\ acc.chunks \in Seq(Seq(Section)) /\ acc.current \in Seq(Section)
        /\ acc.full \in BOOLEAN /\ n \in Nat /\ Sized(acc) /\ Len(s) \in Nat
    BY <1>1 DEF Packing, Acc
  <1>3. PICK cut \in [0..n -> 0..Len(s)] : IsCut(cut, acc.chunks, s) /\ Rest(acc, s, cut[n], Len(s))
    BY <1>1 DEF Packing
  <1>4. cut[n] \in 0..Len(s)
    <2>1. n \in 0..n
      BY <1>2
    <2> QED BY <1>3, <2>1
  <1>5. ~(acc.current # <<>> /\ Len(acc.chunks) >= MaxChunks)
    <2>1. acc.current # <<>> => ~acc.full
      BY <1>3 DEF Rest
    <2>2. ~acc.full => Len(acc.chunks) < MaxChunks
      BY <1>2 DEF Sized
    <2>3. MaxChunks \in Nat
      BY Limits
    <2> QED BY <1>2, <2>1, <2>2, <2>3
  <1>6. /\ result.chunks = IF s = <<>> THEN << <<>> >>
                           ELSE IF acc.current = <<>> THEN acc.chunks ELSE Append(acc.chunks, acc.current)
        /\ result.omitted = acc.omitted
    BY <1>5 DEF pack_review_sections, acc
  <1>7. MaxChunks \in Nat /\ MaxChunks >= 1
    BY Limits
  <1> HIDE DEF result, n
  <1>8. ASSUME NEW m \in Nat, NEW far \in [0..m -> 0..Len(s)],
               m \in 1..MaxChunks, m = Len(result.chunks), far[0] = 0,
               \A i \in 1..m : result.chunks[i] = SubSeq(s, far[i - 1] + 1, far[i]),
               \A i \in 1..m : far[i - 1] < far[i] \/ (s = <<>> /\ m = 1),
               result.omitted = FilesBetween(s, far[m] + 1, Len(s)),
               \A i \in 1..m : Fits(result.chunks[i]),
               result.chunks \in Seq(Seq(Section))
        PROVE  PackingIsSound(s)
    <2>1. \A c \in ToSet(result.chunks) : Len(c) > 1 => ChunkLength(c) <= MaxChunk
      <3>1. ASSUME NEW c \in ToSet(result.chunks) PROVE Fits(c)
        <4>1. DOMAIN result.chunks = 1..m
          BY <1>8
        <4> QED BY <1>8, <4>1 DEF ToSet
      <3> QED BY <3>1 DEF Fits
    <2>2. result.omitted = {s[i].file : i \in (far[m] + 1)..Len(s)}
      BY <1>8 DEF FilesBetween
    <2> QED BY <1>8, <2>1, <2>2 DEF PackingIsSound, result
  <1>9. CASE s = <<>>
    <2>1. Len(s) = 0 /\ result.chunks = << <<>> >> /\ Len(<< <<>> >>) = 1 /\ << <<>> >>[1] = <<>>
      BY <1>6, <1>9
    <2>2. acc.omitted = {}
      <3>1. acc.chunks = <<>>
        BY <1>3, <1>4, <2>1 DEF Rest
      <3>2. ~acc.full
        BY <1>2, <1>7, <3>1 DEF Sized, n
      <3> QED BY <1>3, <3>2 DEF Rest
    <2> DEFINE far == [i \in 0..1 |-> 0]
    <2>3. far \in [0..1 -> 0..Len(s)] /\ far[0] = 0 /\ far[1] = 0
      BY <2>1
    <2> HIDE DEF far
    <2>4. SubSeq(s, 0 + 1, 0) = <<>>
      BY <1>2
    <2>5. \A i \in 1..1 : i = 1 /\ i - 1 = 0
      OBVIOUS
    <2>6. \A i \in 1..1 : result.chunks[i] = SubSeq(s, far[i - 1] + 1, far[i])
      BY <2>1, <2>3, <2>4, <2>5
    <2>7. FilesBetween(s, 0 + 1, 0) = {}
      BY DEF FilesBetween
    <2>8. Fits(<<>>)
      BY DEF Fits
    <2>9. << <<>> >> \in Seq(Seq(Section))
      <3>1. <<>> \in Seq(Section)
        OBVIOUS
      <3> QED BY <3>1
    <2>10. \A i \in 1..1 : Fits(result.chunks[i])
      BY <2>1, <2>5, <2>8
    <2>11. 1 \in Nat /\ 1 \in 1..MaxChunks /\ 1 = Len(result.chunks)
      BY <1>7, <2>1
    <2>12. result.omitted = FilesBetween(s, far[1] + 1, Len(s))
      BY <1>6, <2>1, <2>2, <2>3, <2>7
    <2>13. result.chunks \in Seq(Seq(Section))
      BY <2>1, <2>9
    <2> HIDE DEF Fits
    <2> QED BY <1>8, <1>9, <2>3, <2>6, <2>10, <2>11, <2>12, <2>13
  <1>10. cut[0] = 0 /\ \A i \in 1..n : cut[i - 1] < cut[i] /\ acc.chunks[i] = SubSeq(s, cut[i - 1] + 1, cut[i])
    BY <1>3 DEF IsCut, n
  <1>11. CASE s # <<>> /\ acc.full
    <2>1. /\ acc.current = <<>> /\ acc.omitted = FilesBetween(s, cut[n] + 1, Len(s))
          /\ n = MaxChunks /\ \A i \in 1..n : Fits(acc.chunks[i])
      BY <1>2, <1>3, <1>11 DEF Rest, Sized, n
    <2>2. result.chunks = acc.chunks /\ n = Len(result.chunks)
      BY <1>6, <1>11, <2>1 DEF n
    <2>3. n \in 1..MaxChunks
      BY <1>7, <2>1
    <2> QED BY <1>2, <1>6, <1>8, <1>10, <2>1, <2>2, <2>3
  <1>12. CASE s # <<>> /\ ~acc.full
    <2>1. /\ acc.current = SubSeq(s, cut[n] + 1, Len(s)) /\ acc.omitted = {}
          /\ n < MaxChunks /\ \A i \in 1..n : Fits(acc.chunks[i])
      BY <1>2, <1>3, <1>12 DEF Rest, Sized, n
    <2>2. cut[n] < Len(s)
      <3>1. Len(s) # 0
        BY <1>12
      <3> QED BY <1>3, <3>1 DEF Rest
    <2>3. acc.current # <<>>
      <3>1. Len(s) \in 1..Len(s) /\ cut[n] + 1 \in 1..Len(s)
        BY <1>2, <1>4, <2>2
      <3>2. acc.current = Append(SubSeq(s, cut[n] + 1, Len(s) - 1), s[Len(s)]) /\ SubSeq(s, cut[n] + 1, Len(s) - 1) \in Seq(Section)
        BY <2>1, <3>1, SubGrows
      <3>3. s[Len(s)] \in Section
        BY <3>1
      <3>4. \A t \in Seq(Section), x \in Section : Len(Append(t, x)) = Len(t) + 1 /\ Len(t) \in Nat
        OBVIOUS
      <3>5. Len(acc.current) # 0
        BY <3>2, <3>3, <3>4
      <3> QED BY <3>5
    <2> DEFINE more == Append(acc.chunks, acc.current)
    <2>4. CutAt(acc.chunks, s, Len(s), cut[n])
      BY <1>3 DEF CutAt, n
    <2>5. CutAt(more, s, Len(s), Len(s))
      <3>1. Len(s) \in 0..Len(s) /\ cut[n] \in Nat
        BY <1>2, <1>4
      <3>2. CutAt(Append(acc.chunks, SubSeq(s, cut[n] + 1, Len(s))), s, Len(s), Len(s))
        BY <1>2, <2>2, <2>4, <3>1, CutGrows
      <3> QED BY <2>1, <3>2
    <2>6. /\ Len(more) = n + 1 /\ more \in Seq(Seq(Section)) /\ more[n + 1] = acc.current
          /\ \A i \in 1..n : more[i] = acc.chunks[i]
      BY <1>2 DEF n
    <2> HIDE DEF more
    <2>7. PICK far \in [0..(n + 1) -> 0..Len(s)] : IsCut(far, more, s) /\ far[n + 1] = Len(s)
      BY <2>5, <2>6 DEF CutAt
    <2>8. /\ far[0] = 0
          /\ \A i \in 1..(n + 1) : far[i - 1] < far[i] /\ more[i] = SubSeq(s, far[i - 1] + 1, far[i])
      BY <2>6, <2>7 DEF IsCut
    <2>9. result.chunks = more
      BY <1>6, <1>12, <2>3 DEF more
    <2>10. n + 1 \in Nat /\ n + 1 \in 1..MaxChunks /\ n + 1 = Len(result.chunks)
      BY <1>2, <1>7, <2>1, <2>6, <2>9
    <2>11. \A i \in 1..(n + 1) : Fits(more[i])
      <3>1. Fits(acc.current)
        BY <1>2 DEF Sized
      <3>2. \A i \in 1..(n + 1) : i \in 1..n \/ i = n + 1
        BY <1>2
      <3> QED BY <2>1, <2>6, <3>1, <3>2
    <2>12. result.omitted = FilesBetween(s, far[n + 1] + 1, Len(s))
      <3>1. (Len(s) + 1)..Len(s) = {}
        BY <1>2
      <3> QED BY <1>6, <2>1, <2>7, <3>1 DEF FilesBetween
    <2> QED BY <1>8, <2>6, <2>7, <2>8, <2>9, <2>10, <2>11, <2>12
  <1> QED BY <1>2, <1>9, <1>11, <1>12

\* The places between two cuts are apart, and leave none out.
LEMMA CutsSpan ==
    ASSUME NEW m \in Nat, NEW n \in Nat, NEW cut \in [0..m -> 0..n], cut[0] = 0, \A i \in 1..m : cut[i - 1] <= cut[i]
    PROVE  /\ \A h, i \in 0..m : h <= i => cut[h] <= cut[i]
           /\ \A x \in 1..cut[m] : \E i \in 1..m : x \in (cut[i - 1] + 1)..cut[i]
  <1> DEFINE T == {i \in 0..m : /\ \A h \in 0..i : cut[h] <= cut[i]
                                /\ \A x \in 1..cut[i] : \E h \in 1..i : x \in (cut[h - 1] + 1)..cut[h]}
  <1>1. \A i \in 0..m : cut[i] \in Nat
    OBVIOUS
  <1>2. 0 \in T
    <2>1. 0 \in 0..m /\ \A h \in 0..0 : h = 0
      OBVIOUS
    <2>2. 1..cut[0] = {}
      OBVIOUS
    <2> QED BY <1>1, <2>1, <2>2
  <1>3. ASSUME NEW k \in 1..m, k - 1 \in T
        PROVE  k \in T
    <2>1. k \in 0..m /\ k - 1 \in 0..m /\ k \in 1..k /\ cut[k - 1] <= cut[k] /\ cut[k] \in Nat /\ cut[k - 1] \in Nat
      BY <1>1
    <2>2. ASSUME NEW h \in 0..k PROVE cut[h] <= cut[k]
      <3>1. CASE h = k
        BY <2>1, <3>1
      <3>2. CASE h # k
        <4>1. h \in 0..(k - 1) /\ h \in 0..m
          BY <3>2
        <4> QED BY <1>1, <1>3, <2>1, <4>1
      <3> QED BY <3>1, <3>2
    <2>3. ASSUME NEW x \in 1..cut[k] PROVE \E h \in 1..k : x \in (cut[h - 1] + 1)..cut[h]
      <3>1. CASE x <= cut[k - 1]
        <4>1. x \in 1..cut[k - 1]
          BY <2>1, <3>1
        <4>2. PICK h \in 1..(k - 1) : x \in (cut[h - 1] + 1)..cut[h]
          BY <1>3, <4>1
        <4>3. h \in 1..k
          OBVIOUS
        <4> QED BY <4>2, <4>3
      <3>2. CASE ~(x <= cut[k - 1])
        BY <2>1, <3>2
      <3> QED BY <3>1, <3>2
    <2> QED BY <2>1, <2>2, <2>3
  <1> HIDE DEF T
  <1>4. \A i \in 0..m : i \in T
    BY <1>2, <1>3, UpToLast
  <1>5. m \in 0..m
    OBVIOUS
  <1>6. ASSUME NEW h \in 0..m, NEW i \in 0..m, h <= i
        PROVE  cut[h] <= cut[i]
    <2>1. h \in 0..i
      BY <1>6
    <2> QED BY <1>4, <2>1 DEF T
  <1>7. \A x \in 1..cut[m] : \E i \in 1..m : x \in (cut[i - 1] + 1)..cut[i]
    BY <1>4, <1>5 DEF T
  <1> QED BY <1>6, <1>7

LEMMA FilesCut ==
    ASSUME NEW s \in Seq(Section), NEW a \in 0..Len(s), NEW b \in 0..Len(s)
    PROVE  FilesOf(SubSeq(s, a + 1, b)) = FilesBetween(s, a + 1, b)
  <1> DEFINE t == SubSeq(s, a + 1, b)
  <1>0. Len(s) \in Nat /\ a \in Nat /\ b \in Nat /\ a <= Len(s) /\ b <= Len(s)
    OBVIOUS
  <1>1. CASE a <= b
    <2>1. DOMAIN t = 1..(b - a) /\ \A i \in 1..(b - a) : t[i] = s[a + i]
      <3>1. t \in Seq(Section) /\ Len(t) = b - a
        BY <1>0, <1>1
      <3>2. \A i \in 1..(b - a) : t[i] = s[(a + 1) + i - 1] /\ (a + 1) + i - 1 = a + i
        BY <1>0, <1>1
      <3> HIDE DEF t
      <3> QED BY <3>1, <3>2
    <2> HIDE DEF t
    <2>2. ASSUME NEW f, f \in FilesOf(t)
          PROVE  f \in FilesBetween(s, a + 1, b)
      <3>1. PICK i \in 1..(b - a) : f = t[i].file
        BY <2>1, <2>2 DEF FilesOf, ToSet
      <3>2. a + i \in (a + 1)..b
        BY <1>0, <1>1
      <3> QED BY <2>1, <3>1, <3>2 DEF FilesBetween
    <2>3. ASSUME NEW f, f \in FilesBetween(s, a + 1, b)
          PROVE  f \in FilesOf(t)
      <3>1. PICK x \in (a + 1)..b : f = s[x].file
        BY <2>3 DEF FilesBetween
      <3>2. x - a \in 1..(b - a) /\ a + (x - a) = x
        BY <1>0
      <3>3. t[x - a] = s[x]
        BY <2>1, <3>2
      <3> QED BY <2>1, <3>1, <3>2, <3>3 DEF FilesOf, ToSet
    <2> QED BY <2>2, <2>3 DEF t
  <1>2. CASE ~(a <= b)
    <2>1. t = <<>>
      BY <1>0, <1>2
    <2>2. (a + 1)..b = {}
      BY <1>0, <1>2
    <2> QED BY <2>1, <2>2 DEF FilesOf, FilesBetween, ToSet
  <1> QED BY <1>0, <1>1, <1>2

\* The chunks are sequences of sections.
LEMMA PackedTyped ==
    ASSUME NEW s \in Seq(Section)
    PROVE  pack_review_sections(s).chunks \in Seq(Seq(Section))
  <1> DEFINE acc == Packed(s)
             chunks == pack_review_sections(s).chunks
  <1>1. acc.chunks \in Seq(Seq(Section)) /\ acc.current \in Seq(Section)
    BY PackedSound DEF Packing, Acc
  <1>2. chunks \in {<< <<>> >>, acc.chunks, Append(acc.chunks, acc.current)}
    BY DEF pack_review_sections
  <1> HIDE DEF acc, chunks
  <1>3. << <<>> >> \in Seq(Seq(Section))
    <2>1. <<>> \in Seq(Section)
      OBVIOUS
    <2> QED BY <2>1
  <1>5. Append(acc.chunks, acc.current) \in Seq(Seq(Section))
    BY <1>1
  <1>4. chunks \in Seq(Seq(Section))
    BY <1>1, <1>2, <1>3, <1>5
  <1> QED BY <1>4 DEF chunks

\* What the files of a scope amount to.
Accounted(scope) ==
    /\ scope.included \cup scope.omitted = scope.changed
    /\ scope.included \cap scope.omitted = {}
    /\ \A i, j \in DOMAIN scope.chunks : i # j => FilesOf(scope.chunks[i]) \cap FilesOf(scope.chunks[j]) = {}

LEMMA ScopeAccounted ==
    ASSUME NEW pr \in Contents
    PROVE  Accounted(build_review_scope(pr))
  <1> DEFINE s == ReviewSections(pr)
             n == Len(s)
             packed == pack_review_sections(s)
             m == Len(packed.chunks)
             scope == build_review_scope(pr)
  <1>1. s \in Seq(Section) /\ Distinct(s) /\ \A x \in DOMAIN s : s[x].file \in DOMAIN pr
    BY SectionsGathered
  <1>2. scope = [changed |-> DOMAIN pr,
                 included |-> UNION {FilesOf(packed.chunks[i]) : i \in DOMAIN packed.chunks},
                 omitted |-> (DOMAIN pr \ FilesOf(s)) \cup packed.omitted,
                 chunks |-> packed.chunks]
    BY DEF build_review_scope
  <1> HIDE DEF s, scope
  <1>3. PackingIsSound(s)
    BY <1>1, PackingHolds
  <1>4. n \in Nat /\ DOMAIN s = 1..n
    BY <1>1
  <1>5. PICK cut \in [0..m -> 0..n] :
            /\ cut[0] = 0
            /\ \A i \in 1..m : packed.chunks[i] = SubSeq(s, cut[i - 1] + 1, cut[i])
            /\ \A i \in 1..m : cut[i - 1] < cut[i] \/ (s = <<>> /\ m = 1)
            /\ packed.omitted = {s[i].file : i \in (cut[m] + 1)..n}
    BY <1>3 DEF PackingIsSound
  <1>6. m \in 1..MaxChunks /\ MaxChunks \in Nat /\ m \in Nat
    <2>1. m \in 1..MaxChunks /\ MaxChunks \in Nat
      BY <1>3, Limits DEF PackingIsSound
    <2> HIDE DEF m
    <2> QED BY <2>1
  <1>14. DOMAIN packed.chunks = 1..m
    <2>1. packed.chunks \in Seq(Seq(Section))
      BY <1>1, PackedTyped
    <2> QED BY <2>1
  <1> HIDE DEF packed, m, n
  <1>7. \A i \in 0..m : cut[i] \in 0..n
    BY <1>5
  <1>8. \A i \in 1..m : cut[i - 1] <= cut[i]
    <2> SUFFICES ASSUME NEW i \in 1..m PROVE cut[i - 1] <= cut[i]
      OBVIOUS
    <2>1. i \in 0..m /\ i - 1 \in 0..m
      BY <1>6
    <2>2. cut[i] \in 0..n /\ cut[i - 1] \in 0..n
      BY <1>7, <2>1
    <2>3. s = <<>> => n = 0
      BY DEF n
    <2> QED BY <1>5, <2>2, <2>3
  <1>9. /\ \A h, i \in 0..m : h <= i => cut[h] <= cut[i]
        /\ \A x \in 1..cut[m] : \E i \in 1..m : x \in (cut[i - 1] + 1)..cut[i]
    BY <1>4, <1>5, <1>6, <1>8, CutsSpan
  <1>10. ASSUME NEW i \in 1..m
         PROVE  FilesOf(packed.chunks[i]) = FilesBetween(s, cut[i - 1] + 1, cut[i])
    <2>1. i \in 0..m /\ i - 1 \in 0..m
      BY <1>6
    <2>2. cut[i] \in 0..Len(s) /\ cut[i - 1] \in 0..Len(s)
      BY <1>7, <2>1 DEF n
    <2>3. FilesOf(SubSeq(s, cut[i - 1] + 1, cut[i])) = FilesBetween(s, cut[i - 1] + 1, cut[i])
      BY <1>1, <2>2, FilesCut
    <2> QED BY <1>5, <2>3
  <1>11. cut[m] \in 0..n
    BY <1>6, <1>7
  <1>12. scope.included = FilesBetween(s, 1, cut[m])
    <2>1. scope.included = UNION {FilesOf(packed.chunks[i]) : i \in 1..m}
      BY <1>2, <1>14
    <2>2. ASSUME NEW f, f \in scope.included
          PROVE  f \in FilesBetween(s, 1, cut[m])
      <3>1. PICK i \in 1..m : f \in FilesBetween(s, cut[i - 1] + 1, cut[i])
        BY <1>10, <2>1, <2>2
      <3>2. PICK x \in (cut[i - 1] + 1)..cut[i] : f = s[x].file
        BY <3>1 DEF FilesBetween
      <3>3. cut[i - 1] \in 0..n /\ cut[i] \in 0..n /\ cut[i] <= cut[m]
        <4>1. i - 1 \in 0..m /\ i \in 0..m /\ m \in 0..m /\ i <= m
          BY <1>6
        <4> QED BY <1>7, <1>9, <4>1
      <3>4. x \in 1..cut[m]
        BY <1>4, <1>11, <3>3
      <3> QED BY <3>2, <3>4 DEF FilesBetween
    <2>3. ASSUME NEW f, f \in FilesBetween(s, 1, cut[m])
          PROVE  f \in scope.included
      <3>1. PICK x \in 1..cut[m] : f = s[x].file
        BY <2>3 DEF FilesBetween
      <3>2. PICK i \in 1..m : x \in (cut[i - 1] + 1)..cut[i]
        BY <1>9
      <3>3. f \in FilesBetween(s, cut[i - 1] + 1, cut[i])
        BY <3>1, <3>2 DEF FilesBetween
      <3> QED BY <1>10, <2>1, <3>3
    <2> QED BY <2>2, <2>3
  <1>13. scope.omitted = (DOMAIN pr \ FilesBetween(s, 1, n)) \cup FilesBetween(s, cut[m] + 1, n) /\ scope.changed = DOMAIN pr
    <2>1. FilesOf(s) = FilesBetween(s, 1, n)
      BY <1>4 DEF FilesOf, FilesBetween, ToSet
    <2> QED BY <1>2, <1>5, <2>1 DEF FilesBetween
  <1>15. \A x, y \in 1..n : x # y => s[x].file # s[y].file
    BY <1>1, <1>4 DEF Distinct
  <1>16. ASSUME NEW a \in 0..n, NEW b \in 0..n, NEW c \in 0..n, NEW d \in 0..n, b <= c,
                NEW f, f \in FilesBetween(s, a + 1, b), f \in FilesBetween(s, c + 1, d)
         PROVE  FALSE
    <2>1. PICK x \in (a + 1)..b : f = s[x].file
      BY <1>16 DEF FilesBetween
    <2>2. PICK y \in (c + 1)..d : f = s[y].file
      BY <1>16 DEF FilesBetween
    <2>3. x \in 1..n /\ y \in 1..n /\ x # y
      BY <1>4, <1>16
    <2> QED BY <1>15, <2>1, <2>2, <2>3
  <1>17. scope.included \cap scope.omitted = {}
    <2> SUFFICES ASSUME NEW f, f \in scope.included, f \in scope.omitted PROVE FALSE
      OBVIOUS
    <2>1. FilesBetween(s, 1, cut[m]) \subseteq FilesBetween(s, 1, n)
      <3>1. 1..cut[m] \subseteq 1..n
        BY <1>4, <1>11
      <3> QED BY <3>1 DEF FilesBetween
    <2>2. f \in FilesBetween(s, 0 + 1, cut[m]) /\ f \in FilesBetween(s, cut[m] + 1, n)
      BY <1>12, <1>13, <2>1
    <2>3. 0 \in 0..n /\ n \in 0..n /\ cut[m] <= cut[m]
      BY <1>4, <1>11
    <2> QED BY <1>11, <1>16, <2>2, <2>3
  <1>18. scope.included \cup scope.omitted = scope.changed
    <2>1. FilesBetween(s, 1, n) = FilesBetween(s, 1, cut[m]) \cup FilesBetween(s, cut[m] + 1, n)
      <3>1. 1..n = (1..cut[m]) \cup ((cut[m] + 1)..n)
        BY <1>4, <1>11
      <3> QED BY <3>1 DEF FilesBetween
    <2>2. FilesBetween(s, 1, n) \subseteq DOMAIN pr
      BY <1>1, <1>4 DEF FilesBetween
    <2> QED BY <1>12, <1>13, <2>1, <2>2
  <1>19. ASSUME NEW i \in 1..m, NEW j \in 1..m, i < j, NEW f, f \in FilesOf(packed.chunks[i]), f \in FilesOf(packed.chunks[j])
         PROVE  FALSE
    <2>1. f \in FilesBetween(s, cut[i - 1] + 1, cut[i]) /\ f \in FilesBetween(s, cut[j - 1] + 1, cut[j])
      BY <1>10, <1>19
    <2>2. i - 1 \in 0..m /\ i \in 0..m /\ j - 1 \in 0..m /\ j \in 0..m /\ i <= j - 1
      BY <1>6, <1>19
    <2>3. /\ cut[i - 1] \in 0..n /\ cut[i] \in 0..n /\ cut[j - 1] \in 0..n /\ cut[j] \in 0..n
          /\ cut[i] <= cut[j - 1]
      BY <1>7, <1>9, <2>2
    <2> QED BY <1>16, <2>1, <2>3
  <1>20. \A i, j \in 1..m : i # j => FilesOf(packed.chunks[i]) \cap FilesOf(packed.chunks[j]) = {}
    <2> SUFFICES ASSUME NEW i \in 1..m, NEW j \in 1..m, i # j,
                        NEW f, f \in FilesOf(packed.chunks[i]), f \in FilesOf(packed.chunks[j])
                 PROVE  FALSE
      OBVIOUS
    <2>1. i < j \/ j < i
      BY <1>6
    <2> QED BY <1>19, <2>1
  <1>21. scope.chunks = packed.chunks
    BY <1>2
  <1> QED BY <1>14, <1>17, <1>18, <1>20, <1>21 DEF Accounted, scope

-----------------------------------------------------------------------------
\* The inductive invariant: types first.

Keys == Nat \X Severities \X STRING
Scopes == {NoScope} \cup {build_review_scope(c) : c \in Contents}
Busy == {"scope", "ask", "fallback", "find_review", "list_threads", "sync", "comment"}

Running ==
    [pc : Busy, head : 1..MaxPushes, files : Contents \cup {<<>>}, scope : Scopes, reviews : Seq(Review),
     merged : Review, listed : Seq(Thread), left : Nat, tracked : SUBSET Keys, posted : SUBSET Keys,
     synced : BOOLEAN, touched : SUBSET Nat]

\* A job on its way: its findings are told apart by their keys.
Going(j) == j \in Running /\ j.left <= Len(j.listed) /\ Apart(j.merged.findings)

\* A running job is of a head that was pushed.
JobInv == job = Idle \/ (Going(job) /\ job.head <= head)

WorldInv ==
    /\ head \in 1..MaxPushes /\ content \in Contents /\ threads \in Seq(Thread)
    /\ reviews \in Seq(Nat) /\ \A i \in DOMAIN reviews : reviews[i] <= head
    /\ comments \in Seq(Nat) /\ \A i \in DOMAIN comments : comments[i] <= head
    /\ queued \in BOOLEAN /\ conclusion \in {"none", "success", "failure", "error"}
    /\ dispatches \in 0..MaxDispatches /\ acts \in 0..MaxActs

\* While a review may still be posted, none of this head is on the page; a
\* job has published only when all that is left is its summary.
PageInv ==
    /\ OnePerPage
    /\ At("list_threads") \/ At("sync") => job.head \notin Page(reviews)
    /\ ~At("idle") /\ job.synced => At("comment")

\* The threads that were listed are still there, with the keys and files they had.
StillThere ==
    /\ Len(job.listed) <= Len(threads)
    /\ \A i \in DOMAIN job.listed : threads[i].key = job.listed[i].key /\ threads[i].file = job.listed[i].file

\* Which of the listed threads the publication leaves open.
Opens(i) ==
    \/ Key(i) \in Wanted /\ \A j \in DOMAIN job.listed : j > i => Key(j) # Key(i)
    \/ /\ Key(i) \notin Wanted /\ ~job.listed[i].resolved
       /\ threads[i].file \in job.scope.changed \ job.scope.included

\* While it runs, no key is tracked before the threads are listed.
Untracked == job.pc \in Busy \ {"sync", "comment"} => job.tracked = {}

\* On the way, the threads behind the one at hand are settled and their wanted
\* keys tracked, the others are as they were listed.
OnTheWay ==
    /\ StillThere /\ Len(threads) = Len(job.listed) /\ job.left <= Len(job.listed)
    /\ job.tracked = {Key(j) : j \in {i \in DOMAIN job.listed : i > job.left /\ Key(i) \in Wanted}}
    /\ \A i \in DOMAIN job.listed \ job.touched :
          IF i > job.left THEN ~threads[i].resolved <=> Opens(i)
                          ELSE threads[i].resolved = job.listed[i].resolved

SyncInv ==
    /\ Untracked
    /\ At("sync") => OnTheWay
    /\ At("comment") /\ job.synced => StillThere
    /\ ThreadsSettled /\ FindingsTracked /\ ThreadKeysUnique

\* An answer leaves a running job running.
LEMMA Answer ==
    ASSUME Going(job), NEW review \in Answers, Answered(review)
    PROVE  /\ Going(job') /\ job'.head = job.head
           /\ job'.pc \in {"ask", "find_review"} /\ job'.synced = job.synced
  <1> DEFINE answers == Append(job.reviews, normalize_review(review))
             done == Len(answers) = Len(job.scope.chunks)
  <1>1. job.reviews \in Seq(Review)
    BY DEF Going, Running
  <1>2. normalize_review(review) \in Review
    BY Found, NormalizedReview
  <1>3. answers \in Seq(Review) /\ <<>> \in Seq(Review)
    BY <1>1, <1>2
  <1>4. merge_reviews(job.scope, answers) \in Review /\ Apart(merge_reviews(job.scope, answers).findings)
    BY <1>3, MergedApart
  <1>5. job' = [job EXCEPT !.reviews = IF done THEN <<>> ELSE answers,
                           !.pc = IF done THEN "find_review" ELSE "ask",
                           !.merged = IF done THEN merge_reviews(job.scope, answers) ELSE @]
    BY DEF Answered
  <1> HIDE DEF answers, done
  <1>6. CASE done
    <2>1. job' = [job EXCEPT !.reviews = <<>>, !.pc = "find_review", !.merged = merge_reviews(job.scope, answers)]
      BY <1>5, <1>6
    <2>2. QED
      BY <2>1, <1>3, <1>4 DEF Going, Running, Busy
  <1>7. CASE ~done
    <2>1. job' = [job EXCEPT !.reviews = answers, !.pc = "ask", !.merged = job.merged]
      BY <1>5, <1>7
    <2>2. QED
      BY <2>1, <1>3 DEF Going, Running, Busy
  <1>8. QED
    BY <1>6, <1>7

\* The shape of a step: what the job does to the world.
LEMMA JobInit ==
    Init => JobInv /\ WorldInv
  <1>1. SUFFICES ASSUME Init PROVE JobInv /\ WorldInv
    OBVIOUS
  <1>2. threads \in Seq(Thread)
    BY <1>1, Inherited DEF Init
  <1>3. <<>> \in Seq(Nat) /\ DOMAIN <<>> = {}
    OBVIOUS
  <1>4. QED
    BY <1>1, <1>2, <1>3, Bounds DEF Init, JobInv, WorldInv

LEMMA Started ==
    ASSUME WorldInv, StartJob
    PROVE  Going(job') /\ job'.head <= head /\ job'.listed = <<>>
  <1>1. job' = [pc |-> "scope", head |-> head, files |-> <<>>, scope |-> NoScope, reviews |-> <<>>,
                 merged |-> NoReview, listed |-> <<>>, left |-> 0, tracked |-> {},
                 posted |-> {}, synced |-> FALSE, touched |-> {}]
    BY DEF StartJob
  <1>2. head \in 1..MaxPushes /\ NoScope \in Scopes /\ "scope" \in Busy
    BY DEF WorldInv, Scopes, Busy
  <1>3. NoReview \in Review /\ NoReview.findings = <<>>
    <2>1. <<>> \in Seq(Finding)
      OBVIOUS
    <2>2. QED
      BY <2>1 DEF NoReview, Review
  <1>4. <<>> \in Seq(Review) /\ <<>> \in Seq(Thread) /\ <<>> \in Contents \cup {<<>>} /\ 0 \in Nat
        /\ {} \in SUBSET Keys /\ {} \in SUBSET Nat /\ FALSE \in BOOLEAN
    OBVIOUS
  <1>5. Apart(<<>>)
    BY DEF Apart
  <1>6. job' \in Running /\ job'.head = head /\ job'.merged = NoReview /\ job'.left = 0 /\ job'.listed = <<>>
    BY <1>1, <1>2, <1>3, <1>4 DEF Running
  <1>7. QED
    BY <1>2, <1>3, <1>5, <1>6, Bounds DEF Going

LEMMA Toggled ==
    ASSUME WorldInv, JobInv, PersonToggles
    PROVE  /\ threads' \in Seq(Thread)
           /\ \/ job = Idle /\ job' = job
              \/ /\ Going(job) /\ Going(job')
                 /\ \E i \in DOMAIN threads : job' = [job EXCEPT !.touched = @ \cup {i}]
  <1>1. PICK i \in DOMAIN threads :
            /\ threads' = [threads EXCEPT ![i].resolved = ~@]
            /\ job' = IF At("idle") THEN job ELSE [job EXCEPT !.touched = @ \cup {i}]
    BY DEF PersonToggles
  <1>2. threads \in Seq(Thread) /\ i \in 1..Len(threads)
    BY <1>1 DEF WorldInv
  <1>3. threads' \in Seq(Thread)
    <2>1. threads[i] \in Thread
      BY <1>2
    <2>2. [threads[i] EXCEPT !.resolved = ~@] \in Thread
      BY <2>1 DEF Thread
    <2> DEFINE changed == [threads[i] EXCEPT !.resolved = ~@]
    <2>3. threads' = [threads EXCEPT ![i] = changed]
      BY <1>1
    <2> HIDE DEF changed
    <2>4. QED
      BY <1>2, <2>2, <2>3 DEF changed
  <1>4. CASE job = Idle
    BY <1>1, <1>3, <1>4 DEF At, Idle
  <1>5. CASE Going(job)
    <2>1. ~At("idle") /\ i \in Nat
      BY <1>2, <1>5 DEF At, Going, Running, Busy
    <2>2. job' = [job EXCEPT !.touched = @ \cup {i}]
      BY <1>1, <2>1
    <2>3. Going(job')
      BY <1>5, <2>1, <2>2 DEF Going, Running
    <2>4. QED
      BY <1>3, <1>5, <2>2, <2>3
  <1>6. QED
    BY <1>4, <1>5 DEF JobInv

\* One sequence behind the other.
LEMMA Beside ==
    ASSUME NEW S, NEW s \in Seq(S), NEW t \in Seq(S)
    PROVE  /\ s \o t \in Seq(S) /\ Len(s \o t) = Len(s) + Len(t)
           /\ \A i \in 1..Len(s) : (s \o t)[i] = s[i]
           /\ \A x \in 1..Len(t) : (s \o t)[Len(s) + x] = t[x]
  OBVIOUS

\* The thread at hand is one of those listed, and is to be open or closed.
LEMMA AtHand ==
    ASSUME Going(job), job.left > 0
    PROVE  /\ job.left \in 1..Len(job.listed) /\ DOMAIN job.listed = 1..Len(job.listed)
           /\ job.listed[job.left] \in Thread /\ Settled(job.left) \in BOOLEAN
  <1>1. job.left \in Nat /\ job.listed \in Seq(Thread) /\ job.left <= Len(job.listed)
    BY DEF Going, Running
  <1>2. job.left \in 1..Len(job.listed) /\ DOMAIN job.listed = 1..Len(job.listed)
    BY <1>1
  <1>3. job.listed[job.left] \in Thread
    BY <1>1, <1>2
  <1>4. job.listed[job.left].resolved \in BOOLEAN
    BY <1>3 DEF Thread
  <1>5. Settled(job.left) \in BOOLEAN
    <2> DEFINE thread == job.listed[job.left]
               wanted == thread.key \in Wanted
               tracked == thread.key \in job.tracked
               skipped == thread.file \in job.scope.changed \ job.scope.included
    <2>1. Settled(job.left) = CASE wanted -> tracked [] ~wanted /\ skipped -> thread.resolved [] OTHER -> TRUE
      BY DEF Settled
    <2>2. tracked \in BOOLEAN /\ thread.resolved \in BOOLEAN
      BY <1>4
    <2> HIDE DEF thread, wanted, tracked, skipped
    <2>3. CASE wanted
      BY <2>1, <2>2, <2>3
    <2>4. CASE ~wanted /\ skipped
      BY <2>1, <2>2, <2>4
    <2>5. CASE ~wanted /\ ~skipped
      BY <2>1, <2>5
    <2>6. QED
      BY <2>3, <2>4, <2>5
  <1>6. QED
    BY <1>2, <1>3, <1>5

\* What a step of sync_review_threads leaves of the threads.
LEMMA SyncedThreads ==
    ASSUME WorldInv, Going(job), sync_review_threads
    PROVE  /\ threads' \in Seq(Thread) /\ Len(threads') = Len(threads)
           /\ \A i \in DOMAIN threads : /\ threads'[i].key = threads[i].key /\ threads'[i].file = threads[i].file
                                        /\ i # job.left => threads'[i] = threads[i]
  <1> DEFINE k == job.left
  <1>1. threads \in Seq(Thread) /\ k > 0
    BY DEF WorldInv, sync_review_threads
  <1>2. Settled(k) \in BOOLEAN
    BY <1>1, AtHand
  <1>3. \/ threads' = threads
        \/ threads' = [threads EXCEPT ![k].resolved = Settled(k)]
    BY DEF sync_review_threads
  <1>4. CASE threads' = threads
    BY <1>1, <1>4
  <1>5. CASE threads' = [threads EXCEPT ![k].resolved = Settled(k)] /\ k \in DOMAIN threads
    <2> DEFINE changed == [threads[k] EXCEPT !.resolved = Settled(k)]
    <2>1. threads[k] \in Thread
      BY <1>1, <1>5
    <2>2. changed \in Thread /\ changed.key = threads[k].key /\ changed.file = threads[k].file
      BY <1>2, <2>1 DEF Thread
    <2>3. threads' = [threads EXCEPT ![k] = changed]
      BY <1>5
    <2> HIDE DEF changed, k
    <2>4. threads' \in Seq(Thread) /\ Len(threads') = Len(threads)
      BY <1>1, <1>5, <2>2, <2>3
    <2>5. \A i \in DOMAIN threads : threads'[i] = IF i = k THEN changed ELSE threads[i]
      BY <1>1, <2>3
    <2>6. QED
      BY <2>2, <2>4, <2>5 DEF k
  <1>6. CASE threads' = [threads EXCEPT ![k].resolved = Settled(k)] /\ k \notin DOMAIN threads
    <2>1. threads' = threads
      BY <1>1, <1>6
    <2>2. QED
      BY <1>1, <2>1
  <1>7. QED
    BY <1>3, <1>4, <1>5, <1>6

\* The threads a review opens are behind the others, with the keys of its comments.
LEMMA OpenedThreads ==
    ASSUME WorldInv, Going(job), create_pull_request_review
    PROVE  LET n == Len(threads) IN
           /\ NewFindings \in Seq(Finding) /\ Commented(NewFindings, job.merged.findings, Len(job.merged.findings))
           /\ threads' \in Seq(Thread) /\ Len(threads') = n + Len(NewFindings)
           /\ \A i \in 1..n : threads'[i] = threads[i]
           /\ \A x \in 1..Len(NewFindings) : threads'[n + x] = [key |-> build_finding_key(NewFindings[x]),
                                                               file |-> NewFindings[x].file, resolved |-> FALSE]
  <1> DEFINE new == NewFindings
             opened(f) == [key |-> build_finding_key(f), file |-> f.file, resolved |-> FALSE]
             tail == [x \in DOMAIN new |-> opened(new[x])]
  <1>1. threads \in Seq(Thread) /\ job.merged.findings \in Seq(Finding) /\ Apart(job.merged.findings)
    BY DEF WorldInv, Going, Running, Review
  <1>2. new \in Seq(Finding) /\ Commented(new, job.merged.findings, Len(job.merged.findings))
    <2>1. Commented(new, job.merged.findings, Len(job.merged.findings))
      BY <1>1, NewCommented
    <2>2. QED
      BY <2>1 DEF Commented
  <1>3. threads' = threads \o tail
    BY DEF create_pull_request_review
  <1> HIDE DEF new
  <1>4. \A x \in 1..Len(new) : opened(new[x]) \in Thread
    <2>1. ASSUME NEW x \in 1..Len(new) PROVE opened(new[x]) \in Thread
      <3>1. new[x] \in Finding
        BY <1>2
      <3>2. new[x].file \in Nat /\ build_finding_key(new[x]) \in Nat \X Severities \X STRING
        BY <3>1 DEF Finding, build_finding_key
      <3>3. QED
        BY <3>2 DEF Thread
    <2>2. QED
      BY <2>1
  <1>5. DOMAIN new = 1..Len(new) /\ Len(new) \in Nat
    BY <1>2
  <1> DEFINE o(x) == opened(new[x])
  <1>6. tail = [x \in 1..Len(new) |-> o(x)]
    BY <1>5
  <1>7. tail \in Seq(Thread) /\ Len(tail) = Len(new) /\ \A x \in 1..Len(new) : tail[x] = o(x)
    <2> HIDE DEF tail, opened
    <2>1. QED
      BY <1>4, <1>5, <1>6
  <1> HIDE DEF tail
  <1>8. threads' \in Seq(Thread) /\ Len(threads') = Len(threads) + Len(new)
        /\ (\A i \in 1..Len(threads) : threads'[i] = threads[i])
        /\ \A x \in 1..Len(new) : threads'[Len(threads) + x] = tail[x]
    <2>1. threads \in Seq(Thread) /\ tail \in Seq(Thread) /\ Len(tail) = Len(new) /\ Len(new) \in Nat
      BY <1>1, <1>5, <1>7
    <2> HIDE DEF opened, o
    <2>2. threads \o tail \in Seq(Thread) /\ Len(threads \o tail) = Len(threads) + Len(tail)
      BY <2>1, Beside
    <2>3. \A i \in 1..Len(threads) : (threads \o tail)[i] = threads[i]
      BY <2>1, Beside
    <2>4. \A x \in 1..Len(tail) : (threads \o tail)[Len(threads) + x] = tail[x]
      BY <2>1, Beside
    <2>5. QED
      BY <1>3, <2>1, <2>2, <2>3, <2>4
  <1>9. QED
    BY <1>2, <1>7, <1>8 DEF new

LEMMA WorldStep ==
    JobInv /\ WorldInv /\ [Next]_vars => WorldInv'
  <1>1. SUFFICES ASSUME JobInv, WorldInv, [Next]_vars PROVE WorldInv'
    OBVIOUS
  <1> USE DEF WorldInv
  <1>2. MaxPushes \in Nat \ {0} /\ MaxDispatches \in Nat /\ MaxActs \in Nat /\ Person \in Nat
    BY Bounds DEF Person
  <1>3. \A s \in Seq(Nat), x \in 0..head : (\A i \in DOMAIN s : s[i] <= head) =>
            Append(s, x) \in Seq(Nat) /\ \A i \in DOMAIN Append(s, x) : Append(s, x)[i] <= head
    <2>1. SUFFICES ASSUME NEW s \in Seq(Nat), NEW x \in 0..head, \A i \in DOMAIN s : s[i] <= head
                   PROVE  Append(s, x) \in Seq(Nat) /\ \A i \in DOMAIN Append(s, x) : Append(s, x)[i] <= head
      OBVIOUS
    <2>2. x \in Nat /\ x <= head
      BY <1>1, <1>2
    <2>3. QED
      BY <2>1, <2>2
  <1>4. CASE Push
    <2>1. head' \in 1..MaxPushes /\ head' = head + 1 /\ head \in Nat
      BY <1>1, <1>2, <1>4 DEF Push
    <2>2. ASSUME NEW s \in Seq(Nat), \A i \in DOMAIN s : s[i] <= head PROVE \A i \in DOMAIN s : s[i] <= head'
      BY <2>1, <2>2
    <2>3. QED
      BY <1>1, <1>4, <2>1, <2>2 DEF Push
  <1>5. CASE Dispatch
    BY <1>1, <1>2, <1>5 DEF Dispatch
  <1>6. CASE PersonToggles
    <2>1. threads' \in Seq(Thread)
      BY <1>1, <1>6, Toggled
    <2>2. acts' \in 0..MaxActs
      BY <1>1, <1>2, <1>6 DEF PersonToggles
    <2>3. QED
      BY <1>1, <1>6, <2>1, <2>2 DEF PersonToggles
  <1>7. CASE PersonWrites
    <2>1. Person \in 0..head
      BY <1>1, <1>2 DEF Person
    <2>2. CASE comments' = Append(comments, Person) /\ reviews' = reviews
      BY <1>1, <1>2, <1>3, <1>7, <2>1, <2>2 DEF PersonWrites
    <2>3. CASE reviews' = Append(reviews, Person) /\ comments' = comments
      BY <1>1, <1>2, <1>3, <1>7, <2>1, <2>3 DEF PersonWrites
    <2>4. QED
      BY <1>7, <2>2, <2>3 DEF PersonWrites
  <1>8. CASE StartJob
    BY <1>1, <1>8 DEF StartJob
  <1>9. CASE CancelJob
    BY <1>1, <1>9 DEF CancelJob, world
  <1>10. CASE RequestFails
    BY <1>1, <1>10 DEF RequestFails, world
  <1>11. CASE BuildScope
    BY <1>1, <1>11 DEF BuildScope, world
  <1>12. CASE AskResponses
    BY <1>1, <1>12 DEF AskResponses, world
  <1>13. CASE AskChatCompletions
    BY <1>1, <1>13 DEF AskChatCompletions, world
  <1>14. CASE find_existing_review_for_head
    BY <1>1, <1>14 DEF find_existing_review_for_head, world
  <1>15. CASE list_pull_request_review_threads
    BY <1>1, <1>15 DEF list_pull_request_review_threads, world
  <1>16. ASSUME ~At("idle") PROVE Going(job) /\ job.head <= head /\ job.head \in 1..MaxPushes
    BY <1>1, <1>16 DEF JobInv, Going, Running, At, Idle
  <1>17. CASE sync_review_threads
    <2>1. Going(job)
      BY <1>16, <1>17 DEF sync_review_threads, At
    <2>2. threads' \in Seq(Thread)
      BY <1>1, <1>17, <2>1, SyncedThreads
    <2>3. QED
      BY <1>1, <1>17, <2>2 DEF sync_review_threads, world
  <1>18. CASE create_pull_request_review
    <2>1. Going(job) /\ job.head \in 0..head
      BY <1>1, <1>2, <1>16, <1>18 DEF create_pull_request_review, At
    <2>2. threads' \in Seq(Thread)
      BY <1>1, <1>18, <2>1, OpenedThreads
    <2>3. reviews' = reviews \/ reviews' = Append(reviews, job.head)
      BY <1>18 DEF create_pull_request_review
    <2>4. reviews' \in Seq(Nat) /\ \A i \in DOMAIN reviews' : reviews'[i] <= head
      BY <1>1, <1>3, <2>1, <2>3
    <2>5. QED
      BY <1>1, <1>18, <2>2, <2>4 DEF create_pull_request_review, world
  <1>19. CASE upsert_issue_comment
    <2> DEFINE mine == {i \in DOMAIN comments \cap 1..PageSize : comments[i] # Person}
    <2>1. job.head \in 0..head /\ job.head \in Nat /\ job.head <= head
      BY <1>1, <1>2, <1>16, <1>19 DEF upsert_issue_comment, At
    <2>2. \/ comments' = Append(comments, job.head)
          \/ comments' = [comments EXCEPT ![Min(mine)] = job.head]
      BY <1>19 DEF upsert_issue_comment
    <2>3. CASE comments' = Append(comments, job.head)
      BY <1>1, <1>3, <1>19, <2>1, <2>3 DEF upsert_issue_comment, world
    <2>4. CASE comments' = [comments EXCEPT ![Min(mine)] = job.head]
      <3> HIDE DEF mine
      <3>1. Len(comments) \in Nat /\ DOMAIN comments = 1..Len(comments) /\ \A i \in 1..Len(comments) : comments[i] \in Nat
        BY <1>1
      <3>2. DOMAIN comments' = DOMAIN comments
            /\ \A i \in DOMAIN comments : comments'[i] = IF i = Min(mine) THEN job.head ELSE comments[i]
        BY <2>4
      <3>3. comments' = [i \in 1..Len(comments) |-> IF i = Min(mine) THEN job.head ELSE comments[i]]
        BY <2>4, <3>1
      <3>4. comments' \in Seq(Nat)
        BY <2>1, <3>1, <3>3
      <3>5. \A i \in DOMAIN comments' : comments'[i] <= head
        BY <1>1, <2>1, <3>2
      <3>6. QED
        BY <1>1, <1>19, <3>4, <3>5 DEF upsert_issue_comment, world
    <2>5. conclusion' \in {"none", "success", "failure", "error"}
      BY <1>19 DEF upsert_issue_comment
    <2>6. QED
      BY <1>1, <1>19, <2>2, <2>3, <2>4, <2>5 DEF upsert_issue_comment, world
  <1>20. CASE UNCHANGED vars
    BY <1>1, <1>20 DEF vars
  <1>21. QED
    BY <1>1, <1>4, <1>5, <1>6, <1>7, <1>8, <1>9, <1>10, <1>11, <1>12, <1>13, <1>14, <1>15, <1>17, <1>18, <1>19, <1>20
       DEF Next, JobSteps

LEMMA JobStep ==
    JobInv /\ WorldInv /\ [Next]_vars => JobInv'
  <1>1. SUFFICES ASSUME JobInv, WorldInv, [Next]_vars PROVE JobInv'
    OBVIOUS
  <1>2. ASSUME ~At("idle") PROVE Going(job) /\ job.head <= head
    BY <1>1, <1>2 DEF JobInv, At, Idle
  <1>3. head' = head \/ (head' = head + 1 /\ head \in Nat)
    BY <1>1, Bounds DEF Next, JobSteps, Push, Dispatch, PersonToggles, PersonWrites, StartJob, CancelJob, RequestFails,
           BuildScope, AskResponses, AskChatCompletions, find_existing_review_for_head, list_pull_request_review_threads,
           sync_review_threads, create_pull_request_review, upsert_issue_comment, world, vars, WorldInv
  <1>4. CASE job' = job
    <2>1. Going(job) => job.head \in Nat
      BY DEF Going, Running
    <2>2. QED
      BY <1>1, <1>3, <1>4, <2>1 DEF JobInv
  <1>5. CASE job' = Idle
    BY <1>5 DEF JobInv
  <1>6. ASSUME Going(job), Going(job'), job'.head = job.head, head' = head PROVE JobInv'
    BY <1>1, <1>6 DEF JobInv, Going, Running, Idle, Busy
  <1>7. CASE PersonToggles
    <2>1. \/ job' = job
          \/ /\ Going(job) /\ Going(job')
             /\ \E i \in DOMAIN threads : job' = [job EXCEPT !.touched = @ \cup {i}]
      BY <1>1, <1>7, Toggled
    <2>2. head' = head
      BY <1>7 DEF PersonToggles
    <2>3. ASSUME Going(job), Going(job'), \E i \in DOMAIN threads : job' = [job EXCEPT !.touched = @ \cup {i}]
          PROVE  JobInv'
      <3>1. job'.head = job.head
        BY <2>3 DEF Going, Running
      <3>2. QED
        BY <1>6, <2>2, <2>3, <3>1
    <2>4. QED
      BY <1>4, <2>1, <2>3
  <1>8. CASE StartJob
    <2>1. Going(job') /\ job'.head <= head /\ head' = head
      BY <1>1, <1>8, Started DEF StartJob
    <2>2. QED
      BY <2>1 DEF JobInv
  <1>9. CASE BuildScope
    <2>1. Going(job) /\ content \in Contents /\ build_review_scope(content) \in Scopes /\ head' = head
      BY <1>1, <1>2, <1>9 DEF BuildScope, At, WorldInv, Scopes, world
    <2>2. job' = [job EXCEPT !.pc = "ask", !.files = content, !.scope = build_review_scope(content)]
      BY <1>9 DEF BuildScope
    <2>3. Going(job') /\ job'.head = job.head
      BY <2>1, <2>2 DEF Going, Running, Busy
    <2>4. QED
      BY <1>6, <2>1, <2>3
  <1>10. CASE AskResponses
    <2>1. Going(job) /\ head' = head
      BY <1>2, <1>10 DEF AskResponses, At, world
    <2>2. CASE \E review \in Answers : Answered(review)
      BY <1>6, <2>1, <2>2, Answer
    <2>3. CASE job' = [job EXCEPT !.pc = "fallback"]
      <3>1. Going(job') /\ job'.head = job.head
        BY <2>1, <2>3 DEF Going, Running, Busy
      <3>2. QED
        BY <1>6, <2>1, <3>1
    <2>4. QED
      BY <1>10, <2>2, <2>3 DEF AskResponses
  <1>11. CASE AskChatCompletions
    <2>1. Going(job) /\ head' = head /\ \E review \in Answers : Answered(review)
      BY <1>2, <1>11 DEF AskChatCompletions, At, world
    <2>2. QED
      BY <1>6, <2>1, Answer
  <1>12. CASE find_existing_review_for_head
    <2>1. Going(job) /\ head' = head
      BY <1>2, <1>12 DEF find_existing_review_for_head, At, world
    <2>2. job' = [job EXCEPT !.pc = "comment"] \/ job' = [job EXCEPT !.pc = "list_threads"]
      BY <1>12 DEF find_existing_review_for_head
    <2>3. Going(job') /\ job'.head = job.head
      BY <2>1, <2>2 DEF Going, Running, Busy
    <2>4. QED
      BY <1>6, <2>1, <2>3
  <1>13. CASE list_pull_request_review_threads
    <2>1. Going(job) /\ head' = head /\ threads \in Seq(Thread) /\ Len(threads) \in Nat
      BY <1>1, <1>2, <1>13 DEF list_pull_request_review_threads, At, world, WorldInv
    <2>2. job' = [job EXCEPT !.pc = "sync", !.listed = threads, !.left = Len(threads), !.touched = {}]
      BY <1>13 DEF list_pull_request_review_threads
    <2>3. job' \in Running
      BY <2>1, <2>2 DEF Going, Running, Busy
    <2>4. job'.left = Len(threads) /\ job'.listed = threads /\ job'.merged = job.merged /\ job'.head = job.head
      BY <2>1, <2>2 DEF Going, Running
    <2>5. QED
      BY <1>6, <2>1, <2>3, <2>4 DEF Going
  <1>14. CASE sync_review_threads
    <2>1. Going(job) /\ head' = head /\ job.left > 0
      BY <1>2, <1>14 DEF sync_review_threads, At, world
    <2>2. PICK t : /\ job' = [job EXCEPT !.left = job.left - 1, !.tracked = t]
                   /\ t = job.tracked \/ t = job.tracked \cup {Key(job.left)}
                   /\ Key(job.left) \in Wanted \/ t = job.tracked
      BY <1>14 DEF sync_review_threads
    <2>3. \A f \in ToSet(job.merged.findings) : build_finding_key(f) \in Keys
      <3>1. job.merged.findings \in Seq(Finding)
        BY <2>1 DEF Going, Running, Review
      <3>2. ToSet(job.merged.findings) \subseteq Finding
        BY <3>1 DEF ToSet
      <3>3. QED
        BY <3>2 DEF Finding, build_finding_key, Keys
    <2>4. t \in SUBSET Keys
      BY <2>1, <2>2, <2>3 DEF Going, Running, Wanted
    <2>5. Going(job') /\ job'.head = job.head
      <3>1. job.left \in Nat /\ Len(job.listed) \in Nat
        BY <2>1 DEF Going, Running
      <3>2. job.left - 1 \in Nat /\ job.left - 1 <= Len(job.listed)
        BY <2>1, <3>1 DEF Going
      <3>3. QED
        BY <2>1, <2>2, <2>4, <3>2 DEF Going, Running, Busy
    <2>6. QED
      BY <1>6, <2>1, <2>5
  <1>15. CASE create_pull_request_review
    <2> DEFINE posted == {build_finding_key(f) : f \in ToSet(NewFindings)}
    <2>1. Going(job) /\ head' = head
      BY <1>2, <1>15 DEF create_pull_request_review, At, world
    <2>2. job' = [job EXCEPT !.pc = "comment", !.synced = TRUE, !.posted = posted]
      BY <1>15 DEF create_pull_request_review
    <2>3. posted \in SUBSET Keys
      <3>1. NewFindings \in Seq(Finding)
        BY <1>1, <1>15, <2>1, OpenedThreads
      <3>2. ToSet(NewFindings) \subseteq Finding
        BY <3>1 DEF ToSet
      <3>3. QED
        BY <3>2 DEF Finding, build_finding_key, Keys
    <2> HIDE DEF posted
    <2>4. Going(job') /\ job'.head = job.head
      BY <2>1, <2>2, <2>3 DEF Going, Running, Busy
    <2>5. QED
      BY <1>6, <2>1, <2>4
  <1>16. QED
    BY <1>1, <1>4, <1>5, <1>7, <1>8, <1>9, <1>10, <1>11, <1>12, <1>13, <1>14, <1>15
       DEF Next, JobSteps, Push, Dispatch, PersonWrites, CancelJob, RequestFails, upsert_issue_comment, vars

-----------------------------------------------------------------------------
\* One review and one summary per page.

\* The least of some numbers is one of them.
LEMMA LeastIn ==
    ASSUME NEW T, T \subseteq Nat, T # {}
    PROVE  Min(T) \in T
  <1>1. PICK x \in T : \A y \in T : ~ (<<y, x>> \in OpToRel(<, Nat))
    BY WFMin, NatLessThanWellFounded
  <1>2. ASSUME NEW y \in T PROVE x <= y
    <2>1. x \in Nat /\ y \in Nat /\ ~(<<y, x>> \in OpToRel(<, Nat))
      BY <1>1
    <2>2. ~(y < x)
      BY <2>1 DEF OpToRel
    <2>3. x \in Nat /\ y \in Nat
      OBVIOUS
    <2>4. QED
      BY <2>2, <2>3
  <1>3. QED
    BY <1>2 DEF Min

\* A new review of a head that is not on the page keeps one per page; so does a person's.
LEMMA ReviewAdded ==
    ASSUME NEW s \in Seq(Nat), NEW x \in Nat, x = Person \/ x \notin Page(s),
           \A i, j \in DOMAIN s : i < j /\ s[i] = s[j] /\ s[i] # Person => i > PageSize
    PROVE  LET t == Append(s, x) IN
           \A i, j \in DOMAIN t : i < j /\ t[i] = t[j] /\ t[i] # Person => i > PageSize
  <1> DEFINE t == Append(s, x)
  <1>1. SUFFICES ASSUME NEW i \in DOMAIN t, NEW j \in DOMAIN t, i < j, t[i] = t[j], t[i] # Person
                 PROVE  i > PageSize
    OBVIOUS
  <1>2. /\ DOMAIN t = 1..(Len(s) + 1) /\ DOMAIN s = 1..Len(s) /\ Len(s) \in Nat /\ t[Len(s) + 1] = x
        /\ \A k \in 1..Len(s) : t[k] = s[k]
    OBVIOUS
  <1> HIDE DEF t
  <1>3. i \in DOMAIN s /\ t[i] = s[i]
    BY <1>1, <1>2
  <1>4. CASE j \in DOMAIN s
    BY <1>1, <1>2, <1>3, <1>4
  <1>5. CASE j = Len(s) + 1
    <2>1. s[i] = x /\ x # Person
      BY <1>1, <1>2, <1>3, <1>5
    <2>2. i \notin 1..PageSize
      BY <1>3, <2>1 DEF Page
    <2>3. QED
      BY <1>2, <1>3, <2>2, Bounds
  <1>6. QED
    BY <1>2, <1>4, <1>5

\* A new summary is written when none is on the page; a person's note is none.
LEMMA CommentAdded ==
    ASSUME NEW s \in Seq(Nat), NEW x \in Nat,
           x = Person \/ \A i \in DOMAIN s \cap 1..PageSize : s[i] = Person,
           \A i, j \in DOMAIN s : i < j /\ s[i] # Person /\ s[j] # Person => i > PageSize
    PROVE  LET t == Append(s, x) IN
           \A i, j \in DOMAIN t : i < j /\ t[i] # Person /\ t[j] # Person => i > PageSize
  <1> DEFINE t == Append(s, x)
  <1>1. SUFFICES ASSUME NEW i \in DOMAIN t, NEW j \in DOMAIN t, i < j, t[i] # Person, t[j] # Person
                 PROVE  i > PageSize
    OBVIOUS
  <1>2. /\ DOMAIN t = 1..(Len(s) + 1) /\ DOMAIN s = 1..Len(s) /\ Len(s) \in Nat /\ t[Len(s) + 1] = x
        /\ \A k \in 1..Len(s) : t[k] = s[k]
    OBVIOUS
  <1> HIDE DEF t
  <1>3. i \in DOMAIN s /\ t[i] = s[i]
    BY <1>1, <1>2
  <1>4. CASE j \in DOMAIN s
    BY <1>1, <1>2, <1>3, <1>4
  <1>5. CASE j = Len(s) + 1
    <2>1. s[i] # Person /\ x # Person
      BY <1>1, <1>2, <1>3, <1>5
    <2>2. i \notin 1..PageSize
      BY <1>3, <2>1
    <2>3. QED
      BY <1>2, <1>3, <2>2, Bounds
  <1>6. QED
    BY <1>2, <1>4, <1>5

LEMMA PageStep ==
    JobInv /\ WorldInv /\ PageInv /\ [Next]_vars => PageInv'
  <1>1. SUFFICES ASSUME JobInv, WorldInv, PageInv, [Next]_vars PROVE PageInv'
    OBVIOUS
  <1>2. ASSUME ~At("idle") PROVE Going(job) /\ job.head \in Nat \ {0}
    <2>1. Going(job)
      BY <1>1, <1>2 DEF JobInv, At, Idle
    <2>2. QED
      BY <2>1, Bounds DEF Going, Running
  <1>3. reviews \in Seq(Nat) /\ comments \in Seq(Nat) /\ Person \in Nat
    BY <1>1 DEF WorldInv, Person
  <1>4. CASE UNCHANGED <<reviews, comments, job>>
    BY <1>1, <1>4 DEF PageInv, OnePerPage, At, Page
  <1>5. CASE UNCHANGED <<reviews, comments>> /\ job' = Idle
    BY <1>1, <1>5 DEF PageInv, OnePerPage, At, Page, Idle
  <1>6. CASE PersonToggles
    <2>1. UNCHANGED <<reviews, comments>>
      BY <1>6 DEF PersonToggles
    <2>2. CASE job' = job
      BY <1>4, <2>1, <2>2
    <2>3. CASE Going(job) /\ \E i \in DOMAIN threads : job' = [job EXCEPT !.touched = @ \cup {i}]
      <3>1. job'.pc = job.pc /\ job'.head = job.head /\ job'.synced = job.synced
        BY <2>3 DEF Going, Running
      <3>2. QED
        BY <1>1, <2>1, <3>1 DEF PageInv, OnePerPage, At, Page
    <2>4. QED
      BY <1>1, <1>6, <2>2, <2>3, Toggled
  <1>7. CASE PersonWrites
    <2>1. job' = job
      BY <1>7 DEF PersonWrites
    <2>2. CASE comments' = Append(comments, Person) /\ reviews' = reviews
      BY <1>1, <1>3, <2>1, <2>2, CommentAdded DEF PageInv, OnePerPage, At, Page
    <2>3. CASE reviews' = Append(reviews, Person) /\ comments' = comments
      <3>1. \A i, j \in DOMAIN reviews' : i < j /\ reviews'[i] = reviews'[j] /\ reviews'[i] # Person => i > PageSize
        BY <1>1, <1>3, <2>3, ReviewAdded DEF PageInv, OnePerPage
      <3>2. ~At("idle") /\ job.head \in Page(reviews') => job.head \in Page(reviews)
        <4>1. SUFFICES ASSUME ~At("idle"), NEW i \in DOMAIN reviews' \cap 1..PageSize, reviews'[i] = job.head
                       PROVE  job.head \in Page(reviews)
          BY DEF Page
        <4>2. i \in DOMAIN reviews /\ reviews[i] = job.head
          BY <1>2, <1>3, <2>3, <4>1 DEF Person
        <4>3. QED
          BY <4>1, <4>2 DEF Page
      <3>3. QED
        BY <1>1, <2>1, <2>3, <3>1, <3>2 DEF PageInv, OnePerPage, At
    <2>4. QED
      BY <1>7, <2>2, <2>3 DEF PersonWrites
  <1>8. CASE StartJob
    BY <1>1, <1>8 DEF StartJob, PageInv, OnePerPage, At, Page
  <1>9. ASSUME Going(job), UNCHANGED <<reviews, comments>>, job'.synced = job.synced, ~At("comment"), ~At("idle"),
               job'.head = job.head,
               job'.pc \in {"list_threads", "sync"} => job.pc = "list_threads" \/ job.pc = "sync" \/ job.head \notin Page(reviews)
        PROVE  PageInv'
    BY <1>1, <1>9 DEF PageInv, OnePerPage, At, Page
  <1>10. CASE BuildScope
    <2>1. Going(job) /\ ~At("comment") /\ ~At("idle") /\ UNCHANGED <<reviews, comments>>
      BY <1>2, <1>10 DEF BuildScope, At
    <2>2. job'.pc = "ask" /\ job'.head = job.head /\ job'.synced = job.synced
      BY <1>10, <2>1 DEF BuildScope, Going, Running
    <2>3. QED
      BY <1>9, <2>1, <2>2
  <1>11. CASE AskResponses
    <2>1. Going(job) /\ ~At("comment") /\ ~At("idle") /\ UNCHANGED <<reviews, comments>>
      BY <1>2, <1>11 DEF AskResponses, At
    <2>2. job'.pc \in {"ask", "find_review", "fallback"} /\ job'.head = job.head /\ job'.synced = job.synced
      <3>1. CASE \E review \in Answers : Answered(review)
        BY <2>1, <3>1, Answer
      <3>2. CASE job' = [job EXCEPT !.pc = "fallback"]
        BY <2>1, <3>2 DEF Going, Running
      <3>3. QED
        BY <1>11, <3>1, <3>2 DEF AskResponses
    <2>3. QED
      BY <1>9, <2>1, <2>2
  <1>12. CASE AskChatCompletions
    <2>1. Going(job) /\ ~At("comment") /\ ~At("idle") /\ UNCHANGED <<reviews, comments>>
      BY <1>2, <1>12 DEF AskChatCompletions, At
    <2>2. job'.pc \in {"ask", "find_review"} /\ job'.head = job.head /\ job'.synced = job.synced
      BY <1>12, <2>1, Answer DEF AskChatCompletions
    <2>3. QED
      BY <1>9, <2>1, <2>2
  <1>13. CASE find_existing_review_for_head
    <2>1. Going(job) /\ ~At("comment") /\ ~At("idle") /\ UNCHANGED <<reviews, comments>>
      BY <1>2, <1>13 DEF find_existing_review_for_head, At
    <2>2. /\ job'.pc = IF job.head \in Page(reviews) THEN "comment" ELSE "list_threads"
          /\ job'.head = job.head /\ job'.synced = job.synced
      BY <1>13, <2>1 DEF find_existing_review_for_head, Going, Running
    <2>3. QED
      BY <1>9, <2>1, <2>2
  <1>14. CASE list_pull_request_review_threads
    <2>1. Going(job) /\ At("list_threads") /\ ~At("comment") /\ ~At("idle") /\ UNCHANGED <<reviews, comments>>
      BY <1>2, <1>14 DEF list_pull_request_review_threads, At
    <2>2. job'.pc = "sync" /\ job'.head = job.head /\ job'.synced = job.synced
      BY <1>14, <2>1 DEF list_pull_request_review_threads, Going, Running
    <2>3. QED
      BY <1>9, <2>1, <2>2 DEF At
  <1>15. CASE sync_review_threads
    <2>1. Going(job) /\ At("sync") /\ ~At("comment") /\ ~At("idle") /\ UNCHANGED <<reviews, comments>>
      BY <1>2, <1>15 DEF sync_review_threads, At
    <2>2. job'.head = job.head /\ job'.synced = job.synced
      BY <1>15, <2>1 DEF sync_review_threads, Going, Running
    <2>3. QED
      BY <1>9, <2>1, <2>2 DEF At
  <1>16. CASE create_pull_request_review
    <2>1. Going(job) /\ job.head \in Nat \ {0} /\ job.head \notin Page(reviews) /\ comments' = comments
      BY <1>1, <1>2, <1>16 DEF create_pull_request_review, At, PageInv
    <2>2. job'.pc = "comment" /\ (reviews' = reviews \/ reviews' = Append(reviews, job.head))
      BY <1>16, <2>1 DEF create_pull_request_review, Going, Running
    <2>3. \A i, j \in DOMAIN reviews' : i < j /\ reviews'[i] = reviews'[j] /\ reviews'[i] # Person => i > PageSize
      BY <1>1, <1>3, <2>1, <2>2, ReviewAdded DEF PageInv, OnePerPage
    <2>4. QED
      BY <1>1, <2>1, <2>2, <2>3 DEF PageInv, OnePerPage, At
  <1>17. CASE upsert_issue_comment
    <2> DEFINE mine == {i \in DOMAIN comments \cap 1..PageSize : comments[i] # Person}
    <2>1. Going(job) /\ job.head \in Nat \ {0} /\ reviews' = reviews /\ job' = Idle
      BY <1>2, <1>17 DEF upsert_issue_comment, At
    <2>2. comments' = IF mine = {} THEN Append(comments, job.head) ELSE [comments EXCEPT ![Min(mine)] = job.head]
      BY <1>17 DEF upsert_issue_comment
    <2>3. \A i, j \in DOMAIN comments' : i < j /\ comments'[i] # Person /\ comments'[j] # Person => i > PageSize
      <3>1. \A i, j \in DOMAIN comments : i < j /\ comments[i] # Person /\ comments[j] # Person => i > PageSize
        BY <1>1 DEF PageInv, OnePerPage
      <3>2. CASE mine = {}
        <4>1. \A i \in DOMAIN comments \cap 1..PageSize : comments[i] = Person
          BY <3>2
        <4>2. QED
          BY <1>3, <2>1, <2>2, <3>1, <3>2, <4>1, CommentAdded
      <3>3. CASE mine # {}
        <4>1. mine \subseteq Nat
          BY Bounds
        <4>2. Min(mine) \in mine
          <5> HIDE DEF mine
          <5>1. QED
            BY <3>3, <4>1, LeastIn
        <4>3. comments[Min(mine)] # Person /\ Min(mine) \in DOMAIN comments
          BY <4>2
        <4> HIDE DEF mine
        <4>4. DOMAIN comments' = DOMAIN comments /\ comments' = [comments EXCEPT ![Min(mine)] = job.head]
          BY <2>2, <3>3
        <4>5. \A i \in DOMAIN comments : comments'[i] # Person <=> comments[i] # Person
          BY <2>1, <4>3, <4>4 DEF Person
        <4>6. QED
          BY <3>1, <4>4, <4>5
      <3>4. QED
        BY <3>2, <3>3
    <2>4. QED
      BY <1>1, <2>1, <2>3 DEF PageInv, OnePerPage, At, Idle, Page
  <1>18. QED
    BY <1>1, <1>4, <1>5, <1>6, <1>7, <1>8, <1>10, <1>11, <1>12, <1>13, <1>14, <1>15, <1>16, <1>17
       DEF Next, JobSteps, Push, Dispatch, CancelJob, RequestFails, vars

-----------------------------------------------------------------------------
\* The threads.

\* What holds of the keys is kept while keys and files stay and threads are only added.
KeysStay ==
    /\ Len(threads) <= Len(threads')
    /\ \A i \in DOMAIN threads : threads'[i].key = threads[i].key /\ threads'[i].file = threads[i].file
    /\ job'.listed = job.listed /\ job'.merged = job.merged /\ job'.scope = job.scope

LEMMA OpensKept ==
    ASSUME WorldInv, threads' \in Seq(Thread), Going(job), StillThere, KeysStay
    PROVE  /\ StillThere' /\ Wanted' = Wanted
           /\ \A i \in DOMAIN job.listed : Opens(i)' <=> Opens(i)
           /\ \A i \in DOMAIN job.listed : i \in DOMAIN threads /\ Key(i)' = Key(i)
  <1>1. /\ job.listed \in Seq(Thread) /\ threads \in Seq(Thread)
        /\ DOMAIN job.listed = 1..Len(job.listed) /\ DOMAIN threads = 1..Len(threads) /\ DOMAIN threads' = 1..Len(threads')
        /\ Len(job.listed) \in Nat /\ Len(threads) \in Nat /\ Len(threads') \in Nat
    BY DEF Going, Running, WorldInv
  <1>2. Len(job.listed) <= Len(threads) /\ Len(threads) <= Len(threads')
    BY DEF StillThere, KeysStay
  <1>3. \A i \in DOMAIN job.listed : i \in DOMAIN threads /\ threads'[i].key = threads[i].key /\ threads'[i].file = threads[i].file
    BY <1>1, <1>2 DEF KeysStay
  <1>4. Wanted' = Wanted
    BY DEF Wanted, KeysStay
  <1>5. StillThere'
    <2>1. Len(job'.listed) <= Len(threads')
      BY <1>1, <1>2 DEF KeysStay
    <2>2. \A i \in DOMAIN job'.listed : threads'[i].key = job'.listed[i].key /\ threads'[i].file = job'.listed[i].file
      BY <1>3 DEF StillThere, KeysStay
    <2>3. QED
      BY <2>1, <2>2 DEF StillThere
  <1>6. \A i \in DOMAIN job.listed : Key(i)' = Key(i)
    BY <1>3 DEF Key
  <1>7. ASSUME NEW i \in DOMAIN job.listed PROVE Opens(i)' <=> Opens(i)
    <2>1. threads'[i].file = threads[i].file /\ Key(i)' = Key(i)
      BY <1>3, <1>6
    <2>2. job'.listed = job.listed /\ job'.scope = job.scope
      BY DEF KeysStay
    <2>3. (\A j \in DOMAIN job'.listed : j > i => Key(j)' # Key(i)')
          <=> \A j \in DOMAIN job.listed : j > i => Key(j) # Key(i)
      BY <1>6, <2>2
    <2>4. QED
      BY <1>4, <2>1, <2>2, <2>3 DEF Opens
  <1>8. QED
    BY <1>3, <1>4, <1>5, <1>6, <1>7

\* As long as no thread is added, no key comes twice that did not before.
LEMMA KeysKept ==
    ASSUME WorldInv, threads' \in Seq(Thread), ThreadKeysUnique, Len(threads') = Len(threads),
           \A i \in DOMAIN threads : threads'[i].key = threads[i].key
    PROVE  ThreadKeysUnique'
  <1>1. DOMAIN threads' = DOMAIN threads
    BY DEF WorldInv
  <1>2. QED
    BY <1>1 DEF ThreadKeysUnique, Key

\* A step to where nothing is said of the threads.
LEMMA Elsewhere ==
    ASSUME threads' = threads, SyncInv, job'.pc # "sync", job'.pc = "comment" => ~job'.synced, Untracked'
    PROVE  SyncInv'
  BY DEF SyncInv, ThreadsSettled, FindingsTracked, ThreadKeysUnique, At, Key

\* The toggled thread is touched; the others are as they were.
LEMMA ToggleStep ==
    ASSUME JobInv, WorldInv, SyncInv, PersonToggles
    PROVE  SyncInv'
  <1>1. PICK t \in DOMAIN threads :
            /\ threads' = [threads EXCEPT ![t].resolved = ~@]
            /\ job' = IF At("idle") THEN job ELSE [job EXCEPT !.touched = @ \cup {t}]
    BY DEF PersonToggles
  <1>2. threads \in Seq(Thread) /\ threads' \in Seq(Thread)
    BY Toggled DEF WorldInv
  <1>3. /\ Len(threads') = Len(threads) /\ DOMAIN threads' = DOMAIN threads
        /\ \A i \in DOMAIN threads : /\ threads'[i].key = threads[i].key /\ threads'[i].file = threads[i].file
                                     /\ i # t => threads'[i] = threads[i]
    <2>1. t \in 1..Len(threads) /\ threads[t] \in Thread
      BY <1>1, <1>2
    <2> DEFINE changed == [threads[t] EXCEPT !.resolved = ~@]
    <2>2. changed.key = threads[t].key /\ changed.file = threads[t].file
      BY <2>1 DEF Thread
    <2>3. threads' = [threads EXCEPT ![t] = changed]
      BY <1>1
    <2> HIDE DEF changed
    <2>4. DOMAIN threads' = DOMAIN threads /\ Len(threads') = Len(threads)
      BY <1>2, <2>3
    <2>5. \A i \in DOMAIN threads : threads'[i] = IF i = t THEN changed ELSE threads[i]
      BY <2>3
    <2>6. QED
      BY <2>2, <2>4, <2>5
  <1>4. ThreadKeysUnique'
    BY <1>2, <1>3, KeysKept DEF SyncInv
  <1>5. CASE job = Idle
    <2>1. job' = job
      BY <1>1, <1>5 DEF At, Idle
    <2>2. QED
      BY <1>4, <1>5, <2>1 DEF SyncInv, ThreadsSettled, FindingsTracked, At, Idle, Untracked, Busy
  <1>6. CASE Going(job)
    <2>1. job' = [job EXCEPT !.touched = job.touched \cup {t}]
      BY <1>1, <1>6 DEF At, Going, Running, Busy
    <2>2. /\ job'.pc = job.pc /\ job'.listed = job.listed /\ job'.merged = job.merged /\ job'.scope = job.scope
          /\ job'.left = job.left /\ job'.tracked = job.tracked /\ job'.synced = job.synced /\ job'.posted = job.posted
          /\ job'.files = job.files /\ job'.touched = job.touched \cup {t}
      BY <1>6, <2>1 DEF Going, Running
    <2>3. KeysStay
      BY <1>2, <1>3, <2>2 DEF KeysStay
    <2>4. Untracked'
      BY <2>2 DEF SyncInv, Untracked
    <2>5. ASSUME StillThere
          PROVE  /\ StillThere' /\ Wanted' = Wanted
                 /\ \A i \in DOMAIN job.listed : Opens(i)' <=> Opens(i)
                 /\ \A i \in DOMAIN job.listed : i \in DOMAIN threads /\ Key(i)' = Key(i)
      BY <1>2, <1>6, <2>3, <2>5, OpensKept
    <2>6. ASSUME At("sync") PROVE OnTheWay'
      <3>1. OnTheWay /\ StillThere
        BY <2>6 DEF SyncInv, OnTheWay
      <3>2. job'.tracked = {Key(j)' : j \in {i \in DOMAIN job'.listed : i > job'.left /\ Key(i)' \in Wanted'}}
        BY <2>2, <2>5, <3>1 DEF OnTheWay
      <3>3. ASSUME NEW i \in DOMAIN job'.listed \ job'.touched
            PROVE  IF i > job'.left THEN ~threads'[i].resolved <=> Opens(i)'
                                    ELSE threads'[i].resolved = job'.listed[i].resolved
        <4>1. i \in DOMAIN job.listed \ job.touched /\ i # t /\ i \in DOMAIN threads
          BY <2>2, <2>5, <3>1
        <4>2. threads'[i] = threads[i] /\ (Opens(i)' <=> Opens(i))
          BY <1>3, <2>5, <3>1, <4>1
        <4>3. QED
          BY <2>2, <3>1, <4>1, <4>2 DEF OnTheWay
      <3>4. QED
        BY <1>3, <2>2, <2>5, <3>1, <3>2, <3>3 DEF OnTheWay
    <2>7. ASSUME At("comment"), job.synced PROVE StillThere' /\ ThreadsSettled' /\ FindingsTracked'
      <3>1. StillThere
        BY <2>7 DEF SyncInv
      <3>2. ASSUME NEW i \in DOMAIN job'.listed \ job'.touched
            PROVE  ~threads'[i].resolved <=> Opens(i)'
        <4>1. i \in DOMAIN job.listed \ job.touched /\ i # t /\ i \in DOMAIN threads
          BY <2>2, <2>5, <3>1
        <4>2. threads'[i] = threads[i] /\ (Opens(i)' <=> Opens(i))
          BY <1>3, <2>5, <3>1, <4>1
        <4>3. QED
          BY <2>7, <4>1, <4>2 DEF SyncInv, ThreadsSettled, Opens
      <3>3. ThreadsSettled'
        BY <3>2 DEF ThreadsSettled, Opens
      <3>4. \A f : Anchor(f)' = Anchor(f)
        BY <2>2 DEF Anchor
      <3>5. ASSUME NEW i \in DOMAIN threads, ~threads[i].resolved \/ i \in job.touched
            PROVE  i \in DOMAIN threads' /\ Key(i)' = Key(i) /\ (~threads'[i].resolved \/ i \in job'.touched)
        BY <1>3, <2>2, <3>5 DEF Key
      <3>6. FindingsTracked'
        <4>1. SUFFICES ASSUME NEW f \in ToSet(job'.merged.findings), Anchor(f)' # NoLine, Cardinality(job'.posted) # MaxComments
                       PROVE  \E i \in DOMAIN threads' : Key(i)' = build_finding_key(f) /\ (~threads'[i].resolved \/ i \in job'.touched)
          BY DEF FindingsTracked
        <4>2. f \in ToSet(job.merged.findings) /\ Anchor(f) # NoLine /\ Cardinality(job.posted) # MaxComments
          BY <2>2, <3>4, <4>1
        <4>3. PICK i \in DOMAIN threads : Key(i) = build_finding_key(f) /\ (~threads[i].resolved \/ i \in job.touched)
          BY <2>7, <4>2 DEF SyncInv, FindingsTracked
        <4>4. QED
          BY <3>5, <4>3
      <3>7. QED
        BY <2>5, <3>1, <3>3, <3>6
    <2>8. QED
      BY <1>4, <2>2, <2>4, <2>6, <2>7 DEF SyncInv, ThreadsSettled, FindingsTracked, At
  <1>7. QED
    BY <1>5, <1>6 DEF JobInv

\* The thread at hand is settled, and its key tracked when it is wanted.
LEMMA SettleStep ==
    ASSUME JobInv, WorldInv, SyncInv, sync_review_threads
    PROVE  SyncInv'
  <1> DEFINE k == job.left
  <1>1. Going(job) /\ k > 0 /\ At("sync") /\ OnTheWay /\ StillThere
    BY DEF sync_review_threads, JobInv, At, Idle, SyncInv, OnTheWay
  <1>2. /\ k \in 1..Len(job.listed) /\ DOMAIN job.listed = 1..Len(job.listed) /\ k \in Nat /\ k - 1 \in Nat
        /\ \A i \in 1..Len(job.listed) : i > k - 1 <=> (i > k \/ i = k)
    <2>1. k \in 1..Len(job.listed) /\ DOMAIN job.listed = 1..Len(job.listed)
      BY <1>1, AtHand
    <2> HIDE DEF k
    <2>2. QED
      BY <1>1, <2>1
  <1>3. /\ threads \in Seq(Thread) /\ threads' \in Seq(Thread) /\ Len(threads') = Len(threads)
        /\ \A i \in DOMAIN threads : /\ threads'[i].key = threads[i].key /\ threads'[i].file = threads[i].file
                                     /\ i # k => threads'[i] = threads[i]
    BY <1>1, SyncedThreads DEF WorldInv
  <1>4. job' = [job EXCEPT !.left = k - 1, !.tracked = IF Key(k) \in Wanted THEN job.tracked \cup {Key(k)} ELSE job.tracked]
    BY DEF sync_review_threads
  <1>5. /\ job'.pc = "sync" /\ job'.listed = job.listed /\ job'.merged = job.merged /\ job'.scope = job.scope
        /\ job'.left = k - 1 /\ job'.touched = job.touched
        /\ job'.tracked = IF Key(k) \in Wanted THEN job.tracked \cup {Key(k)} ELSE job.tracked
    BY <1>1, <1>4 DEF At, Going, Running
  <1> HIDE DEF k
  <1>6. KeysStay
    BY <1>3, <1>5 DEF KeysStay
  <1>7. /\ StillThere' /\ Wanted' = Wanted
        /\ \A i \in DOMAIN job.listed : Opens(i)' <=> Opens(i)
        /\ \A i \in DOMAIN job.listed : i \in DOMAIN threads /\ Key(i)' = Key(i)
    BY <1>1, <1>3, <1>6, OpensKept
  <1>8. ThreadKeysUnique'
    BY <1>3, KeysKept DEF SyncInv
  <1>9. job'.tracked = {Key(j)' : j \in {i \in DOMAIN job'.listed : i > job'.left /\ Key(i)' \in Wanted'}}
    <2>1. job.tracked = {Key(j) : j \in {i \in 1..Len(job.listed) : i > k /\ Key(i) \in Wanted}}
      BY <1>1, <1>2 DEF OnTheWay, k
    <2>2. job'.tracked = {Key(j) : j \in {i \in 1..Len(job.listed) : i > k - 1 /\ Key(i) \in Wanted}}
      <3>1. CASE Key(k) \in Wanted
        <4>1. {i \in 1..Len(job.listed) : i > k - 1 /\ Key(i) \in Wanted}
              = {i \in 1..Len(job.listed) : i > k /\ Key(i) \in Wanted} \cup {k}
          BY <1>2, <3>1
        <4>2. QED
          BY <1>5, <2>1, <3>1, <4>1
      <3>2. CASE Key(k) \notin Wanted
        <4>1. {i \in 1..Len(job.listed) : i > k - 1 /\ Key(i) \in Wanted}
              = {i \in 1..Len(job.listed) : i > k /\ Key(i) \in Wanted}
          BY <1>2, <3>2
        <4>2. QED
          BY <1>5, <2>1, <3>2, <4>1
      <3>3. QED
        BY <3>1, <3>2
    <2>3. QED
      BY <1>2, <1>5, <1>7, <2>2
  <1>10. ASSUME k \notin job.touched PROVE ~threads'[k].resolved <=> Opens(k)
    <2> DEFINE thread == job.listed[k]
    <2>1. /\ threads[k].resolved = thread.resolved /\ Key(k) = thread.key /\ threads[k].file = thread.file
          /\ k \in DOMAIN threads /\ threads[k] \in Thread
      BY <1>1, <1>2, <1>3, <1>7, <1>10 DEF OnTheWay, StillThere, Key, k
    <2>2. threads'[k].resolved = Settled(k)
      <3>1. CASE Settled(k) = thread.resolved
        BY <2>1, <3>1 DEF sync_review_threads, k
      <3>2. CASE Settled(k) # thread.resolved
        <4>1. threads' = [threads EXCEPT ![k].resolved = Settled(k)]
          BY <3>2 DEF sync_review_threads, k
        <4>2. QED
          BY <1>3, <2>1, <4>1 DEF Thread
      <3>3. QED
        BY <3>1, <3>2
    <2>3. CASE thread.key \in Wanted
      <3>1. Settled(k) <=> thread.key \in job.tracked
        BY <2>3 DEF Settled
      <3>2. thread.key \in job.tracked <=> \E j \in DOMAIN job.listed : j > k /\ Key(j) = Key(k)
        BY <1>1, <2>1, <2>3 DEF OnTheWay, k
      <3>3. Opens(k) <=> \A j \in DOMAIN job.listed : j > k => Key(j) # Key(k)
        BY <2>1, <2>3 DEF Opens
      <3>4. QED
        BY <2>2, <3>1, <3>2, <3>3
    <2>4. CASE thread.key \notin Wanted /\ thread.file \in job.scope.changed \ job.scope.included
      <3>1. Settled(k) = thread.resolved
        BY <2>4 DEF Settled
      <3>2. Opens(k) <=> ~thread.resolved
        BY <2>1, <2>4 DEF Opens
      <3>3. QED
        BY <2>2, <3>1, <3>2
    <2>5. CASE thread.key \notin Wanted /\ thread.file \notin job.scope.changed \ job.scope.included
      <3>1. Settled(k) = TRUE
        BY <2>5 DEF Settled
      <3>2. ~Opens(k)
        BY <2>1, <2>5 DEF Opens
      <3>3. QED
        BY <2>2, <3>1, <3>2
    <2>6. QED
      BY <2>3, <2>4, <2>5
  <1>11. ASSUME NEW i \in DOMAIN job'.listed \ job'.touched
         PROVE  IF i > job'.left THEN ~threads'[i].resolved <=> Opens(i)'
                                 ELSE threads'[i].resolved = job'.listed[i].resolved
    <2>1. i \in 1..Len(job.listed) /\ i \in DOMAIN job.listed \ job.touched /\ i \in DOMAIN threads
      BY <1>2, <1>5, <1>7
    <2>2. CASE i = k
      BY <1>2, <1>5, <1>7, <1>10, <2>1, <2>2
    <2>3. CASE i # k
      <3>1. threads'[i] = threads[i] /\ (Opens(i)' <=> Opens(i)) /\ (i > k - 1 <=> i > k)
        BY <1>2, <1>3, <1>7, <2>1, <2>3
      <3>2. IF i > k THEN ~threads[i].resolved <=> Opens(i) ELSE threads[i].resolved = job.listed[i].resolved
        BY <1>1, <2>1 DEF OnTheWay, k
      <3>3. QED
        BY <1>5, <3>1, <3>2
    <2>4. QED
      BY <2>2, <2>3
  <1>12. Len(threads') = Len(job'.listed) /\ job'.left <= Len(job'.listed)
    BY <1>1, <1>2, <1>3, <1>5 DEF OnTheWay
  <1>13. OnTheWay'
    BY <1>7, <1>9, <1>11, <1>12 DEF OnTheWay
  <1>14. QED
    BY <1>5, <1>8, <1>13 DEF SyncInv, Untracked, ThreadsSettled, FindingsTracked, At

\* The key of a finding that is tracked is that of a listed thread left open or touched.
LEMMA NewestTracked ==
    ASSUME WorldInv, Going(job), OnTheWay, job.left = 0, NEW key \in job.tracked
    PROVE  \E i \in DOMAIN job.listed : /\ i \in DOMAIN threads /\ Key(i) = key
                                        /\ ~threads[i].resolved \/ i \in job.touched
  <1> DEFINE same == {j \in DOMAIN job.listed : Key(j) = key}
  <1>1. /\ DOMAIN job.listed = 1..Len(job.listed) /\ Len(job.listed) \in Nat
        /\ DOMAIN threads = 1..Len(threads) /\ Len(job.listed) = Len(threads)
    BY DEF Going, Running, WorldInv, OnTheWay
  <1>2. same # {} /\ key \in Wanted
    BY DEF OnTheWay
  <1>3. Max(same) \in same /\ \A j \in same : Max(same) >= j
    <2>1. IsFiniteSet(1..Len(job.listed)) /\ 1..Len(job.listed) \subseteq Int /\ same \in SUBSET (1..Len(job.listed))
      BY <1>1, FS_Interval
    <2> HIDE DEF same
    <2>2. QED
      BY <1>2, <2>1, MaxIn
  <1>4. PICK i \in DOMAIN job.listed : Key(i) = key /\ \A j \in same : i >= j
    BY <1>3
  <1>5. \A j \in DOMAIN job.listed : j > i => Key(j) # Key(i)
    <2>1. SUFFICES ASSUME NEW j \in DOMAIN job.listed, j > i, Key(j) = Key(i) PROVE FALSE
      OBVIOUS
    <2>2. j \in same /\ i \in Nat /\ j \in Nat
      BY <1>1, <1>4, <2>1
    <2>3. QED
      BY <1>4, <2>1, <2>2
  <1>6. Opens(i)
    BY <1>2, <1>4, <1>5 DEF Opens
  <1>7. CASE i \in job.touched
    BY <1>1, <1>4, <1>7
  <1>8. CASE i \notin job.touched
    <2>1. i > job.left
      BY <1>1
    <2>2. ~threads[i].resolved
      BY <1>6, <1>8, <2>1 DEF OnTheWay
    <2>3. QED
      BY <1>1, <1>4, <2>2
  <1>9. QED
    BY <1>7, <1>8

\* The review opens threads of new keys only, and then every finding has its own.
LEMMA PublishStep ==
    ASSUME JobInv, WorldInv, SyncInv, create_pull_request_review
    PROVE  SyncInv'
  <1> DEFINE n == Len(threads)
             s == job.merged.findings
             new == NewFindings
  <1>1. Going(job) /\ job.left = 0 /\ At("sync") /\ OnTheWay /\ StillThere
    BY DEF create_pull_request_review, JobInv, At, Idle, SyncInv, OnTheWay
  <1>2. /\ threads \in Seq(Thread) /\ s \in Seq(Finding) /\ Apart(s) /\ n \in Nat /\ DOMAIN threads = 1..n
        /\ DOMAIN job.listed = 1..n
    BY <1>1 DEF WorldInv, Going, Running, Review, OnTheWay
  <1>3. /\ new \in Seq(Finding) /\ Commented(new, s, Len(s))
        /\ threads' \in Seq(Thread) /\ Len(threads') = n + Len(new)
        /\ \A i \in 1..n : threads'[i] = threads[i]
        /\ \A x \in 1..Len(new) : threads'[n + x] = [key |-> build_finding_key(new[x]),
                                                     file |-> new[x].file, resolved |-> FALSE]
    BY <1>1, OpenedThreads
  <1>4. job' = [job EXCEPT !.pc = "comment", !.synced = TRUE, !.posted = {build_finding_key(f) : f \in ToSet(new)}]
    BY DEF create_pull_request_review
  <1> HIDE DEF new
  <1>5. /\ job'.pc = "comment" /\ job'.synced /\ job'.listed = job.listed /\ job'.merged = job.merged
        /\ job'.scope = job.scope /\ job'.files = job.files /\ job'.touched = job.touched
        /\ job'.posted = {build_finding_key(f) : f \in ToSet(new)}
    BY <1>1, <1>4 DEF Going, Running
  <1> HIDE DEF n, s
  <1>6. /\ Len(new) \in Nat /\ DOMAIN new = 1..Len(new) /\ DOMAIN threads' = 1..(n + Len(new))
        /\ \A i \in DOMAIN threads' : i \in 1..n \/ \E x \in 1..Len(new) : i = n + x
    <2>1. Len(new) \in Nat /\ DOMAIN new = 1..Len(new) /\ DOMAIN threads' = 1..(n + Len(new))
      BY <1>2, <1>3
    <2>2. ASSUME NEW i \in 1..(n + Len(new)), i \notin 1..n PROVE \E x \in 1..Len(new) : i = n + x
      <3>1. i - n \in 1..Len(new) /\ i = n + (i - n)
        BY <1>2, <2>1, <2>2
      <3>2. QED
        BY <3>1
    <2>3. QED
      BY <2>1, <2>2
  <1>7. KeysStay
    BY <1>2, <1>3, <1>5, <1>6 DEF KeysStay, n
  <1>8. /\ StillThere' /\ Wanted' = Wanted
        /\ \A i \in DOMAIN job.listed : Opens(i)' <=> Opens(i)
        /\ \A i \in DOMAIN job.listed : i \in DOMAIN threads /\ Key(i)' = Key(i)
    BY <1>1, <1>3, <1>7, OpensKept
  <1>9. ThreadsSettled'
    <2>1. ASSUME NEW i \in DOMAIN job'.listed \ job'.touched
          PROVE  ~threads'[i].resolved <=> Opens(i)'
      <3>1. i \in DOMAIN job.listed \ job.touched /\ i \in 1..n /\ i > job.left
        BY <1>1, <1>2, <1>5, <2>1
      <3>2. ~threads[i].resolved <=> Opens(i)
        BY <1>1, <3>1 DEF OnTheWay
      <3>3. QED
        BY <1>3, <1>8, <3>1, <3>2
    <2>2. QED
      BY <2>1 DEF ThreadsSettled, Opens
  <1>10. \A x \in 1..Len(new) : threads'[n + x].key = build_finding_key(new[x]) /\ ~threads'[n + x].resolved /\ n + x \in DOMAIN threads'
    <2>1. ASSUME NEW x \in 1..Len(new)
          PROVE  threads'[n + x].key = build_finding_key(new[x]) /\ ~threads'[n + x].resolved /\ n + x \in DOMAIN threads'
      <3>1. n + x \in 1..(n + Len(new))
        BY <1>2, <1>6
      <3>2. threads'[n + x] = [key |-> build_finding_key(new[x]), file |-> new[x].file, resolved |-> FALSE]
        BY <1>3
      <3>3. QED
        BY <1>6, <3>1, <3>2
    <2>2. QED
      BY <2>1
  <1>11. Apart(new) /\ \A x \in 1..Len(new) : build_finding_key(new[x]) \notin job.tracked /\ build_finding_key(new[x]) \in Wanted
    <2>1. Apart(new) /\ \A x \in 1..Len(new) : build_finding_key(new[x]) \notin job.tracked /\ \E i \in 1..Len(s) : new[x] = s[i]
      BY <1>3, <1>6 DEF Commented
    <2>2. \A i \in 1..Len(s) : s[i] \in ToSet(s)
      BY <1>2 DEF ToSet
    <2>3. QED
      BY <2>1, <2>2 DEF Wanted, s
  <1>12. FindingsTracked'
    <2>1. SUFFICES ASSUME NEW f \in ToSet(job'.merged.findings), Anchor(f)' # NoLine, Cardinality(job'.posted) # MaxComments
                   PROVE  \E i \in DOMAIN threads' : Key(i)' = build_finding_key(f) /\ (~threads'[i].resolved \/ i \in job'.touched)
      BY DEF FindingsTracked
    <2>2. Anchor(f) # NoLine
      BY <1>5, <2>1 DEF Anchor
    <2>3. Len(new) # MaxComments
      BY <1>3, <1>5, <1>11, <2>1, KeysCounted
    <2>4. Passed(new, f)
      <3>1. PICK i \in 1..Len(s) : f = s[i]
        BY <1>2, <1>5, <2>1 DEF ToSet, s
      <3>2. QED
        BY <1>3, <3>1 DEF Commented
    <2>5. CASE build_finding_key(f) \in job.tracked
      <3>1. PICK i \in DOMAIN job.listed : /\ i \in DOMAIN threads /\ Key(i) = build_finding_key(f)
                                           /\ ~threads[i].resolved \/ i \in job.touched
        BY <1>1, <2>5, NewestTracked
      <3>2. i \in DOMAIN threads' /\ threads'[i] = threads[i]
        BY <1>2, <1>3, <1>6
      <3>3. QED
        BY <1>5, <1>8, <3>1, <3>2
    <2>6. CASE f \in ToSet(new)
      <3>1. PICK x \in 1..Len(new) : f = new[x]
        BY <1>6, <2>6 DEF ToSet
      <3>2. n + x \in DOMAIN threads' /\ threads'[n + x].key = build_finding_key(f) /\ ~threads'[n + x].resolved
        BY <1>10, <3>1
      <3>3. QED
        BY <3>2 DEF Key
    <2>7. QED
      BY <2>2, <2>3, <2>4, <2>5, <2>6 DEF Passed
  <1>13. ThreadKeysUnique'
    <2>1. ASSUME NEW i \in DOMAIN threads', NEW j \in DOMAIN threads', i < j, Key(i)' = Key(j)'
          PROVE  \E old \in Legacy : j \in DOMAIN old /\ old[j].key = Key(j)'
      <3>1. CASE j \in 1..n
        <4>1. i \in 1..n
          BY <1>2, <1>6, <2>1, <3>1
        <4>2. Key(i) = Key(j) /\ Key(j)' = Key(j) /\ i \in DOMAIN threads /\ j \in DOMAIN threads
          BY <1>2, <1>3, <2>1, <3>1, <4>1 DEF Key
        <4>3. QED
          BY <2>1, <4>2 DEF SyncInv, ThreadKeysUnique
      <3>2. ASSUME NEW x \in 1..Len(new), j = n + x, i \in 1..n
            PROVE  FALSE
        <4>1. Key(i)' = build_finding_key(new[x])
          BY <1>10, <2>1, <3>2 DEF Key
        <4>2. Key(i) = build_finding_key(new[x]) /\ i \in DOMAIN job.listed /\ i > job.left
          BY <1>1, <1>2, <1>8, <3>2, <4>1
        <4>3. Key(i) \in job.tracked
          BY <1>1, <1>11, <4>2 DEF OnTheWay
        <4>4. QED
          BY <1>11, <4>2, <4>3
      <3>3. ASSUME NEW x \in 1..Len(new), j = n + x, NEW y \in 1..Len(new), i = n + y
            PROVE  FALSE
        <4>1. build_finding_key(new[y]) = build_finding_key(new[x]) /\ x # y
          BY <1>2, <1>10, <2>1, <3>3 DEF Key
        <4>2. QED
          BY <1>6, <1>11, <4>1 DEF Apart
      <3>4. QED
        BY <1>6, <3>1, <3>2, <3>3
    <2>2. QED
      BY <2>1 DEF ThreadKeysUnique
  <1>14. QED
    BY <1>5, <1>8, <1>9, <1>12, <1>13 DEF SyncInv, Untracked, At

LEMMA SyncStep ==
    JobInv /\ WorldInv /\ PageInv /\ SyncInv /\ [Next]_vars => SyncInv'
  <1>1. SUFFICES ASSUME JobInv, WorldInv, PageInv, SyncInv, [Next]_vars PROVE SyncInv'
    OBVIOUS
  <1>2. ASSUME ~At("idle") PROVE Going(job)
    BY <1>1, <1>2 DEF JobInv, At, Idle
  <1>3. CASE UNCHANGED <<threads, job>>
    BY <1>1, <1>3 DEF SyncInv, Untracked, OnTheWay, StillThere, Opens, ThreadsSettled, FindingsTracked,
                      ThreadKeysUnique, At, Key, Wanted, Anchor
  <1>4. CASE threads' = threads /\ job' = Idle
    BY <1>1, <1>4, Elsewhere DEF Untracked, Idle, Busy
  <1>5. CASE StartJob
    BY <1>1, <1>5, Elsewhere DEF StartJob, Untracked
  <1>6. ASSUME Going(job), threads' = threads, job.pc \in Busy \ {"sync", "comment"}, job'.pc \in Busy \ {"sync"},
               job'.tracked = job.tracked, job'.synced = job.synced
        PROVE  SyncInv'
    <2>1. ~job.synced
      BY <1>1, <1>6 DEF PageInv, At, Busy
    <2>2. QED
      BY <1>1, <1>6, <2>1, Elsewhere DEF Untracked, SyncInv
  <1>7. CASE BuildScope
    <2>1. Going(job) /\ threads' = threads /\ job.pc = "scope"
      BY <1>2, <1>7 DEF BuildScope, At
    <2>2. job'.pc = "ask" /\ job'.tracked = job.tracked /\ job'.synced = job.synced
      BY <1>7, <2>1 DEF BuildScope, Going, Running
    <2>3. QED
      BY <1>6, <2>1, <2>2 DEF Busy
  <1>8. ASSUME Going(job), threads' = threads, job.pc \in {"ask", "fallback"}, NEW review \in Answers, Answered(review)
        PROVE  SyncInv'
    <2>1. job'.tracked = job.tracked
      BY <1>8 DEF Answered, Going, Running
    <2>2. job'.pc \in {"ask", "find_review"} /\ job'.synced = job.synced
      BY <1>8, Answer
    <2>3. QED
      BY <1>6, <1>8, <2>1, <2>2 DEF Busy
  <1>9. CASE AskResponses
    <2>1. Going(job) /\ threads' = threads /\ job.pc = "ask"
      BY <1>2, <1>9 DEF AskResponses, At
    <2>2. CASE \E review \in Answers : Answered(review)
      BY <1>8, <2>1, <2>2
    <2>3. CASE job' = [job EXCEPT !.pc = "fallback"]
      <3>1. job'.pc = "fallback" /\ job'.tracked = job.tracked /\ job'.synced = job.synced
        BY <2>1, <2>3 DEF Going, Running
      <3>2. QED
        BY <1>6, <2>1, <3>1 DEF Busy
    <2>4. QED
      BY <1>9, <2>2, <2>3 DEF AskResponses
  <1>10. CASE AskChatCompletions
    <2>1. Going(job) /\ threads' = threads /\ job.pc = "fallback" /\ \E review \in Answers : Answered(review)
      BY <1>2, <1>10 DEF AskChatCompletions, At
    <2>2. QED
      BY <1>8, <2>1
  <1>11. CASE find_existing_review_for_head
    <2>1. Going(job) /\ threads' = threads /\ job.pc = "find_review"
      BY <1>2, <1>11 DEF find_existing_review_for_head, At
    <2>2. job'.pc \in {"comment", "list_threads"} /\ job'.tracked = job.tracked /\ job'.synced = job.synced
      BY <1>11, <2>1 DEF find_existing_review_for_head, Going, Running
    <2>3. QED
      BY <1>6, <2>1, <2>2 DEF Busy
  <1>12. CASE list_pull_request_review_threads
    <2>1. Going(job) /\ threads' = threads /\ job.pc = "list_threads" /\ job.tracked = {}
      BY <1>1, <1>2, <1>12 DEF list_pull_request_review_threads, At, SyncInv, Untracked, Busy
    <2>2. job' = [job EXCEPT !.pc = "sync", !.listed = threads, !.left = Len(threads), !.touched = {}]
      BY <1>12 DEF list_pull_request_review_threads
    <2>3. /\ job'.pc = "sync" /\ job'.listed = threads /\ job'.left = Len(threads) /\ job'.tracked = {}
      BY <2>1, <2>2 DEF Going, Running
    <2>4. threads \in Seq(Thread) /\ DOMAIN threads = 1..Len(threads) /\ Len(threads) \in Nat
      BY <1>1 DEF WorldInv
    <2>5. \A i \in DOMAIN threads : ~(i > Len(threads))
      BY <2>4
    <2>6. OnTheWay'
      <3>1. StillThere' /\ Len(threads') = Len(job'.listed) /\ job'.left <= Len(job'.listed)
        BY <2>1, <2>3, <2>4 DEF StillThere
      <3>2. job'.tracked = {Key(j)' : j \in {i \in DOMAIN job'.listed : i > job'.left /\ Key(i)' \in Wanted'}}
        BY <2>3, <2>5
      <3>3. \A i \in DOMAIN job'.listed \ job'.touched :
                IF i > job'.left THEN ~threads'[i].resolved <=> Opens(i)'
                                 ELSE threads'[i].resolved = job'.listed[i].resolved
        BY <2>1, <2>3, <2>5
      <3>4. QED
        BY <3>1, <3>2, <3>3 DEF OnTheWay
    <2>7. ThreadKeysUnique'
      BY <1>1, <2>1 DEF SyncInv, ThreadKeysUnique, Key
    <2>8. QED
      BY <2>3, <2>6, <2>7 DEF SyncInv, Untracked, ThreadsSettled, FindingsTracked, At
  <1>13. CASE PersonToggles
    BY <1>1, <1>13, ToggleStep
  <1>14. CASE sync_review_threads
    BY <1>1, <1>14, SettleStep
  <1>15. CASE create_pull_request_review
    BY <1>1, <1>15, PublishStep
  <1>16. QED
    BY <1>1, <1>3, <1>4, <1>5, <1>7, <1>9, <1>10, <1>11, <1>12, <1>13, <1>14, <1>15
       DEF Next, JobSteps, Push, Dispatch, PersonWrites, CancelJob, RequestFails, upsert_issue_comment, vars

-----------------------------------------------------------------------------
\* The theorems.

IInv == JobInv /\ WorldInv /\ PageInv /\ SyncInv

LEMMA InitInv ==
    Init => IInv
  <1>1. SUFFICES ASSUME Init PROVE IInv
    OBVIOUS
  <1>2. JobInv /\ WorldInv
    BY <1>1, JobInit
  <1>3. PageInv
    <2>1. reviews = <<>> /\ comments = <<>> /\ At("idle") /\ DOMAIN <<>> = {}
      BY <1>1 DEF Init, At, Idle
    <2>2. QED
      BY <2>1 DEF PageInv, OnePerPage, At
  <1>4. SyncInv
    <2>1. job = Idle /\ threads \in Legacy
      BY <1>1 DEF Init
    <2>2. ThreadKeysUnique
      BY <2>1 DEF ThreadKeysUnique, Key
    <2>3. QED
      BY <2>1, <2>2 DEF SyncInv, Untracked, ThreadsSettled, FindingsTracked, At, Idle, Busy
  <1>5. QED
    BY <1>2, <1>3, <1>4 DEF IInv

LEMMA StepInv ==
    IInv /\ [Next]_vars => IInv'
  BY JobStep, WorldStep, PageStep, SyncStep DEF IInv

\* The inductive invariant of the review job.
THEOREM JobInvariant == Spec => []IInv
  BY InitInv, StepInv, PTL DEF Spec

\* In every reachable state the types hold, every changed file is reviewed or
\* reported as omitted, once, and a head has one review and the pull request
\* one summary on the page that is read.
THEOREM ReviewsAreOrderly == Spec => []ReviewInv
  <1>1. IInv => ReviewInv
    <2>1. SUFFICES ASSUME JobInv, WorldInv, PageInv PROVE ReviewInv
      BY DEF IInv
    <2>2. TypeOK
      <3>1. \A i \in DOMAIN threads : threads[i].file \in Nat /\ threads[i].resolved \in BOOLEAN
        <4>1. \A i \in DOMAIN threads : threads[i] \in Thread
          BY <2>1 DEF WorldInv
        <4>2. QED
          BY <4>1 DEF Thread
      <3>2. \A s \in Seq(Nat) : (\A i \in DOMAIN s : s[i] <= head) => \A i \in DOMAIN s : s[i] \in 0..head
        BY <2>1 DEF WorldInv
      <3>3. job.pc \in {"idle", "scope", "ask", "fallback", "find_review", "list_threads", "sync", "comment"}
        BY <2>1 DEF JobInv, Going, Running, Busy, Idle
      <3>4. QED
        BY <2>1, <3>1, <3>2, <3>3 DEF WorldInv, TypeOK
    <2>3. EveryFileAccountedFor
      <3>1. SUFFICES ASSUME ~At("idle") PROVE Accounted(job.scope)
        BY DEF EveryFileAccountedFor, Accounted
      <3>2. job.scope \in Scopes
        BY <2>1, <3>1 DEF JobInv, Going, Running, At, Idle
      <3>3. CASE job.scope = NoScope
        BY <3>3 DEF Accounted, NoScope
      <3>4. CASE \E c \in Contents : job.scope = build_review_scope(c)
        BY <3>4, ScopeAccounted
      <3>5. QED
        BY <3>2, <3>3, <3>4 DEF Scopes
    <2>4. QED
      BY <2>1, <2>2, <2>3 DEF ReviewInv, PageInv
  <1>2. QED
    BY <1>1, JobInvariant, PTL

\* No job opens a second thread for a finding that has one.
THEOREM KeysStayUnique == Spec => []ThreadKeysUnique
  <1>1. IInv => ThreadKeysUnique
    BY DEF IInv, SyncInv
  <1>2. QED
    BY <1>1, JobInvariant, PTL

\* After the publication every finding that can have a thread has an open one,
\* unless the comments are used up or a person closed it.
THEOREM FindingsAreTracked == Spec => []FindingsTracked
  <1>1. IInv => FindingsTracked
    BY DEF IInv, SyncInv
  <1>2. QED
    BY <1>1, JobInvariant, PTL

\* After the publication a listed thread is open exactly when it should be,
\* unless a person touched it meanwhile.
THEOREM ThreadsAreSettled == Spec => []ThreadsSettled
  <1>1. IInv => ThreadsSettled
    BY DEF IInv, SyncInv
  <1>2. QED
    BY <1>1, JobInvariant, PTL

=============================================================================
