--------------------------- MODULE ProvidersProofs ---------------------------
(***************************************************************************)
(* Theorems about Providers for any number of providers, processes and     *)
(* requests at once, whatever the model answers and whatever fails.        *)
(*                                                                         *)
(* The argument: a profile is written before the vector and is never taken *)
(* away, and a request that is to write a vector has a profile behind it,  *)
(* because nothing follows a failed write.  Two evaluations that run in    *)
(* one process at once are both marked as mixed when the later begins; the *)
(* fields an unmarked one reads were reset by itself and written by nobody *)
(* else since.                                                             *)
(*                                                                         *)
(* What the tables say of a provider rests on the request that rates it:   *)
(* as long as there is at most one, what is still unwritten is exactly     *)
(* what that request is about to write, from a row nobody else has         *)
(* changed.  A second request or a failure halfway marks the provider,     *)
(* and nothing is claimed of it from then on (RatedInv).                   *)
(*                                                                         *)
(* A search carries its candidates sorted: the place of each is the number *)
(* of those it comes behind, so every place is taken once, and a page is a *)
(* run of places.  A request stores its page at its end, under a number    *)
(* that no other has (RankInv).                                            *)
(***************************************************************************)
EXTENDS Providers, FoldFacts, FiniteSetTheorems, TLAPS

Needs(r) == r.pc \in {"read_power", "write_power", "log", "team", "delete", "insert"}
Evaluates(r) == r.pc \in {"answer", "tool", "collect"}
Carries == {"pc", "ask", "p", "w", "n", "iteration", "tool", "old", "read", "found", "profile"}

\* Every number of points has a level: the bounds of VIBE_LEVELS leave no level undefined,
\* and beyond them it is the lowest (rating_agent.py 58-66).
THEOREM LevelIsOne ==
    ASSUME NEW points \in Int, NEW capped \in BOOLEAN
    PROVE  get_level_for_points(points, capped) \in Level
  <1> DEFINE cut == AtMost(points, effective_max(capped))
             fitting == {l \in 1..10 : Fits(l, cut)}
  <1>1. CASE fitting = {}
    BY <1>1 DEF get_level_for_points, Level
  <1>2. CASE fitting # {}
    <2> HIDE DEF fitting
    <2>1. fitting \subseteq 1..10
      BY DEF fitting
    <2>2. \E l \in fitting : \A k \in fitting : l <= k
      <3>1. PICK x \in fitting : TRUE
        BY <1>2
      <3>2. SUFFICES ASSUME \A l \in fitting : \E k \in fitting : k < l PROVE FALSE
        BY <2>1
      <3>3. \A n \in {1, 2, 3, 4, 5} : n \notin fitting
        <4>1. 1 \notin fitting
          BY <2>1, <3>2
        <4>2. 2 \notin fitting
          BY <2>1, <3>2, <4>1
        <4>3. 3 \notin fitting
          BY <2>1, <3>2, <4>1, <4>2
        <4>4. 4 \notin fitting
          BY <2>1, <3>2, <4>1, <4>2, <4>3
        <4>5. 5 \notin fitting
          BY <2>1, <3>2, <4>1, <4>2, <4>3, <4>4
        <4> QED
          BY <4>1, <4>2, <4>3, <4>4, <4>5
      <3>4. 6 \notin fitting
        BY <2>1, <3>2, <3>3
      <3>5. 7 \notin fitting
        BY <2>1, <3>2, <3>3, <3>4
      <3>6. 8 \notin fitting
        BY <2>1, <3>2, <3>3, <3>4, <3>5
      <3>7. 9 \notin fitting
        BY <2>1, <3>2, <3>3, <3>4, <3>5, <3>6
      <3>8. 10 \notin fitting
        BY <2>1, <3>2, <3>3, <3>4, <3>5, <3>6, <3>7
      <3> QED
        BY <2>1, <3>1, <3>3, <3>4, <3>5, <3>6, <3>7, <3>8
    <2>3. (CHOOSE l \in fitting : \A k \in fitting : l <= k) \in fitting
      BY <2>2
    <2>4. get_level_for_points(points, capped) = CHOOSE l \in fitting : \A k \in fitting : l <= k
      BY <1>2 DEF get_level_for_points, fitting
    <2> QED
      BY <2>1, <2>3, <2>4 DEF Level
  <1> QED
    BY <1>1, <1>2

\* The bounds of a level of higher number are higher, and they leave nothing out.
LEMMA LevelBounds ==
    /\ \A k, l \in Level : k < l => VIBE_LEVELS[k].max < VIBE_LEVELS[l].min
    /\ \A l \in Level : VIBE_LEVELS[l].min \in Nat /\ VIBE_LEVELS[l].max \in Nat
    /\ \A n \in Nat : n <= effective_max(FALSE) => \E l \in Level : Fits(l, n)
    /\ \A n \in Nat : n <= effective_max(TRUE) => \A l \in Level : Fits(l, n) => l <= 5
  <1>1. /\ VIBE_LEVELS[1] = [min |-> 0, max |-> 99] /\ VIBE_LEVELS[2] = [min |-> 100, max |-> 199]
        /\ VIBE_LEVELS[3] = [min |-> 200, max |-> 349] /\ VIBE_LEVELS[4] = [min |-> 350, max |-> 549]
        /\ VIBE_LEVELS[5] = [min |-> 550, max |-> 749] /\ VIBE_LEVELS[6] = [min |-> 750, max |-> 949]
        /\ VIBE_LEVELS[7] = [min |-> 950, max |-> 1199] /\ VIBE_LEVELS[8] = [min |-> 1200, max |-> 1499]
        /\ VIBE_LEVELS[9] = [min |-> 1500, max |-> 1899] /\ VIBE_LEVELS[10] = [min |-> 1900, max |-> 999999]
    BY SMT DEF VIBE_LEVELS
  <1>2. Level = {1, 2, 3, 4, 5, 6, 7, 8, 9, 10}
    BY DEF Level
  <1>3. \A l \in Level : VIBE_LEVELS[l].min \in Nat /\ VIBE_LEVELS[l].max \in Nat
    BY <1>1, <1>2, SMT
  <1>4. \A k, l \in Level : k < l => VIBE_LEVELS[k].max < VIBE_LEVELS[l].min
    BY <1>1, <1>2, SMT
  <1>5. \A n \in Nat : n <= effective_max(FALSE) => \E l \in Level : Fits(l, n)
    <2>1. SUFFICES ASSUME NEW n \in Nat, n <= effective_max(FALSE) PROVE \E l \in Level : Fits(l, n)
      OBVIOUS
    <2>2. CASE 0 <= n /\ n <= 99
      <3>1. Fits(1, n)
        BY <1>1, <2>2, SMT DEF Fits
      <3> QED
        BY <1>2, <3>1, SMT
    <2>3. CASE 100 <= n /\ n <= 199
      <3>1. Fits(2, n)
        BY <1>1, <2>3, SMT DEF Fits
      <3> QED
        BY <1>2, <3>1, SMT
    <2>4. CASE 200 <= n /\ n <= 349
      <3>1. Fits(3, n)
        BY <1>1, <2>4, SMT DEF Fits
      <3> QED
        BY <1>2, <3>1, SMT
    <2>5. CASE 350 <= n /\ n <= 549
      <3>1. Fits(4, n)
        BY <1>1, <2>5, SMT DEF Fits
      <3> QED
        BY <1>2, <3>1, SMT
    <2>6. CASE 550 <= n /\ n <= 749
      <3>1. Fits(5, n)
        BY <1>1, <2>6, SMT DEF Fits
      <3> QED
        BY <1>2, <3>1, SMT
    <2>7. CASE 750 <= n /\ n <= 949
      <3>1. Fits(6, n)
        BY <1>1, <2>7, SMT DEF Fits
      <3> QED
        BY <1>2, <3>1, SMT
    <2>8. CASE 950 <= n /\ n <= 1199
      <3>1. Fits(7, n)
        BY <1>1, <2>8, SMT DEF Fits
      <3> QED
        BY <1>2, <3>1, SMT
    <2>9. CASE 1200 <= n /\ n <= 1499
      <3>1. Fits(8, n)
        BY <1>1, <2>9, SMT DEF Fits
      <3> QED
        BY <1>2, <3>1, SMT
    <2>10. CASE 1500 <= n /\ n <= 1899
      <3>1. Fits(9, n)
        BY <1>1, <2>10, SMT DEF Fits
      <3> QED
        BY <1>2, <3>1, SMT
    <2>11. CASE 1900 <= n
      <3>1. Fits(10, n)
        BY <1>1, <2>1, <2>11, SMT DEF Fits, effective_max
      <3> QED
        BY <1>2, <3>1, SMT
    <2> QED
      BY <2>1, <2>2, <2>3, <2>4, <2>5, <2>6, <2>7, <2>8, <2>9, <2>10, <2>11, SMT
  <1>6. \A n \in Nat : n <= effective_max(TRUE) => \A l \in Level : Fits(l, n) => l <= 5
    BY <1>1, <1>2, SMT DEF Fits, effective_max
  <1> QED
    BY <1>3, <1>4, <1>5, <1>6, Zenon

\* What is cut down to the most an evaluation may give is a number of points.
LEMMA CutBounds ==
    ASSUME NEW n \in Nat, NEW capped \in BOOLEAN
    PROVE  /\ AtMost(n, effective_max(capped)) \in Nat
           /\ AtMost(n, effective_max(capped)) <= effective_max(capped)
           /\ AtMost(n, effective_max(capped)) <= effective_max(FALSE)
           /\ AtMost(n, effective_max(capped)) <= AtMost(n + 1, effective_max(capped))
  <1>1. CASE capped
    BY <1>1, SMT DEF AtMost, effective_max
  <1>2. CASE ~capped
    BY <1>2, SMT DEF AtMost, effective_max
  <1> QED
    BY <1>1, <1>2, Zenon

\* Points have a level whose bounds they are within.
LEMMA LevelFits ==
    ASSUME NEW points \in Nat, NEW capped \in BOOLEAN
    PROVE  Fits(get_level_for_points(points, capped), AtMost(points, effective_max(capped)))
  <1> DEFINE cut == AtMost(points, effective_max(capped))
             fitting == {l \in 1..10 : Fits(l, cut)}
  <1>1. cut \in Nat /\ cut <= effective_max(FALSE)
    BY CutBounds, Zenon
  <1>2. PICK x \in fitting : TRUE
    <2>1. PICK l \in Level : Fits(l, cut)
      <3> HIDE DEF cut
      <3> QED
        BY <1>1, LevelBounds, Zenon
    <2> QED
      BY <2>1 DEF Level
  <1>3. get_level_for_points(points, capped) \in Level
    BY LevelIsOne
  <1>4. \A k, l \in fitting : k = l
    <2>1. ASSUME NEW k \in fitting, NEW l \in fitting, k < l PROVE FALSE
      BY <1>1, <2>1, LevelBounds DEF Fits, Level
    <2> QED
      BY <2>1
  <1>5. fitting = {x}
    BY <1>2, <1>4
  <1>6. get_level_for_points(points, capped) = CHOOSE l \in fitting : \A k \in fitting : l <= k
    BY <1>2 DEF get_level_for_points
  <1> HIDE DEF fitting
  <1>7. get_level_for_points(points, capped) = x
    <2>1. x \in 1..10
      BY <1>2 DEF fitting
    <2> QED
      BY <1>5, <1>6, <2>1
  <1> QED
    BY <1>2, <1>7 DEF fitting

\* More points never have a lower level, and an evaluation alone never goes beyond the fifth:
\* rating_agent.py 25-36, 58-66.
THEOREM MorePointsNoLowerLevel ==
    ASSUME NEW points \in Nat
    PROVE  /\ get_level_for_points(points, FALSE) <= get_level_for_points(points + 1, FALSE)
           /\ get_level_for_points(points, TRUE) <= 5
  <1> DEFINE l == get_level_for_points(points, FALSE)
             k == get_level_for_points(points + 1, FALSE)
             c == get_level_for_points(points, TRUE)
  <1>1. l \in Level /\ k \in Level /\ c \in Level
    <2>1. points \in Int /\ points + 1 \in Int
      OBVIOUS
    <2>2. l \in Level /\ c \in Level
      BY <2>1, LevelIsOne, Zenon
    <2>3. k \in Level
      BY <2>1, LevelIsOne, Zenon
    <2> QED
      BY <2>2, <2>3, Zenon
  <1>2. /\ Fits(l, AtMost(points, effective_max(FALSE))) /\ Fits(k, AtMost(points + 1, effective_max(FALSE)))
        /\ Fits(c, AtMost(points, effective_max(TRUE)))
    <2>1. points + 1 \in Nat
      OBVIOUS
    <2>2. Fits(l, AtMost(points, effective_max(FALSE))) /\ Fits(c, AtMost(points, effective_max(TRUE)))
      BY LevelFits, Zenon
    <2>3. Fits(k, AtMost(points + 1, effective_max(FALSE)))
      BY <2>1, LevelFits, Zenon
    <2> QED
      BY <2>2, <2>3, Zenon
  <1> HIDE DEF l, k, c
  <1>3. l <= k
    <2>1. CASE k < l
      <3>1. VIBE_LEVELS[k].max < VIBE_LEVELS[l].min
        BY <1>1, <2>1, LevelBounds
      <3>2. /\ AtMost(points, effective_max(FALSE)) \in Nat
            /\ AtMost(points + 1, effective_max(FALSE)) \in Nat
            /\ AtMost(points, effective_max(FALSE)) <= AtMost(points + 1, effective_max(FALSE))
        <4>1. points + 1 \in Nat
          OBVIOUS
        <4> QED
          BY <4>1, CutBounds, Zenon
      <3>3. /\ VIBE_LEVELS[l].min \in Nat /\ VIBE_LEVELS[k].max \in Nat
            /\ VIBE_LEVELS[l].min <= AtMost(points, effective_max(FALSE))
            /\ AtMost(points + 1, effective_max(FALSE)) <= VIBE_LEVELS[k].max
        BY <1>1, <1>2, LevelBounds, Zenon DEF Fits
      <3> DEFINE lower == VIBE_LEVELS[l].min
                 upper == VIBE_LEVELS[k].max
                 cut == AtMost(points, effective_max(FALSE))
                 more == AtMost(points + 1, effective_max(FALSE))
      <3>4. /\ lower \in Nat /\ upper \in Nat /\ cut \in Nat /\ more \in Nat
            /\ upper < lower /\ lower <= cut /\ cut <= more /\ more <= upper
        BY <3>1, <3>2, <3>3
      <3> HIDE DEF lower, upper, cut, more
      <3> QED
        BY <3>4
    <2> QED
      BY <1>1, <2>1 DEF Level
  <1>4. c <= 5
    <2>1. AtMost(points, effective_max(TRUE)) \in Nat /\ AtMost(points, effective_max(TRUE)) <= effective_max(TRUE)
      BY CutBounds, Zenon
    <2> QED
      BY <1>1, <1>2, <2>1, LevelBounds, Zenon
  <1> QED
    BY <1>3, <1>4, Zenon DEF l, k, c

\* The points an evaluation settles on are points, whatever the model claims.
LEMMA PointsTyped ==
    ASSUME NEW s \in Scores, NEW claimed \in Int
    PROVE  Settled(s, claimed) \in Int
  BY DEF Settled, Distance, Scores, calculate_vibe_power, RoundThousandths, AtMost

\* What an evaluation stores is a profile.
LEMMA ProfileBuilt ==
    ASSUME NEW fields \in Fields
    PROVE  build_profile_data(fields) \in Profile
  <1> DEFINE power == IF fields.reported # Nil THEN fields.report ELSE fields.power
  <1>1. power \in Int
    BY DEF Fields
  <1>2. get_level_for_points(power, TRUE) \in Level
    BY <1>1, LevelIsOne
  <1>3. {fields.parsed, fields.scored, fields.reported} \ {Nil} \in SUBSET Provider
    BY DEF Fields
  <1>4. fields.skills \in Skills
    BY DEF Fields
  <1> QED
    BY <1>1, <1>2, <1>3, <1>4 DEF build_profile_data, Profile

\* A tool leaves the fields well typed and sets them to the evaluation's own provider.
LEMMA ToolTyped ==
    ASSUME NEW fields \in Fields, NEW p \in Provider, NEW answer \in Answer
    PROVE  /\ Executed(fields, p, answer) \in Fields
           /\ \A f \in {"parsed", "scored", "reported"} :
                 Executed(fields, p, answer)[f] \in {p, fields[f]}
  <1>1. CASE answer \in [tool : {"parse_resume"}, skills : Skills]
    BY <1>1 DEF Executed, Fields
  <1>2. CASE answer \in [tool : {"evaluate_skills"}, scores : Scores, power : Int]
    <2>1. Settled(answer.scores, answer.power) \in Int
      BY <1>2, PointsTyped
    <2> QED
      BY <1>2, <2>1 DEF Executed, Fields
  <1>3. CASE answer \in [tool : {"generate_report"}, power : Int]
    BY <1>3 DEF Executed, Fields
  <1> QED
    BY <1>1, <1>2, <1>3 DEF Answer

\* The kinds of request, and what each asks with.
LEMMA Kinds ==
    ASSUME NEW a \in Ask
    PROVE  /\ a.kind \in {"evaluate", "adjust", "sync", "recommend"}
           /\ a.kind = "adjust" => a.points \in Int
           /\ a.kind = "sync" => a.skills \in Skills
           /\ a.kind = "evaluate" => a.stream \in BOOLEAN
  BY DEF Ask

\* A request at one of the last steps moves to the next one of its kind, or ends; the step
\* after a write needs a profile only if this one did or wrote it.
LEMMA Follows ==
    ASSUME NEW r, RequestOK(r),
           r.pc \notin {"begin", "answer", "tool", "collect"}
    PROVE  \/ Following(r) = Idle
           \/ \E pc \in StepsOf(r.ask.kind) :
                 /\ Following(r) = [r EXCEPT !.pc = pc]
                 /\ pc \notin {"begin", "answer", "tool", "collect", "save"}
                 /\ r.ask.kind # "adjust" => pc \notin {"read_power", "write_power"}
                 /\ r.ask.kind = "recommend" => pc \in {"search", "enrich", "llm", "save_results"}
                 /\ pc = "write_power" => r.pc = "read_power"
                 /\ r.ask.kind \in {"evaluate", "sync"} => r.pc \in {"save", "log", "team", "delete", "insert"}
                 /\ r.pc = "get_profile" => pc = "read_power"
  <1>1. r.ask.kind \in {"evaluate", "adjust", "sync", "recommend"}
    BY Kinds DEF RequestOK
  <1>2. CASE r.ask.kind = "evaluate"
    <2>1. r.pc \in {"save", "log", "team", "delete", "insert"}
      BY <1>2 DEF RequestOK, StepsOf
    <2> QED
      BY <1>2, <2>1 DEF Following, To, Steps, StepsOf, do_evaluate
  <1>3. CASE r.ask.kind = "adjust"
    <2>1. r.pc \in {"get_profile", "read_power", "write_power", "log", "team"}
      BY <1>3 DEF RequestOK, StepsOf
    <2> QED
      BY <1>3, <2>1 DEF Following, To, Steps, StepsOf, adjust_points
  <1>4. CASE r.ask.kind = "sync"
    <2>1. r.pc \in {"save", "delete", "insert"}
      BY <1>4 DEF RequestOK, StepsOf
    <2> QED
      BY <1>4, <2>1 DEF Following, To, Steps, StepsOf, sync_provider_profile
  <1>5. CASE r.ask.kind = "recommend"
    <2>1. r.pc \in {"demand", "search", "enrich", "llm", "save_results"}
      BY <1>5 DEF RequestOK, StepsOf
    <2> QED
      BY <1>5, <2>1 DEF Following, To, Steps, StepsOf, smart_match
  <1> QED
    BY <1>1, <1>2, <1>3, <1>4, <1>5

\* The empty fields are fields.
LEMMA FieldsTyped == NoFields \in Fields
  BY DEF NoFields, Fields, NoSkills, Skills

\* The invariant holds initially.
LEMMA InitInv == Init => ProvidersInv
  <1> SUFFICES ASSUME Init PROVE ProvidersInv
    OBVIOUS
  <1>1. PICK s \in Scenarios :
            /\ scenario = s
            /\ profiles = [p \in Provider |-> Nil]
            /\ logs = [p \in Provider |-> <<>>]
            /\ teams = [p \in Provider |-> s.team]
            /\ vectors = {}
            /\ agents = [w \in Worker |-> NoFields]
            /\ handlers = [h \in Slot |-> Idle]
            /\ requests = 0
            /\ seen = [crowded |-> {}, mixed |-> {}, torn |-> {}, synced |-> {}]
    BY DEF Init
  <1>2. s.team \in Team \cup {Nil}
    BY ScenarioAssumption
  <1>3. TypeOK
    BY <1>1, <1>2, FieldsTyped DEF TypeOK
  <1>4. \A h \in Slot : handlers[h] = Idle /\ handlers[h].pc = "idle"
    BY <1>1 DEF Idle
  <1>5. InFlight /\ ProfileKept /\ MixedMarked /\ FieldsOwn /\ StoredOwn
    BY <1>1, <1>4 DEF InFlight, ProfileKept, MixedMarked, FieldsOwn, StoredOwn, Busy, At, Evaluating
  <1>6. VectorBacked
    BY <1>1 DEF VectorBacked
  <1> QED
    BY <1>3, <1>5, <1>6 DEF ProvidersInv

\* A step that changes one request, no agent and no profile but by writing one, keeps the
\* invariant when what the request carries on is in order.
LEMMA MoveInv ==
    ASSUME ProvidersInv, NEW h \in Slot, NEW r, r = Idle \/ RequestOK(r),
           handlers' = [handlers EXCEPT ![h] = r],
           TypeOK', VectorBacked',
           agents' = agents, seen'.mixed = seen.mixed,
           \A p \in Provider : profiles[p] # Nil => profiles'[p] # Nil,
           r # Idle => (Needs(r) => profiles'[r.p] # Nil),
           r # Idle => (Evaluates(r) => Evaluating(h) /\ r.p = handlers[h].p /\ r.w = handlers[h].w),
           r # Idle => (Stores(r) => Together(r.p, r.profile.by))
    PROVE  ProvidersInv'
  <1>1. /\ handlers'[h] = r
        /\ \A g \in Slot \ {h} : handlers'[g] = handlers[g]
        /\ \A g \in Slot : Busy(g) => RequestOK(handlers[g])
    BY DEF ProvidersInv, InFlight
  <1>2. r = Idle => r.pc = "idle"
    BY DEF Idle
  <1>3. InFlight'
    BY <1>1, <1>2 DEF ProvidersInv, InFlight, Busy, At
  <1>4. ProfileKept'
    <2>1. SUFFICES ASSUME NEW g \in Slot, Needs(handlers'[g]) PROVE profiles'[handlers'[g].p] # Nil
      BY DEF ProfileKept, Needs, At
    <2>2. CASE g = h
      BY <1>1, <1>2, <2>1, <2>2 DEF Needs
    <2>3. CASE g # h
      <3>1. Needs(handlers[g]) /\ handlers'[g] = handlers[g]
        BY <1>1, <2>1, <2>3
      <3>2. profiles[handlers[g].p] # Nil /\ Busy(g)
        BY <3>1 DEF ProvidersInv, ProfileKept, Needs, At, Busy
      <3>3. handlers[g].p \in Provider
        BY <1>1, <3>2 DEF RequestOK
      <3> QED
        BY <3>1, <3>2, <3>3
    <2> QED
      BY <2>2, <2>3
  <1>5. \A g \in Slot : Evaluating(g)' => Evaluating(g) /\ handlers'[g].p = handlers[g].p
                                          /\ handlers'[g].w = handlers[g].w
    BY <1>1, <1>2 DEF Evaluating, Evaluates, Busy, At
  <1>6. MixedMarked'
    BY <1>5 DEF ProvidersInv, MixedMarked
  <1>7. FieldsOwn'
    BY <1>5 DEF ProvidersInv, FieldsOwn, Together
  <1>8. StoredOwn'
    BY <1>1, <1>2 DEF ProvidersInv, StoredOwn, Together, Busy, At
  <1> QED
    BY <1>3, <1>4, <1>6, <1>7, <1>8 DEF ProvidersInv

\* What a request carries after such a step is what it carried before.
LEMMA FollowOK ==
    ASSUME NEW r, RequestOK(r), r.pc \notin {"begin", "answer", "tool", "collect"},
           NEW f, f = Following(r), f # Idle
    PROVE  /\ DOMAIN f = Carries
           /\ f.ask = r.ask /\ f.p = r.p /\ f.w = r.w /\ f.n = r.n /\ f.old = r.old /\ f.profile = r.profile
           /\ f.pc \in StepsOf(r.ask.kind) /\ ~Evaluates(f)
           /\ f.pc = "write_power" => r.pc = "read_power"
           /\ r.pc = "get_profile" => f.pc = "read_power"
           /\ Needs(f) => Needs(r) \/ r.pc \in {"save", "get_profile"}
           /\ Stores(f) => Stores(r)
           /\ r.pc # "read_power" => RequestOK(f)
  <1>1. PICK pc \in StepsOf(r.ask.kind) :
            /\ f = [r EXCEPT !.pc = pc]
            /\ pc \notin {"begin", "answer", "tool", "collect", "save"}
            /\ r.ask.kind # "adjust" => pc \notin {"read_power", "write_power"}
            /\ r.ask.kind = "recommend" => pc \in {"search", "enrich", "llm", "save_results"}
            /\ pc = "write_power" => r.pc = "read_power"
            /\ r.ask.kind \in {"evaluate", "sync"} => r.pc \in {"save", "log", "team", "delete", "insert"}
            /\ r.pc = "get_profile" => pc = "read_power"
    BY Follows
  <1>2. DOMAIN r = Carries
    BY DEF RequestOK, Carries
  <1>3. /\ DOMAIN f = Carries /\ f.pc = pc
        /\ f.ask = r.ask /\ f.p = r.p /\ f.w = r.w /\ f.n = r.n /\ f.old = r.old /\ f.profile = r.profile
    BY <1>1, <1>2 DEF Carries
  <1>4. r.ask.kind \in {"evaluate", "adjust", "sync", "recommend"}
    BY Kinds DEF RequestOK
  <1>5. Stores(f) => Stores(r)
    BY <1>1, <1>3, <1>4 DEF Stores
  <1>6. Needs(f) => Needs(r) \/ r.pc \in {"save", "get_profile"}
    <2>1. CASE r.ask.kind \in {"evaluate", "sync"}
      BY <1>1, <2>1 DEF Needs
    <2>2. CASE r.ask.kind = "adjust"
      BY <2>2 DEF RequestOK, StepsOf, Needs
    <2>3. CASE r.ask.kind = "recommend"
      BY <1>1, <1>3, <2>3 DEF Needs
    <2> QED
      BY <1>4, <2>1, <2>2, <2>3
  <1>7. r.pc # "read_power" => RequestOK(f)
    BY <1>1, <1>3, <1>5 DEF RequestOK, Carries
  <1> QED
    BY <1>1, <1>3, <1>5, <1>6, <1>7 DEF Evaluates

\* What is known of a request under way.
LEMMA KnownRequest ==
    ASSUME ProvidersInv, NEW h \in Slot, Busy(h), NEW r, r = handlers[h]
    PROVE  /\ RequestOK(r) /\ r.p \in Provider /\ r.w \in Worker
           /\ Needs(r) => profiles[r.p] \in Profile
           /\ Stores(r) => Together(r.p, r.profile.by)
           /\ Stores(r) => r.profile \in Profile
  BY DEF ProvidersInv, InFlight, ProfileKept, StoredOwn, RequestOK, Needs, At, TypeOK

\* What a step says of seen.
SeenStep == seen' \in [crowded : SUBSET Provider, mixed : SUBSET Provider, torn : SUBSET Provider, synced : SUBSET Provider]
            /\ seen'.mixed = seen.mixed

\* Marking a provider as crowded or torn is such a step, and so is leaving seen alone.
LEMMA SeenSteps ==
    ASSUME ProvidersInv
    PROVE  /\ \A ps \in SUBSET Provider : Mark("torn", ps) => SeenStep
           /\ \A ps \in SUBSET Provider : Mark("crowded", ps) => SeenStep
           /\ seen' = seen => SeenStep
  BY DEF ProvidersInv, TypeOK, Mark, SeenStep

\* A step that stores nothing and changes one request keeps the invariant.
LEMMA QuietMove ==
    ASSUME ProvidersInv, NEW h \in Slot, NEW r, r = Idle \/ RequestOK(r), Goes(h, r),
           UNCHANGED <<tables, agents, scenario>>, requests' \in Nat, SeenStep,
           r # Idle => (Needs(r) => profiles[r.p] # Nil),
           r # Idle => (Evaluates(r) => Evaluating(h) /\ r.p = handlers[h].p /\ r.w = handlers[h].w),
           r # Idle => (Stores(r) => Together(r.p, r.profile.by))
    PROVE  ProvidersInv'
  <1>1. TypeOK'
    BY DEF ProvidersInv, TypeOK, tables, SeenStep
  <1>2. VectorBacked'
    BY DEF ProvidersInv, VectorBacked, tables, SeenStep
  <1> QED
    BY <1>1, <1>2, MoveInv DEF Goes, tables, SeenStep

\* A request that ends and stores nothing with its last step.
LEMMA EndInv ==
    ASSUME ProvidersInv, NEW h \in Slot, Goes(h, Idle),
           UNCHANGED <<tables, agents, scenario, requests>>, SeenStep
    PROVE  ProvidersInv'
  <1>1. requests' \in Nat
    BY DEF ProvidersInv, TypeOK
  <1> QED
    BY <1>1, QuietMove

\* A request goes on to its next step and stores nothing: found, old or what was read may
\* be new.
LEMMA GoOnInv ==
    ASSUME ProvidersInv, NEW h \in Slot, Busy(h), ~Evaluating(h), ~At(h, "begin"),
           ~At(h, "read_power"), ~At(h, "save"), Following(handlers[h]) # Idle,
           At(h, "get_profile") => profiles[handlers[h].p] # Nil,
           NEW field \in {"found", "old"}, NEW value, field = "old" => value \in Int,
           Goes(h, [Following(handlers[h]) EXCEPT ![field] = value]),
           UNCHANGED <<tables, agents, scenario, requests>>, SeenStep
    PROVE  ProvidersInv'
  <1> DEFINE r == handlers[h]
             f == Following(r)
             g == [f EXCEPT ![field] = value]
  <1>1. RequestOK(r) /\ (Needs(r) => profiles[r.p] # Nil)
    BY KnownRequest, NilAssumption
  <1>2. r.pc \notin {"begin", "answer", "tool", "collect", "save", "read_power"}
    BY DEF Evaluating, At, Busy
  <1>3. /\ DOMAIN f = Carries
        /\ f.ask = r.ask /\ f.p = r.p /\ f.w = r.w /\ f.n = r.n /\ f.profile = r.profile
        /\ ~Evaluates(f) /\ (Needs(f) => Needs(r) \/ r.pc \in {"save", "get_profile"})
        /\ (Stores(f) => Stores(r)) /\ RequestOK(f)
    BY <1>1, <1>2, FollowOK
  <1>4. Stores(r) => Together(r.p, r.profile.by)
    BY KnownRequest
  <1> HIDE DEF f
  <1>5. /\ DOMAIN g = Carries /\ g.pc = f.pc /\ g.tool = f.tool /\ g.read = f.read
        /\ g.ask = f.ask /\ g.p = f.p /\ g.w = f.w /\ g.n = f.n /\ g.profile = f.profile
        /\ g.old \in Int
    BY <1>3 DEF Carries, RequestOK
  <1>6. RequestOK(g)
    BY <1>3, <1>5 DEF RequestOK, Carries, Stores
  <1>7. /\ Needs(g) => profiles[g.p] # Nil
        /\ ~Evaluates(g)
        /\ Stores(g) => Together(g.p, g.profile.by)
    BY <1>1, <1>2, <1>3, <1>4, <1>5 DEF Needs, Evaluates, Stores, At
  <1>8. requests' \in Nat
    BY DEF ProvidersInv, TypeOK
  <1>9. Goes(h, g)
    BY DEF f
  <1> HIDE DEF g
  <1> QED
    BY <1>6, <1>7, <1>8, <1>9, QuietMove

\* A request comes in: it has written nothing and evaluates nothing yet.
LEMMA ArriveInv ==
    ASSUME ProvidersInv, NEW h \in Slot, Arrive(h)
    PROVE  ProvidersInv'
  <1>1. PICK p \in Provider, w \in Worker, ask \in scenario.asked[requests + 1] :
            /\ Goes(h, [pc |-> FirstStep(ask.kind), ask |-> ask, p |-> p, w |-> w, n |-> requests', iteration |-> 0,
                        tool |-> Nil, old |-> 0, read |-> Nil, found |-> <<>>,
                        profile |-> IF ask.kind = "sync" THEN SyncedProfile(ask.skills) ELSE Nil])
            /\ Mark("crowded", IF ask.kind # "recommend" /\ \E g \in Slot : Rates(g, p) THEN {p} ELSE {})
    BY DEF Arrive
  <1> DEFINE r == [pc |-> FirstStep(ask.kind), ask |-> ask, p |-> p, w |-> w, n |-> requests', iteration |-> 0,
                   tool |-> Nil, old |-> 0, read |-> Nil, found |-> <<>>,
                   profile |-> IF ask.kind = "sync" THEN SyncedProfile(ask.skills) ELSE Nil]
  <1>2. scenario \in Scenarios /\ requests \in Nat /\ requests < Len(scenario.asked) /\ requests' = requests + 1
    BY DEF ProvidersInv, TypeOK, Arrive
  <1>3. ask \in Ask /\ (ask.kind = "sync" => scenario.team \in Team)
    <2>1. scenario.asked \in Seq(SUBSET Ask) /\ requests + 1 \in 1..Len(scenario.asked)
      BY <1>2, ScenarioAssumption
    <2>2. scenario.asked[requests + 1] \in SUBSET Ask
      BY <2>1
    <2> QED
      BY <1>2, <2>1, <2>2, ScenarioAssumption
  <1>4. ask.kind = "sync" => SyncedProfile(ask.skills) \in Profile /\ SyncedProfile(ask.skills).by = {}
    BY <1>3, Kinds DEF SyncedProfile, Profile, Team
  <1>5. /\ ask.kind \in {"evaluate", "adjust", "sync", "recommend"}
        /\ r.pc \in {"begin", "get_profile", "save", "demand"} /\ (r.pc = "save" => ask.kind = "sync")
        /\ r.pc \in StepsOf(ask.kind)
    BY <1>3, Kinds DEF FirstStep, StepsOf
  <1>6. RequestOK(r) /\ (Stores(r) => r.profile.by = {})
    BY <1>2, <1>3, <1>4, <1>5 DEF RequestOK, Stores
  <1>7. SeenStep
    BY <1>1, SeenSteps
  <1>8. UNCHANGED <<tables, agents, scenario>> /\ requests' \in Nat
    BY <1>2 DEF Arrive
  <1>9. ~Needs(r) /\ ~Evaluates(r)
    BY <1>5 DEF Needs, Evaluates
  <1>10. Goes(h, r)
    BY <1>1
  <1> HIDE DEF r
  <1> QED
    BY <1>6, <1>7, <1>8, <1>9, <1>10, QuietMove DEF Together

\* The fields are reset; whoever evaluates in the same process is marked, and so is h.
LEMMA BeginInv ==
    ASSUME ProvidersInv, NEW h \in Slot, BeginEvaluation(h)
    PROVE  ProvidersInv'
  <1> DEFINE r == handlers[h]
             others == {g \in Slot \ {h} : Evaluating(g) /\ handlers[g].w = r.w}
             marked == IF others = {} THEN {} ELSE {r.p} \cup {handlers[g].p : g \in others}
  <1>1. Busy(h) /\ r.pc = "begin"
    BY DEF BeginEvaluation, At, Busy
  <1>2. RequestOK(r) /\ r.p \in Provider /\ r.w \in Worker
    BY <1>1, KnownRequest
  <1>3. PICK pc \in {"answer", "collect"} : handlers' = [handlers EXCEPT ![h] = [r EXCEPT !.pc = pc]]
    BY DEF BeginEvaluation, Goes, To
  <1> DEFINE s == [r EXCEPT !.pc = pc]
  <1>4. r.ask.kind = "evaluate"
    BY <1>1, <1>2, Kinds DEF RequestOK, StepsOf
  <1>5. /\ DOMAIN s = Carries /\ s.pc = pc /\ s.ask = r.ask /\ s.p = r.p /\ s.w = r.w /\ s.n = r.n /\ s.old = r.old
    BY <1>2 DEF RequestOK, Carries
  <1>6. RequestOK(s) /\ ~Needs(s) /\ ~Stores(s) /\ s.pc # "idle"
    BY <1>2, <1>3, <1>4, <1>5 DEF RequestOK, Carries, StepsOf, Stores, Needs
  <1> HIDE DEF s
  <1>7. handlers'[h] = s /\ \A g \in Slot \ {h} : handlers'[g] = handlers[g]
    BY <1>3 DEF ProvidersInv, InFlight, s
  <1>8. \A g \in Slot : Evaluating(g) => handlers[g].p \in Provider /\ handlers[g].w \in Worker
    BY KnownRequest DEF Evaluating
  <1>9. marked \subseteq Provider /\ seen' = [seen EXCEPT !.mixed = @ \cup marked]
    BY <1>2, <1>8 DEF BeginEvaluation, Mark
  <1> HIDE DEF marked
  <1>10. /\ seen'.mixed = seen.mixed \cup marked
         /\ seen' \in [crowded : SUBSET Provider, mixed : SUBSET Provider, torn : SUBSET Provider, synced : SUBSET Provider]
    BY <1>9 DEF ProvidersInv, TypeOK
  <1>11. agents' = [agents EXCEPT ![r.w] = NoFields] /\ UNCHANGED <<tables, scenario, requests>>
    BY DEF BeginEvaluation, Reset
  <1>12. TypeOK'
    BY <1>10, <1>11, FieldsTyped DEF ProvidersInv, TypeOK, tables
  <1>13. InFlight'
    BY <1>3, <1>6, <1>7 DEF ProvidersInv, InFlight, Busy, At
  <1>14. ProfileKept'
    BY <1>6, <1>7, <1>11 DEF ProvidersInv, ProfileKept, Needs, At, tables
  <1>15. \A g \in Slot \ {h} : Evaluating(g)' <=> Evaluating(g)
    BY <1>7 DEF Evaluating, Busy, At
  <1>16. MixedMarked'
    <2>1. SUFFICES ASSUME NEW g \in Slot, NEW k \in Slot, g # k, Evaluating(g)', Evaluating(k)',
                          handlers'[g].w = handlers'[k].w
                   PROVE  handlers'[k].p \in seen'.mixed
      BY DEF MixedMarked
    <2>2. CASE g # h /\ k # h
      BY <1>7, <1>10, <1>15, <2>1, <2>2 DEF ProvidersInv, MixedMarked
    <2>3. CASE k = h
      <3>1. g \in others
        BY <1>5, <1>7, <1>15, <2>1, <2>3
      <3> QED
        BY <1>5, <1>7, <1>10, <2>3, <3>1 DEF marked
    <2>4. CASE g = h
      <3>1. k \in others
        BY <1>5, <1>7, <1>15, <2>1, <2>4
      <3> QED
        BY <1>7, <1>10, <2>1, <2>4, <3>1 DEF marked
    <2> QED
      BY <2>2, <2>3, <2>4
  <1>17. FieldsOwn'
    <2>1. SUFFICES ASSUME NEW g \in Slot, Evaluating(g)',
                          NEW q \in {agents'[handlers'[g].w].parsed, agents'[handlers'[g].w].scored,
                                     agents'[handlers'[g].w].reported} \ {handlers'[g].p, Nil}
                   PROVE  {handlers'[g].p, q} \subseteq seen'.mixed
      BY DEF FieldsOwn, Together
    <2>2. handlers'[g].w \in Worker
      BY <1>2, <1>5, <1>7, <1>8, <1>15, <2>1
    <2>3. CASE handlers'[g].w = r.w
      <3>1. agents'[handlers'[g].w] = NoFields
        BY <1>2, <1>11, <2>3 DEF ProvidersInv, TypeOK
      <3> QED
        BY <2>1, <3>1 DEF NoFields
    <2>4. CASE handlers'[g].w # r.w
      <3>1. g # h
        BY <1>5, <1>7, <2>4
      <3>2. agents'[handlers'[g].w] = agents[handlers'[g].w]
        BY <1>11, <2>2, <2>4 DEF ProvidersInv, TypeOK
      <3> QED
        BY <1>7, <1>10, <1>15, <2>1, <3>1, <3>2 DEF ProvidersInv, FieldsOwn, Together
    <2> QED
      BY <2>3, <2>4
  <1>18. StoredOwn'
    BY <1>6, <1>7, <1>10 DEF ProvidersInv, StoredOwn, Together, Busy, At
  <1>19. VectorBacked'
    BY <1>10, <1>11 DEF ProvidersInv, VectorBacked, tables
  <1> QED
    BY <1>12, <1>13, <1>14, <1>16, <1>17, <1>18, <1>19 DEF ProvidersInv

\* An evaluation under way is a request to evaluate.
LEMMA EvaluatingAsk ==
    ASSUME ProvidersInv, NEW h \in Slot, Evaluating(h), NEW r, r = handlers[h]
    PROVE  /\ RequestOK(r) /\ r.p \in Provider /\ r.w \in Worker
           /\ r.ask.kind = "evaluate" /\ r.ask.stream \in BOOLEAN
           /\ DOMAIN r = Carries /\ r.pc \in {"answer", "tool", "collect"}
  <1>1. RequestOK(r) /\ r.p \in Provider /\ r.w \in Worker /\ r.pc \in {"answer", "tool", "collect"}
    BY KnownRequest DEF Evaluating
  <1>2. r.ask \in Ask /\ r.ask.kind \in {"evaluate", "adjust", "sync", "recommend"}
    BY <1>1, Kinds DEF RequestOK
  <1>3. r.ask.kind = "evaluate"
    BY <1>1, <1>2 DEF RequestOK, StepsOf
  <1> QED
    BY <1>1, <1>2, <1>3, Kinds DEF RequestOK, Carries

\* A tool writes to the fields of its process: to another evaluation there only if it is
\* marked.
LEMMA ToolInv ==
    ASSUME ProvidersInv, NEW h \in Slot, Evaluating(h), NEW answer \in Answer,
           agents' = [agents EXCEPT ![handlers[h].w] = Executed(@, handlers[h].p, answer)],
           Goes(h, Continues(handlers[h])),
           UNCHANGED <<tables, scenario, requests, seen>>
    PROVE  ProvidersInv'
  <1> DEFINE r == handlers[h]
             s == Continues(r)
  <1>1. /\ RequestOK(r) /\ r.p \in Provider /\ r.w \in Worker /\ r.ask.kind = "evaluate"
        /\ DOMAIN r = Carries
    BY EvaluatingAsk
  <1>2. /\ DOMAIN s = Carries /\ s.pc \in {"answer", "collect"} /\ s.ask = r.ask /\ s.p = r.p /\ s.w = r.w
        /\ s.n = r.n /\ s.old = r.old
    BY <1>1 DEF Continues, Carries
  <1>3. RequestOK(s) /\ ~Needs(s) /\ ~Stores(s) /\ s.pc # "idle"
    BY <1>1, <1>2 DEF RequestOK, Carries, StepsOf, Needs, Stores
  <1>4. handlers' = [handlers EXCEPT ![h] = s]
    BY DEF Goes
  <1> HIDE DEF s
  <1>5. handlers'[h] = s /\ \A g \in Slot \ {h} : handlers'[g] = handlers[g]
    BY <1>4 DEF ProvidersInv, InFlight
  <1>6. \A g \in Slot : /\ Evaluating(g)' <=> Evaluating(g)
                        /\ Evaluating(g) => handlers'[g].p = handlers[g].p /\ handlers'[g].w = handlers[g].w
    BY <1>2, <1>5 DEF Evaluating, Busy, At
  <1>7. agents[r.w] \in Fields
    BY <1>1 DEF ProvidersInv, TypeOK
  <1>8. /\ Executed(agents[r.w], r.p, answer) \in Fields
        /\ \A f \in {"parsed", "scored", "reported"} :
              Executed(agents[r.w], r.p, answer)[f] \in {r.p, agents[r.w][f]}
    BY <1>1, <1>7, ToolTyped
  <1>9. TypeOK'
    BY <1>8 DEF ProvidersInv, TypeOK, tables
  <1>10. InFlight'
    BY <1>3, <1>4, <1>5 DEF ProvidersInv, InFlight, Busy, At
  <1>11. ProfileKept'
    BY <1>3, <1>5 DEF ProvidersInv, ProfileKept, Needs, At, tables
  <1>12. MixedMarked'
    BY <1>6 DEF ProvidersInv, MixedMarked
  <1>13. FieldsOwn'
    <2>1. SUFFICES ASSUME NEW g \in Slot, Evaluating(g),
                          NEW q \in {agents'[handlers[g].w].parsed, agents'[handlers[g].w].scored,
                                     agents'[handlers[g].w].reported} \ {handlers[g].p, Nil}
                   PROVE  {handlers[g].p, q} \subseteq seen.mixed
      BY <1>6 DEF FieldsOwn, Together
    <2>2. \A x \in {agents[handlers[g].w].parsed, agents[handlers[g].w].scored,
                   agents[handlers[g].w].reported} \ {handlers[g].p, Nil} :
             {handlers[g].p, x} \subseteq seen.mixed
      BY <2>1 DEF ProvidersInv, FieldsOwn, Together
    <2>3. handlers[g].w \in Worker
      BY <2>1, EvaluatingAsk
    <2>4. CASE handlers[g].w # r.w
      BY <2>1, <2>2, <2>3, <2>4 DEF ProvidersInv, TypeOK
    <2>5. CASE handlers[g].w = r.w
      <3>1. agents'[r.w] = Executed(agents[r.w], r.p, answer)
        BY <1>1 DEF ProvidersInv, TypeOK
      <3>2. q \in {r.p, agents[r.w].parsed, agents[r.w].scored, agents[r.w].reported}
        BY <1>8, <2>1, <2>5, <3>1
      <3>3. CASE q # r.p
        BY <2>1, <2>2, <2>5, <3>2, <3>3
      <3>4. CASE q = r.p
        BY <2>1, <2>5, <3>4 DEF ProvidersInv, MixedMarked
      <3> QED
        BY <3>3, <3>4
    <2> QED
      BY <2>4, <2>5
  <1>14. StoredOwn'
    BY <1>3, <1>5 DEF ProvidersInv, StoredOwn, Together, Busy, At
  <1>15. VectorBacked'
    BY DEF ProvidersInv, VectorBacked, tables
  <1> QED
    BY <1>9, <1>10, <1>11, <1>12, <1>13, <1>14, <1>15 DEF ProvidersInv

\* An evaluation that waits for a tool, or for its end, moves without storing anything.
LEMMA WaitInv ==
    ASSUME ProvidersInv, NEW h \in Slot, Evaluating(h),
           NEW s, s = [handlers[h] EXCEPT !.pc = "collect"]
                  \/ (\E answer \in Answer : s = [handlers[h] EXCEPT !.pc = "tool", !.tool = answer]),
           Goes(h, s), UNCHANGED <<tables, agents, scenario, requests, seen>>
    PROVE  ProvidersInv'
  <1> DEFINE r == handlers[h]
  <1>1. /\ RequestOK(r) /\ r.p \in Provider /\ r.w \in Worker /\ r.ask.kind = "evaluate"
        /\ DOMAIN r = Carries
    BY EvaluatingAsk
  <1>2. /\ DOMAIN s = Carries /\ s.pc \in {"tool", "collect"} /\ s.ask = r.ask /\ s.p = r.p /\ s.w = r.w
        /\ s.n = r.n /\ s.old = r.old /\ (s.pc = "tool" => s.tool \in Answer)
    BY <1>1 DEF Carries
  <1>3. RequestOK(s) /\ ~Needs(s) /\ ~Stores(s)
    BY <1>1, <1>2 DEF RequestOK, Carries, StepsOf, Needs, Stores
  <1>4. requests' \in Nat /\ SeenStep
    BY SeenSteps DEF ProvidersInv, TypeOK
  <1> QED
    BY <1>2, <1>3, <1>4, QuietMove

\* The model's answer and the tool it asks for.
LEMMA AnswersInv ==
    ASSUME ProvidersInv, NEW h \in Slot, AnswerText(h) \/ AnswerTool(h) \/ ExecuteTool(h)
    PROVE  ProvidersInv'
  <1>1. Evaluating(h)
    BY DEF AnswerText, AnswerTool, ExecuteTool, Evaluating, At, Busy
  <1>2. CASE AnswerText(h)
    BY <1>1, <1>2, WaitInv DEF AnswerText, To
  <1>3. CASE AnswerTool(h)
    <2>1. PICK answer \in scenario.answers :
            IF handlers[h].ask.stream
            THEN Goes(h, [To(handlers[h], "tool") EXCEPT !.tool = answer]) /\ UNCHANGED agents
            ELSE /\ agents' = [agents EXCEPT ![handlers[h].w] = Executed(@, handlers[h].p, answer)]
                 /\ Goes(h, Continues(handlers[h]))
      BY <1>3 DEF AnswerTool
    <2>2. answer \in Answer
      BY ScenarioAssumption DEF ProvidersInv, TypeOK
    <2>3. UNCHANGED <<tables, scenario, requests, seen>>
      BY <1>3 DEF AnswerTool
    <2>4. CASE handlers[h].ask.stream
      <3>1. Goes(h, [handlers[h] EXCEPT !.pc = "tool", !.tool = answer]) /\ UNCHANGED agents
        BY <2>1, <2>4 DEF To
      <3> QED
        BY <1>1, <2>2, <2>3, <3>1, WaitInv
    <2>5. CASE ~handlers[h].ask.stream
      BY <1>1, <2>1, <2>2, <2>3, <2>5, ToolInv
    <2> QED
      BY <2>4, <2>5
  <1>4. CASE ExecuteTool(h)
    <2>1. handlers[h].pc = "tool" /\ handlers[h].tool \in Answer
      BY <1>1, <1>4, EvaluatingAsk DEF ExecuteTool, At, RequestOK
    <2> QED
      BY <1>1, <1>4, <2>1, ToolInv DEF ExecuteTool
  <1> QED
    BY <1>2, <1>3, <1>4

\* The profile is made of the fields of the process: its own, unless the request is marked.
LEMMA CollectInv ==
    ASSUME ProvidersInv, NEW h \in Slot, Collect(h) \/ EndStream(h)
    PROVE  ProvidersInv'
  <1> DEFINE r == handlers[h]
             profile == build_profile_data(agents[r.w])
             s == [r EXCEPT !.pc = "save", !.profile = profile]
  <1>1. Evaluating(h) /\ UNCHANGED <<tables, agents, scenario, requests, seen>>
    BY DEF Collect, EndStream, Evaluating, At, Busy
  <1>2. SeenStep /\ requests' \in Nat
    BY <1>1, SeenSteps DEF ProvidersInv, TypeOK
  <1>3. CASE Goes(h, Idle)
    BY <1>1, <1>2, <1>3, EndInv
  <1>4. CASE Goes(h, s)
    <2>1. /\ RequestOK(r) /\ r.p \in Provider /\ r.w \in Worker /\ r.ask.kind = "evaluate"
          /\ DOMAIN r = Carries
      BY <1>1, EvaluatingAsk
    <2>2. agents[r.w] \in Fields
      BY <2>1 DEF ProvidersInv, TypeOK
    <2>3. profile \in Profile
      BY <2>2, ProfileBuilt
    <2>4. Together(r.p, profile.by)
      <3>1. Together(r.p, {agents[r.w].parsed, agents[r.w].scored, agents[r.w].reported})
        BY <1>1 DEF ProvidersInv, FieldsOwn
      <3> QED
        BY <3>1 DEF build_profile_data, Together
    <2> HIDE DEF profile
    <2>5. /\ DOMAIN s = Carries /\ s.pc = "save" /\ s.ask = r.ask /\ s.p = r.p /\ s.w = r.w
          /\ s.n = r.n /\ s.old = r.old /\ s.profile = profile
      BY <2>1 DEF Carries
    <2>6. RequestOK(s) /\ ~Needs(s) /\ ~Evaluates(s)
      BY <2>1, <2>3, <2>5 DEF RequestOK, Carries, StepsOf, Needs, Evaluates
    <2> HIDE DEF s
    <2>7. Goes(h, s)
      BY <1>4
    <2> QED
      BY <1>1, <1>2, <2>4, <2>5, <2>6, <2>7, QuietMove
  <1> QED
    BY <1>3, <1>4 DEF Collect, EndStream, Collected, To

\* A request that goes on to its next step, or ends, after it has stored something: what is
\* left to show is about the tables alone.
LEMMA StoreInv ==
    ASSUME ProvidersInv, NEW h \in Slot, Busy(h), ~Evaluating(h), ~At(h, "begin"),
           ~At(h, "read_power"), ~At(h, "get_profile"),
           Goes(h, Following(handlers[h])) \/ Goes(h, Idle), agents' = agents, SeenStep,
           TypeOK', VectorBacked',
           \A p \in Provider : profiles[p] # Nil => profiles'[p] # Nil,
           At(h, "save") => profiles'[handlers[h].p] # Nil
    PROVE  ProvidersInv'
  <1> DEFINE r == handlers[h]
             f == Following(r)
  <1>1. /\ RequestOK(r) /\ r.p \in Provider /\ (Needs(r) => profiles[r.p] # Nil)
        /\ (Stores(r) => Together(r.p, r.profile.by))
    BY KnownRequest, NilAssumption
  <1>2. r.pc \notin {"begin", "answer", "tool", "collect", "read_power", "get_profile"}
    BY DEF Evaluating, At, Busy
  <1>3. CASE Goes(h, Idle) \/ f = Idle
    BY <1>3, MoveInv DEF Goes, SeenStep
  <1>4. CASE Goes(h, f) /\ f # Idle
    <2>1. /\ f.p = r.p /\ f.profile = r.profile /\ ~Evaluates(f) /\ (Stores(f) => Stores(r))
          /\ (Needs(f) => Needs(r) \/ r.pc = "save") /\ RequestOK(f)
      BY <1>1, <1>2, <1>4, FollowOK
    <2>2. Needs(f) => profiles'[f.p] # Nil
      BY <1>1, <2>1 DEF At
    <2> HIDE DEF f
    <2> QED
      BY <1>1, <1>4, <2>1, <2>2, MoveInv DEF Goes, SeenStep
  <1> QED
    BY <1>3, <1>4

\* A profile is stored, of its own provider's evaluation unless the provider is marked.
LEMMA SaveInv ==
    ASSUME ProvidersInv, NEW h \in Slot, save_provider_profile(h)
    PROVE  ProvidersInv'
  <1> DEFINE r == handlers[h]
  <1>1. Busy(h) /\ r.pc = "save"
    BY DEF save_provider_profile, At, Busy
  <1>2. RequestOK(r) /\ r.p \in Provider
    BY <1>1, KnownRequest
  <1>3. r.ask.kind # "adjust"
    BY <1>1, <1>2 DEF RequestOK, StepsOf
  <1>4. r.profile \in Profile
    BY <1>1, <1>3, KnownRequest DEF Stores
  <1>5. /\ profiles' = [profiles EXCEPT ![r.p] = r.profile]
        /\ UNCHANGED <<logs, teams, vectors, results, agents, scenario, requests>>
    BY DEF save_provider_profile, SavedProfile
  <1>6. SeenStep
    BY <1>2 DEF save_provider_profile, ProvidersInv, TypeOK, SeenStep
  <1>7. TypeOK'
    BY <1>2, <1>4, <1>5, <1>6 DEF ProvidersInv, TypeOK, SeenStep
  <1>8. /\ profiles'[r.p] = r.profile /\ r.profile # Nil
        /\ \A p \in Provider \ {r.p} : profiles'[p] = profiles[p]
    BY <1>2, <1>4, <1>5, NilAssumption DEF ProvidersInv, TypeOK
  <1>10. VectorBacked'
    BY <1>5, <1>8 DEF ProvidersInv, VectorBacked, TypeOK
  <1> QED
    BY <1>1, <1>5, <1>6, <1>7, <1>8, <1>10, StoreInv
    DEF save_provider_profile, At, Evaluating

\* The history and the team row: neither touches a profile.
LEMMA LogTeamInv ==
    ASSUME ProvidersInv, NEW h \in Slot, add_power_log(h) \/ sync_profile_to_team(h)
    PROVE  ProvidersInv'
  <1> DEFINE r == handlers[h]
  <1>1. Busy(h) /\ r.pc \in {"log", "team"}
    BY DEF add_power_log, sync_profile_to_team, At, Busy
  <1>2. RequestOK(r) /\ r.p \in Provider /\ r.ask \in Ask /\ r.old \in Int
    BY <1>1, KnownRequest DEF RequestOK
  <1>3. r.ask.kind \in {"evaluate", "adjust"}
    BY <1>1, <1>2, Kinds DEF RequestOK, StepsOf
  <1>4. /\ r.ask.kind = "evaluate" => r.profile \in Profile
        /\ r.ask.kind = "adjust" => r.ask.points \in Int
    BY <1>1, <1>2, Kinds DEF RequestOK, Stores
  <1>5. LogEntry(r) \in [initial : BOOLEAN, points : Int]
    BY <1>3, <1>4 DEF LogEntry, Profile
  <1>6. TeamRow(r) \in Team
    <2>1. CASE r.ask.kind = "evaluate"
      BY <1>4, <2>1 DEF TeamRow, Team, Profile
    <2>2. CASE r.ask.kind = "adjust"
      <3>1. NewPower(r) \in Int
        BY <1>2, <1>4, <2>2 DEF NewPower, AtLeast
      <3>2. NewLevel(r) \in Level
        BY <3>1, LevelIsOne DEF NewLevel
      <3> QED
        BY <2>2, <3>1, <3>2 DEF TeamRow, Team
    <2> QED
      BY <1>3, <2>1, <2>2
  <1>7. UNCHANGED <<profiles, vectors, results, agents, scenario, requests, seen>>
    BY DEF add_power_log, sync_profile_to_team
  <1>8. logs' \in [Provider -> Seq([initial : BOOLEAN, points : Int])] /\ teams' \in [Provider -> Team \cup {Nil}]
    <2>1. CASE add_power_log(h)
      <3>1. logs[r.p] \in Seq([initial : BOOLEAN, points : Int])
        BY <1>2 DEF ProvidersInv, TypeOK
      <3>2. Append(logs[r.p], LogEntry(r)) \in Seq([initial : BOOLEAN, points : Int])
        BY <1>5, <3>1
      <3> QED
        BY <2>1, <3>2 DEF add_power_log, ProvidersInv, TypeOK
    <2>2. CASE sync_profile_to_team(h)
      BY <1>6, <2>2 DEF sync_profile_to_team, ProvidersInv, TypeOK
    <2> QED
      BY <2>1, <2>2
  <1>9. TypeOK' /\ VectorBacked' /\ SeenStep
    BY <1>7, <1>8 DEF ProvidersInv, TypeOK, VectorBacked, SeenStep
  <1> QED
    BY <1>1, <1>7, <1>9, StoreInv DEF add_power_log, sync_profile_to_team, At, Evaluating

\* The vector: deleting it needs nothing, and who inserts one has a profile.
LEMMA VectorInv ==
    ASSUME ProvidersInv, NEW h \in Slot, DeleteVector(h) \/ InsertVector(h)
    PROVE  ProvidersInv'
  <1> DEFINE r == handlers[h]
             v == [p |-> r.p, n |-> r.n, skills |-> r.profile.skills.names, credit |-> r.profile.power]
  <1>1. Busy(h) /\ r.pc \in {"delete", "insert"}
    BY DEF DeleteVector, InsertVector, At, Busy
  <1>2. RequestOK(r) /\ r.p \in Provider /\ r.n \in Nat /\ profiles[r.p] # Nil
    BY <1>1, KnownRequest, NilAssumption DEF RequestOK, Needs
  <1>3. r.ask.kind # "adjust"
    BY <1>1, <1>2 DEF RequestOK, StepsOf
  <1>4. r.profile \in Profile
    BY <1>1, <1>3, KnownRequest DEF Stores
  <1>5. v \in [p : Provider, n : Nat, skills : SUBSET Skill, credit : Int] /\ v.p = r.p
    BY <1>2, <1>4 DEF Profile, Skills
  <1> HIDE DEF v
  <1>6. vectors' \subseteq vectors \cup {v}
    BY DEF DeleteVector, InsertVector, Cleared, v
  <1>7. UNCHANGED <<profiles, logs, teams, results, agents, scenario, requests, seen>>
    BY DEF DeleteVector, InsertVector
  <1>8. TypeOK' /\ SeenStep
    BY <1>5, <1>6, <1>7 DEF ProvidersInv, TypeOK, SeenStep
  <1>9. VectorBacked'
    BY <1>2, <1>5, <1>6, <1>7 DEF ProvidersInv, VectorBacked
  <1> QED
    BY <1>1, <1>7, <1>8, <1>9, StoreInv DEF DeleteVector, InsertVector, At, Evaluating

\* The steps of a reader are followed by others.
LEMMA GoesOn ==
    ASSUME NEW r, RequestOK(r), r.pc \in {"get_profile", "read_power", "demand", "search", "enrich", "llm"}
    PROVE  /\ Following(r) # Idle
           /\ r.pc = "read_power" => Following(r) = [r EXCEPT !.pc = "write_power"] /\ r.ask.kind = "adjust"
  <1>1. DOMAIN r = Carries /\ r.ask.kind \in {"evaluate", "adjust", "sync", "recommend"}
    BY Kinds DEF RequestOK, Carries
  <1>2. \A pc : [r EXCEPT !.pc = pc] # Idle
    <2>1. \A pc : "p" \in DOMAIN [r EXCEPT !.pc = pc]
      BY <1>1 DEF Carries
    <2>2. "p" \notin DOMAIN Idle
      BY DEF Idle
    <2> QED
      BY <2>1, <2>2
  <1>3. CASE r.pc \in {"get_profile", "read_power"}
    <2>1. r.ask.kind = "adjust"
      BY <1>1, <1>3 DEF RequestOK, StepsOf
    <2> QED
      BY <1>2, <1>3, <2>1 DEF Following, To, Steps, adjust_points
  <1>4. CASE r.pc \in {"demand", "search", "enrich", "llm"}
    <2>1. r.ask.kind = "recommend"
      BY <1>1, <1>4 DEF RequestOK, StepsOf
    <2> QED
      BY <1>2, <1>4, <2>1 DEF Following, To, Steps, smart_match
  <1> QED
    BY <1>3, <1>4

\* An adjustment reads the profile twice and writes what changes of points and level.
LEMMA AdjustInv ==
    ASSUME ProvidersInv, NEW h \in Slot, GetProfile(h) \/ ReadPower(h) \/ WritePower(h)
    PROVE  ProvidersInv'
  <1> DEFINE r == handlers[h]
  <1>1. Busy(h) /\ r.pc \in {"get_profile", "read_power", "write_power"}
    BY DEF GetProfile, ReadPower, WritePower, At, Busy
  <1>2. /\ RequestOK(r) /\ r.p \in Provider /\ r.ask \in Ask /\ r.old \in Int
        /\ DOMAIN r = Carries /\ profiles[r.p] \in Profile \cup {Nil}
        /\ r.pc # "get_profile" => profiles[r.p] \in Profile
    BY <1>1, KnownRequest DEF RequestOK, Carries, ProvidersInv, TypeOK, Needs
  <1>3. r.ask.kind = "adjust" /\ r.ask.points \in Int
    BY <1>1, <1>2, Kinds DEF RequestOK, StepsOf
  <1>4. requests' \in Nat /\ SeenStep /\ UNCHANGED <<agents, scenario, requests, seen>>
    BY SeenSteps DEF GetProfile, ReadPower, WritePower, ProvidersInv, TypeOK
  <1>5. CASE GetProfile(h)
    <2>1. CASE profiles[r.p] = Nil
      BY <1>4, <1>5, <2>1, EndInv DEF GetProfile
    <2>2. CASE profiles[r.p] # Nil
      <3>1. profiles[r.p].power \in Int
        BY <1>2, <2>2 DEF Profile
      <3>2. Goes(h, [Following(r) EXCEPT !.old = profiles[r.p].power]) /\ r.pc = "get_profile" /\ UNCHANGED tables
        BY <1>5, <2>2 DEF GetProfile, At
      <3>3. Following(r) # Idle
        BY <1>2, <3>2, GoesOn
      <3> QED
        BY <1>1, <1>4, <2>2, <3>1, <3>2, <3>3, GoOnInv DEF At, Evaluating
    <2> QED
      BY <2>1, <2>2
  <1>6. CASE ReadPower(h)
    <2> DEFINE s == [[r EXCEPT !.pc = "write_power"] EXCEPT !.read = profiles[r.p]]
    <2>1. r.pc = "read_power" /\ UNCHANGED tables
      BY <1>6 DEF ReadPower, At
    <2>2. Goes(h, s)
      BY <1>2, <1>6, <2>1, GoesOn DEF ReadPower
    <2>3. /\ DOMAIN s = Carries /\ s.pc = "write_power" /\ s.ask = r.ask /\ s.p = r.p /\ s.w = r.w
          /\ s.n = r.n /\ s.old = r.old /\ s.read = profiles[r.p]
      BY <1>2 DEF Carries
    <2>4. RequestOK(s) /\ ~Stores(s) /\ ~Evaluates(s)
      BY <1>2, <1>3, <2>1, <2>3 DEF RequestOK, Carries, StepsOf, Stores, Evaluates
    <2> HIDE DEF s
    <2>5. profiles[s.p] # Nil
      BY <1>2, <2>1, <2>3, NilAssumption
    <2> QED
      BY <1>4, <2>1, <2>2, <2>4, <2>5, QuietMove
  <1>7. CASE WritePower(h)
    <2> DEFINE power == Written(profiles[r.p].power, r.read.power, Adjusted(r))
               level == Written(profiles[r.p].level, r.read.level, NewLevel(r))
    <2>1. r.pc = "write_power" /\ r.read \in Profile /\ profiles[r.p] \in Profile
      BY <1>2, <1>7 DEF WritePower, At, RequestOK
    <2>2. power \in Int
      BY <1>3, <2>1 DEF Written, Adjusted, AtLeast, Profile
    <2>3. level \in Level
      <3>1. NewPower(r) \in Int
        BY <1>2, <1>3 DEF NewPower, AtLeast
      <3>2. NewLevel(r) \in Level
        BY <3>1, LevelIsOne DEF NewLevel
      <3> QED
        BY <2>1, <3>2 DEF Written, Profile
    <2> DEFINE new == [profiles[r.p] EXCEPT !.power = power, !.level = level]
    <2>4. profiles' = [profiles EXCEPT ![r.p] = new]
      BY <1>2, <1>7, <2>1 DEF WritePower, ProvidersInv, TypeOK, Profile
    <2> HIDE DEF power, level
    <2>5. new \in Profile /\ new.by = profiles[r.p].by
      BY <2>1, <2>2, <2>3 DEF Profile
    <2> HIDE DEF new
    <2>6. /\ profiles'[r.p] = new /\ new # Nil
          /\ \A p \in Provider \ {r.p} : profiles'[p] = profiles[p]
      BY <1>2, <2>4, <2>5, NilAssumption DEF ProvidersInv, TypeOK
    <2>7. UNCHANGED <<logs, teams, vectors, results, seen>> /\ Goes(h, Following(r))
      BY <1>7 DEF WritePower
    <2>8. TypeOK'
      BY <1>2, <1>4, <2>4, <2>5, <2>7 DEF ProvidersInv, TypeOK
    <2>10. VectorBacked'
      BY <2>6, <2>7 DEF ProvidersInv, VectorBacked, TypeOK
    <2> QED
      BY <1>1, <1>2, <1>4, <2>1, <2>6, <2>7, <2>8, <2>10, StoreInv DEF At, Evaluating
  <1> QED
    BY <1>5, <1>6, <1>7

\* A search reads, and stores recommendations only.
LEMMA SearchInv ==
    ASSUME ProvidersInv, NEW h \in Slot,
           \/ GetDemand(h) \/ SearchVectors(h) \/ EnrichProviders(h)
           \/ GenerateRecommendations(h) \/ save_match_results(h)
    PROVE  ProvidersInv'
  <1> DEFINE r == handlers[h]
  <1>1. Busy(h) /\ r.pc \in {"demand", "search", "enrich", "llm", "save_results"}
    BY DEF GetDemand, SearchVectors, EnrichProviders, GenerateRecommendations, save_match_results, At, Busy
  <1>2. RequestOK(r)
    BY <1>1, KnownRequest
  <1>3. SeenStep /\ UNCHANGED <<profiles, logs, teams, vectors, agents, scenario, requests, seen>>
    BY SeenSteps
    DEF GetDemand, SearchVectors, EnrichProviders, GenerateRecommendations, save_match_results, tables
  <1>4. TypeOK' /\ VectorBacked'
    BY <1>3 DEF ProvidersInv, TypeOK, VectorBacked
  <1>5. CASE Goes(h, Following(r)) \/ Goes(h, Idle)
    BY <1>1, <1>3, <1>4, <1>5, StoreInv DEF At, Evaluating
  <1>6. ASSUME NEW found, Goes(h, [Following(r) EXCEPT !.found = found]), r.pc # "save_results", UNCHANGED tables
        PROVE  ProvidersInv'
    <2>1. Following(r) # Idle
      BY <1>1, <1>2, <1>6, GoesOn
    <2> QED
      BY <1>1, <1>3, <1>6, <2>1, GoOnInv DEF At, Evaluating
  <1>7. CASE GetDemand(h) \/ save_match_results(h)
    BY <1>5, <1>7 DEF GetDemand, save_match_results
  <1>8. CASE SearchVectors(h)
    BY <1>6, <1>8 DEF SearchVectors, At
  <1>9. CASE EnrichProviders(h)
    BY <1>5, <1>6, <1>9 DEF EnrichProviders, Enriched, At
  <1>10. CASE GenerateRecommendations(h)
    BY <1>5, <1>6, <1>10 DEF GenerateRecommendations, At
  <1> QED
    BY <1>7, <1>8, <1>9, <1>10

\* A failing store ends the request and undoes nothing; a search goes on without MySQL.
LEMMA TroubleInv ==
    ASSUME ProvidersInv, NEW h \in Slot, MySQLFails(h) \/ MilvusFails(h) \/ EvaluationFails(h)
    PROVE  ProvidersInv'
  <1> DEFINE r == handlers[h]
  <1>1. Busy(h) /\ UNCHANGED <<tables, agents, scenario, requests>>
    BY DEF MySQLFails, MilvusFails, EvaluationFails, Runs
  <1>2. RequestOK(r) /\ Broken(r) \subseteq Provider
    BY <1>1, KnownRequest DEF Broken
  <1>3. SeenStep
    BY <1>2, SeenSteps DEF MySQLFails, MilvusFails, EvaluationFails
  <1>4. CASE Goes(h, Idle)
    BY <1>1, <1>3, <1>4, EndInv
  <1>5. CASE At(h, "enrich") /\ \E users : Goes(h, Enriched(r, users))
    <2>1. Following(r) # Idle
      BY <1>2, <1>5, GoesOn DEF At
    <2>2. ASSUME NEW found, Goes(h, [Following(r) EXCEPT !.found = found]) PROVE ProvidersInv'
      BY <1>1, <1>3, <1>5, <2>1, <2>2, GoOnInv DEF At, Evaluating
    <2> QED
      BY <1>4, <1>5, <2>2 DEF Enriched
  <1> QED
    BY <1>4, <1>5 DEF MySQLFails, MilvusFails, EvaluationFails, OnError

\* A process starts again: its requests are gone and the fields of its agent empty.
LEMMA RestartInv ==
    ASSUME ProvidersInv, NEW w \in Worker, Restart(w)
    PROVE  ProvidersInv'
  <1> DEFINE lost == {h \in Slot : Busy(h) /\ handlers[h].w = w}
             broken == UNION {Broken(handlers[h]) : h \in lost}
  <1>1. /\ handlers' = [h \in Slot |-> IF h \in lost THEN Idle ELSE handlers[h]]
        /\ agents' = [agents EXCEPT ![w] = NoFields]
        /\ Mark("torn", broken)
        /\ UNCHANGED <<tables, scenario, requests>>
    BY DEF Restart
  <1>2. \A h \in lost : Broken(handlers[h]) \subseteq Provider
    BY KnownRequest DEF Broken
  <1>3. SeenStep
    <2>1. broken \in SUBSET Provider
      BY <1>2
    <2> QED
      BY <1>1, <2>1, SeenSteps
  <1>4. TypeOK'
    BY <1>1, <1>3, FieldsTyped DEF ProvidersInv, TypeOK, tables, SeenStep
  <1>5. \A h \in Slot : handlers'[h] = handlers[h] \/ (handlers'[h] = Idle /\ handlers'[h].pc = "idle")
    BY <1>1 DEF Idle
  <1>6. InFlight' /\ ProfileKept' /\ StoredOwn'
    <2>1. InFlight'
      BY <1>1, <1>5 DEF ProvidersInv, InFlight, Busy, At
    <2>2. ProfileKept'
      BY <1>1, <1>5 DEF ProvidersInv, ProfileKept, At, tables
    <2>3. StoredOwn'
      BY <1>3, <1>5 DEF ProvidersInv, StoredOwn, Together, Busy, At, SeenStep
    <2> QED
      BY <2>1, <2>2, <2>3
  <1>7. \A h \in Slot : Evaluating(h)' => Evaluating(h) /\ handlers'[h] = handlers[h] /\ handlers[h].w # w
    <2>1. SUFFICES ASSUME NEW h \in Slot, Evaluating(h)'
                   PROVE  Evaluating(h) /\ handlers'[h] = handlers[h] /\ handlers[h].w # w
      OBVIOUS
    <2>2. handlers'[h].pc \in {"answer", "tool", "collect"}
      BY <2>1 DEF Evaluating
    <2>3. handlers'[h] = handlers[h]
      BY <1>5, <2>2
    <2>4. h \notin lost
      BY <1>1, <2>2 DEF Idle
    <2> QED
      BY <2>2, <2>3, <2>4 DEF Evaluating, Busy, At
  <1>8. MixedMarked'
    BY <1>3, <1>7 DEF ProvidersInv, MixedMarked, SeenStep
  <1>9. FieldsOwn'
    <2>1. \A h \in Slot : Evaluating(h) => handlers[h].w \in Worker
      BY EvaluatingAsk
    <2>2. \A v \in Worker \ {w} : agents'[v] = agents[v]
      BY <1>1 DEF ProvidersInv, TypeOK
    <2> QED
      BY <1>3, <1>7, <2>1, <2>2 DEF ProvidersInv, FieldsOwn, Together, SeenStep
  <1>10. VectorBacked'
    BY <1>1, <1>3 DEF ProvidersInv, VectorBacked, tables, SeenStep
  <1> QED
    BY <1>4, <1>6, <1>8, <1>9, <1>10 DEF ProvidersInv

\* Every step keeps the invariant.
LEMMA StepInv ==
    ASSUME ProvidersInv, [Next]_vars
    PROVE  ProvidersInv'
  <1>1. CASE UNCHANGED vars
    BY <1>1 DEF ProvidersInv, TypeOK, InFlight, ProfileKept, MixedMarked, FieldsOwn, StoredOwn, Together,
                VectorBacked, Busy, At, Evaluating, vars, tables
  <1>2. ASSUME NEW h \in Slot,
               \/ Arrive(h) \/ BeginEvaluation(h) \/ AnswerText(h) \/ AnswerTool(h) \/ ExecuteTool(h)
               \/ Collect(h) \/ EndStream(h)
        PROVE  ProvidersInv'
    BY <1>2, ArriveInv, BeginInv, AnswersInv, CollectInv
  <1>3. ASSUME NEW h \in Slot,
               \/ save_provider_profile(h) \/ add_power_log(h) \/ sync_profile_to_team(h)
               \/ DeleteVector(h) \/ InsertVector(h) \/ GetProfile(h) \/ ReadPower(h) \/ WritePower(h)
        PROVE  ProvidersInv'
    BY <1>3, SaveInv, LogTeamInv, VectorInv, AdjustInv
  <1>4. ASSUME NEW h \in Slot,
               \/ GetDemand(h) \/ SearchVectors(h) \/ EnrichProviders(h) \/ GenerateRecommendations(h)
               \/ save_match_results(h) \/ MySQLFails(h) \/ MilvusFails(h) \/ EvaluationFails(h)
        PROVE  ProvidersInv'
    BY <1>4, SearchInv, TroubleInv
  <1>5. ASSUME NEW w \in Worker, Restart(w) PROVE ProvidersInv'
    BY <1>5, RestartInv
  <1> QED
    BY <1>1, <1>2, <1>3, <1>4, <1>5 DEF Next

\* Types, what requests carry, and whose the fields of each process are: the invariant holds
\* for any number of providers, processes and requests, whatever fails.
THEOREM ProvidersInvariant == Spec => []ProvidersInv
  BY InitInv, StepInv, PTL DEF Spec

\* The search never finds a provider who has no profile: rating_router.py 161-171 writes the
\* vector last, and a failed write ends the request.
THEOREM FoundAreRated == Spec => []VectorBacked
  BY ProvidersInvariant, PTL DEF ProvidersInv

\* What a request stores may stand together; an adjustment leaves alone whose the profile
\* is, and no step takes a mark away.
LEMMA FoundStep ==
    ASSUME ProvidersInv, FoundTogether, [Next]_vars
    PROVE  FoundTogether'
  <1>1. seen.mixed \subseteq seen'.mixed
    <2>1. seen \in [crowded : SUBSET Provider, mixed : SUBSET Provider, torn : SUBSET Provider,
                    synced : SUBSET Provider]
      BY DEF ProvidersInv, TypeOK
    <2>2. \A what \in {"crowded", "mixed", "torn"} : \A ps : Mark(what, ps) => seen.mixed \subseteq seen'.mixed
      BY <2>1 DEF Mark
    <2>3. UNCHANGED vars => seen' = seen
      BY DEF vars
    <2> QED
      BY <2>1, <2>2, <2>3 DEF Next, Arrive, BeginEvaluation, AnswerText, AnswerTool, ExecuteTool, Collect, EndStream,
         save_provider_profile, add_power_log, sync_profile_to_team, DeleteVector, InsertVector,
         GetProfile, ReadPower, WritePower, GetDemand, SearchVectors, EnrichProviders,
         GenerateRecommendations, save_match_results, MySQLFails, MilvusFails, EvaluationFails, Restart
  <1>2. CASE \E h \in Slot : save_provider_profile(h)
    <2>1. PICK h \in Slot : save_provider_profile(h)
      BY <1>2
    <2> DEFINE r == handlers[h]
    <2>2. Busy(h) /\ r.pc = "save"
      BY <2>1 DEF save_provider_profile, At, Busy
    <2>3. RequestOK(r) /\ r.p \in Provider
      BY <2>2, KnownRequest
    <2>4. Together(r.p, r.profile.by)
      BY <2>2, <2>3, KnownRequest DEF RequestOK, StepsOf, Stores
    <2>5. profiles' = [profiles EXCEPT ![r.p] = r.profile]
      BY <2>1 DEF save_provider_profile, SavedProfile
    <2>6. profiles'[r.p] = r.profile /\ \A p \in Provider \ {r.p} : profiles'[p] = profiles[p]
      BY <2>3, <2>5 DEF ProvidersInv, TypeOK
    <2> QED
      BY <1>1, <2>4, <2>6 DEF FoundTogether, Together
  <1>3. CASE \E h \in Slot : WritePower(h)
    <2>1. PICK h \in Slot : WritePower(h)
      BY <1>3
    <2> DEFINE r == handlers[h]
    <2>2. Busy(h) /\ r.pc = "write_power"
      BY <2>1 DEF WritePower, At, Busy
    <2>3. r.p \in Provider /\ profiles[r.p] \in Profile
      BY <2>2, KnownRequest DEF Needs
    <2>4. \A p \in Provider : profiles'[p] = profiles[p] \/ (profiles[p] # Nil /\ profiles'[p].by = profiles[p].by)
      BY <2>1, <2>3, NilAssumption DEF WritePower, ProvidersInv, TypeOK, Profile
    <2> QED
      BY <1>1, <2>4 DEF FoundTogether, Together
  <1>4. CASE profiles' = profiles
    BY <1>1, <1>4 DEF FoundTogether, Together
  <1>5. (\E h \in Slot : save_provider_profile(h) \/ WritePower(h)) \/ profiles' = profiles
    BY DEF Next, Arrive, BeginEvaluation, AnswerText, AnswerTool, ExecuteTool, Collect, EndStream,
       add_power_log, sync_profile_to_team, DeleteVector, InsertVector, GetProfile, ReadPower, GetDemand,
       SearchVectors, EnrichProviders, GenerateRecommendations, save_match_results, MySQLFails, MilvusFails,
       EvaluationFails, Restart, vars, tables
  <1> QED
    BY <1>2, <1>3, <1>4, <1>5

\* What was found about a provider enters another's profile only if each of the two was
\* evaluated in a process that was evaluating another, for any number of providers, processes
\* and overlaps: rating_agent.py 202-207 resets the shared fields first.
THEOREM EvaluationsStayApart == Spec => []FoundTogether
  <1>1. Init => FoundTogether
    BY DEF Init, FoundTogether
  <1> QED
    BY <1>1, ProvidersInvariant, FoundStep, PTL DEF Spec

-----------------------------------------------------------------------------
\* What a history of points adds up to, entry by entry: the recursion behind the fold has a
\* solution, and the solutions for a history and for a longer one agree where both say something.

Entry == [initial : BOOLEAN, points : Int]
After(power, e) == IF e.initial THEN e.points ELSE AtLeast(power + e.points, 0)
Recurs(g, log) ==
    g = [s \in SUBSET (1..Len(log)) |-> IF s = {} THEN 0 ELSE After(g[s \ {Max(s)}], log[Max(s)])]
LEMMA ReplayRecurs ==
    ASSUME NEW log \in Seq(Entry)
    PROVE  \E g : Recurs(g, log) /\ Replayed(log) = g[1..Len(log)]
  <1> DEFINE n == Len(log)
             F == [x \in Int \X (1..n) |-> After(x[1], log[x[2]])]
             it == CHOOSE g : Recurs(g, log)
  <1>1. n \in Nat /\ DOMAIN log = 1..n /\ \A i \in 1..n : log[i] \in Entry
    OBVIOUS
  <1>2. Replayed(log) = it[1..n]
    BY <1>1 DEF Replayed, FoldLeft, MapThenFoldSet, After, Recurs
  <1>3. F \in [Int \X (1..n) -> Int]
    <2>1. \A v \in Int, e \in Entry : After(v, e) \in Int
      BY DEF After, Entry, AtLeast
    <2> QED BY <1>1, <2>1
  <1>4. \A s \in SUBSET (1..n) : s # {} => Max(s) \in s
    <2>1. IsFiniteSet(1..n) /\ 1..n \subseteq Int
      BY <1>1, FS_Interval
    <2> HIDE DEF n
    <2> QED BY <2>1, MaxIn
  <1> DEFINE c == [s \in SUBSET (1..n) |-> Max(s)]
  <1>5. PICK g : IsFold(g, 1..n, c, 0, F) /\ g \in [SUBSET (1..n) -> Int]
    <2>1. 0 \in Int /\ IsFiniteSet(1..n)
      BY <1>1, FS_Interval
    <2>2. Chooses(c, 1..n)
      BY <1>4 DEF Chooses
    <2> HIDE DEF F, n, c
    <2> QED BY <1>3, <2>1, <2>2, FoldExists
  <1>e. ASSUME NEW s \in SUBSET (1..n), s # {}
        PROVE  F[<<g[s \ {c[s]}], c[s]>>] = After(g[s \ {Max(s)}], log[Max(s)])
    <2>1. Max(s) \in 1..n /\ c[s] = Max(s)
      BY <1>4, <1>e
    <2>2. g[s \ {Max(s)}] \in Int
      BY <1>5
    <2> HIDE DEF c
    <2> QED BY <2>1, <2>2
  <1>6. Recurs(g, log)
    <2> HIDE DEF F, c
    <2> QED BY <1>5, <1>e DEF IsFold, Recurs
  <1>7. Recurs(it, log)
    BY <1>6
  <1> QED BY <1>2, <1>7

LEMMA ReplayAppend ==
    ASSUME NEW log \in Seq(Entry), NEW e \in Entry
    PROVE  Replayed(Append(log, e)) = After(Replayed(log), e)
  <1> DEFINE n == Len(log)
             more == Append(log, e)
  <1>1. n \in Nat /\ more \in Seq(Entry) /\ Len(more) = n + 1 /\ more[n + 1] = e /\ \A i \in 1..n : more[i] = log[i]
    OBVIOUS
  <1>2. PICK g : Recurs(g, log) /\ Replayed(log) = g[1..n]
    BY ReplayRecurs
  <1>3. PICK h : Recurs(h, more) /\ Replayed(more) = h[1..(n + 1)]
    <2> HIDE DEF more
    <2> QED BY <1>1, ReplayRecurs
  <1> HIDE DEF more
  <1>4. \A s \in SUBSET (1..n) : g[s] = IF s = {} THEN 0 ELSE After(g[s \ {Max(s)}], log[Max(s)])
    BY <1>2 DEF Recurs
  <1>5. \A s \in SUBSET (1..(n + 1)) : h[s] = IF s = {} THEN 0 ELSE After(h[s \ {Max(s)}], more[Max(s)])
    BY <1>1, <1>3 DEF Recurs
  <1>6. SUBSET (1..n) \subseteq SUBSET (1..(n + 1))
    BY <1>1
  <1> DEFINE T == {s \in SUBSET (1..n) : g[s] = h[s]}
  <1>7. IsFiniteSet(1..n) /\ \A s \in SUBSET (1..n) : s # {} => Max(s) \in s
    <2>1. IsFiniteSet(1..n) /\ 1..n \subseteq Int
      BY <1>1, FS_Interval
    <2> HIDE DEF n
    <2> QED BY <2>1, MaxIn
  <1>8. ASSUME NEW s \in SUBSET (1..n), \A x \in s : s \ {x} \in T
        PROVE  s \in T
    <2>1. CASE s = {}
      BY <1>4, <1>5, <1>6, <2>1
    <2>2. CASE s # {}
      <3>1. Max(s) \in s /\ more[Max(s)] = log[Max(s)]
        BY <1>1, <1>7, <2>2
      <3>2. s \ {Max(s)} \in T
        BY <1>8, <3>1
      <3> QED BY <1>4, <1>5, <1>6, <2>2, <3>1, <3>2
    <2> QED BY <2>1, <2>2
  <1>9. 1..n \in T
    <2>1. \A s \in SUBSET (1..n) : s \in T
      <3> HIDE DEF T
      <3> QED BY <1>7, <1>8, SubsetsFrom
    <2> QED BY <2>1
  <1>10. Max(1..(n + 1)) = n + 1 /\ (1..(n + 1)) \ {n + 1} = 1..n /\ 1..(n + 1) # {}
    <2>1. n + 1 \in Nat /\ n + 1 \in 1..(n + 1) /\ 1..(n + 1) \in SUBSET (1..(n + 1))
      BY <1>1
    <2>2. Max(1..(n + 1)) = n + 1
      BY <2>1, MaxIsTop
    <2> QED BY <1>1, <2>1, <2>2
  <1>11. h[1..(n + 1)] = After(h[1..n], e)
    BY <1>1, <1>5, <1>10
  <1>12. h[1..n] = g[1..n]
    BY <1>9
  <1> QED BY <1>2, <1>3, <1>11, <1>12 DEF more

-----------------------------------------------------------------------------
\* What the tables say of a provider while at most one request rates it, step by step.

TeamAgrees(p) ==
    profiles[p] # Nil /\ p \notin seen.synced /\ teams[p] # Nil =>
        teams[p] = [power |-> profiles[p].power, level |-> profiles[p].level]
HistoryAgrees(p) ==
    profiles[p] # Nil /\ p \notin seen.synced =>
        /\ logs[p] # <<>>
        /\ profiles[p].level = get_level_for_points(profiles[p].power, Last(logs[p]).initial)
        /\ profiles[p].power = Replayed(logs[p])
VectorAgrees(p) ==
    profiles[p] # Nil /\ Joinable(profiles[p].skills) =>
        \E v \in VectorsOf(p) : v.skills = profiles[p].skills.names

\* The steps that follow the first write.
Writing == {"log", "team", "delete", "insert"}
Adjusts(r) == r.ask.kind = "adjust"

\* What is left to write is what is missing, and a request writes what it read or made.
RatedView(p, r) ==
    /\ \E v : VectorsOf(p) \subseteq {v}
    /\ r.pc \notin {"log", "team"} => TeamAgrees(p)
    /\ r.pc # "log" => HistoryAgrees(p)
    /\ r.pc \notin Writing \/ Adjusts(r) => VectorAgrees(p)
    /\ r.pc \in {"save"} \cup Writing /\ r.ask.kind = "evaluate" =>
          r.profile.level = get_level_for_points(r.profile.power, TRUE)
    /\ r.pc \in Writing /\ ~Adjusts(r) => profiles[p] = r.profile
    /\ r.pc = "insert" => VectorsOf(p) = {}
    /\ r.pc \in {"read_power", "write_power"} => r.old = profiles[p].power
    /\ r.pc = "write_power" => r.read = profiles[p]
    /\ r.pc \in {"log", "team"} /\ Adjusts(r) =>
          profiles[p].power = NewPower(r) /\ profiles[p].level = NewLevel(r)
    /\ r.pc = "log" /\ Adjusts(r) /\ p \notin seen.synced => r.old = Replayed(logs[p])

OneRates == \A g, h \in Slot, p \in Provider : Rates(g, p) /\ Rates(h, p) => g = h \/ p \in seen.crowded
\* The request that rates a provider, or Idle.
Raters(p) == {handlers[h] : h \in {g \in Slot : Rates(g, p)}} \cup (IF Quiet(p) THEN {Idle} ELSE {})
RatedInv ==
    OneRates /\ \A p \in Provider \ (seen.crowded \cup seen.torn) : \A r \in Raters(p) : RatedView(p, r)

\* Nothing that has happened to a provider is forgotten.
Grown == seen.crowded \subseteq seen'.crowded /\ seen.torn \subseteq seen'.torn
Untouched(p) ==
    /\ profiles'[p] = profiles[p] /\ logs'[p] = logs[p] /\ teams'[p] = teams[p] /\ VectorsOf(p)' = VectorsOf(p)
    /\ p \in seen'.synced <=> p \in seen.synced

LEMMA ViewUntouched ==
    ASSUME NEW p, NEW r, RatedView(p, r), Untouched(p)
    PROVE  RatedView(p, r)'
  <1>1. /\ TeamAgrees(p) => TeamAgrees(p)'
        /\ HistoryAgrees(p) => HistoryAgrees(p)'
        /\ VectorAgrees(p) => VectorAgrees(p)'
    BY DEF TeamAgrees, HistoryAgrees, VectorAgrees, Untouched
  <1> QED BY <1>1 DEF RatedView, Untouched

\* Requests that go on or leave without having touched what the others see.
LEMMA RatedLeave ==
    ASSUME RatedInv, Grown,
           \A g \in Slot, p \in Provider : Rates(g, p)' => Rates(g, p) /\ handlers'[g] = handlers[g],
           \A g \in Slot, p \in Provider : Rates(g, p) => Rates(g, p)' \/ p \in seen'.torn,
           \A p \in Provider : Untouched(p)
    PROVE  RatedInv'
  <1>1. OneRates'
    BY DEF RatedInv, OneRates, Grown
  <1>2. ASSUME NEW p \in Provider, p \notin seen'.crowded, p \notin seen'.torn, NEW w \in Raters(p)'
        PROVE  RatedView(p, w)'
    <2>1. (\E g \in Slot : Rates(g, p)' /\ w = handlers'[g]) \/ (Quiet(p)' /\ w = Idle)
      BY <1>2 DEF Raters
    <2>2. w \in Raters(p)
      BY <1>2, <2>1 DEF Raters, Quiet
    <2> QED BY <1>2, <2>2, ViewUntouched DEF RatedInv, Grown
  <1> QED BY <1>1, <1>2 DEF RatedInv

\* A step of h, which rates p or begins to: the other providers are seen as before.
LEMMA RatedStep ==
    ASSUME ProvidersInv, RatedInv, Grown, NEW h \in Slot, NEW q, handlers' = [handlers EXCEPT ![h] = q], NEW p \in Provider,
           q.pc = "idle" => q = Idle, q.pc # "idle" => q.ask.kind # "recommend" /\ q.p = p,
           \A x \in Provider : Rates(h, x) => x = p,
           Rates(h, p) \/ p \in seen'.crowded \/ Quiet(p),
           \A x \in Provider : x # p => Untouched(x),
           p \notin seen'.crowded /\ p \notin seen'.torn => RatedView(p, q)'
    PROVE  RatedInv'
  <1>1. handlers'[h] = q /\ \A g \in Slot : g # h => handlers'[g] = handlers[g]
    BY DEF ProvidersInv, InFlight
  <1>2. \A g \in Slot, x \in Provider : g # h => (Rates(g, x)' <=> Rates(g, x))
    BY <1>1 DEF Rates, Busy, At
  <1>3. /\ \A x \in Provider : Rates(h, x)' => x = p
        /\ ~Rates(h, p)' => q = Idle
    BY <1>1 DEF Rates, Busy, At
  <1>4. \A g \in Slot : g # h /\ Rates(g, p) => p \in seen'.crowded
    BY DEF RatedInv, OneRates, Quiet, Grown
  <1>5. OneRates'
    <2> SUFFICES ASSUME NEW g \in Slot, NEW i \in Slot, NEW x \in Provider, Rates(g, x)', Rates(i, x)', g # i
                 PROVE  x \in seen'.crowded
      BY DEF OneRates
    <2>1. CASE g = h \/ i = h
      BY <1>2, <1>3, <1>4, <2>1
    <2>2. CASE g # h /\ i # h
      BY <1>2, <2>2 DEF RatedInv, OneRates, Grown
    <2> QED BY <2>1, <2>2
  <1>6. ASSUME NEW x \in Provider, x \notin seen'.crowded, x \notin seen'.torn, NEW w \in Raters(x)'
        PROVE  RatedView(x, w)'
    <2>1. (\E g \in Slot : Rates(g, x)' /\ w = handlers'[g]) \/ (Quiet(x)' /\ w = Idle)
      BY <1>6 DEF Raters
    <2>2. CASE x = p
      <3>1. \A g \in Slot : g # h => ~Rates(g, x)'
        BY <1>2, <1>4, <1>6, <2>2
      <3>2. w = q
        BY <1>1, <1>3, <2>1, <2>2, <3>1 DEF Quiet
      <3> QED BY <1>6, <2>2, <3>2
    <2>3. CASE x # p
      <3>1. \A g \in Slot : Rates(g, x)' => g # h /\ Rates(g, x) /\ handlers'[g] = handlers[g]
        BY <1>1, <1>2, <1>3, <2>3
      <3>2. \A g \in Slot : Rates(g, x) => Rates(g, x)'
        BY <1>2, <2>3
      <3>3. w \in Raters(x)
        BY <2>1, <3>1, <3>2 DEF Raters, Quiet
      <3>4. RatedView(x, w)
        BY <1>6, <3>3 DEF RatedInv, Grown
      <3> QED BY <2>3, <3>4, ViewUntouched
    <2> QED BY <2>2, <2>3
  <1> QED BY <1>5, <1>6 DEF RatedInv

\* A request that rates a provider takes a step of its own.
LEMMA RatedMove ==
    ASSUME ProvidersInv, RatedInv, Grown, NEW h \in Slot, Busy(h), NEW r, r = handlers[h], r.ask.kind # "recommend",
           NEW q, Goes(h, q), q.pc = "idle" => q = Idle, q.pc # "idle" => q.ask = r.ask /\ q.p = r.p,
           \A x \in Provider : x # r.p => Untouched(x),
           r.p \notin seen'.crowded /\ r.p \notin seen'.torn /\ RatedView(r.p, r) => RatedView(r.p, q)'
    PROVE  RatedInv'
  <1>1. r.p \in Provider /\ Rates(h, r.p) /\ \A x \in Provider : Rates(h, x) => x = r.p
    BY KnownRequest DEF Rates
  <1>2. r.p \notin seen.crowded /\ r.p \notin seen.torn => RatedView(r.p, r)
    BY <1>1 DEF RatedInv, Raters
  <1> QED BY <1>1, <1>2, RatedStep DEF Goes, Grown

LEMMA IdleView ==
    ASSUME NEW p \in Provider, RatedInv, p \notin seen.crowded, p \notin seen.torn, Quiet(p)
    PROVE  RatedView(p, Idle)
  BY DEF RatedInv, Raters

\* The next step of a request that rates a provider.
Onward(r, q) == q.ask = r.ask /\ q.p = r.p /\ q.profile = r.profile /\ q.old = r.old /\ q.read = r.read
LEMMA OnwardStep ==
    ASSUME NEW r, RequestOK(r), r.ask.kind # "recommend", r.pc \notin {"begin", "answer", "tool", "collect"}
    PROVE  /\ r.ask.kind \in {"evaluate", "adjust", "sync"}
           /\ \/ Following(r) = Idle /\ (r.pc = "insert" \/ (r.pc = "team" /\ Adjusts(r)))
              \/ /\ Onward(r, Following(r)) /\ DOMAIN Following(r) = DOMAIN r
                 /\ Following(r).pc =
                       CASE r.pc = "save" -> IF r.ask.kind = "evaluate" THEN "log" ELSE "delete"
                         [] r.pc = "log" -> "team"
                         [] r.pc = "team" -> "delete"
                         [] r.pc = "delete" -> "insert"
                         [] r.pc = "get_profile" -> "read_power"
                         [] r.pc = "read_power" -> "write_power"
                         [] r.pc = "write_power" -> "log"
                 /\ r.pc # "insert" /\ ~(r.pc = "team" /\ Adjusts(r))
           /\ r.pc \in {"get_profile", "read_power", "write_power"} => Adjusts(r)
           /\ r.pc \in {"save", "delete", "insert"} => ~Adjusts(r)
           /\ r.pc \in {"log", "team"} => r.ask.kind # "sync"
  <1>0. DOMAIN r = Carries
    BY DEF RequestOK, Carries
  <1>1. r.ask.kind \in {"evaluate", "adjust", "sync"}
    BY Kinds DEF RequestOK
  <1>2. CASE r.ask.kind = "evaluate"
    <2>1. r.pc \in {"save", "log", "team", "delete", "insert"}
      BY <1>2 DEF RequestOK, StepsOf
    <2> QED BY <1>0, <1>2, <2>1 DEF Following, To, Steps, do_evaluate, Onward, Carries, Adjusts
  <1>3. CASE r.ask.kind = "adjust"
    <2>1. r.pc \in {"get_profile", "read_power", "write_power", "log", "team"}
      BY <1>3 DEF RequestOK, StepsOf
    <2> QED BY <1>0, <1>3, <2>1 DEF Following, To, Steps, adjust_points, Onward, Carries, Adjusts
  <1>4. CASE r.ask.kind = "sync"
    <2>1. r.pc \in {"save", "delete", "insert"}
      BY <1>4 DEF RequestOK, StepsOf
    <2> QED BY <1>0, <1>4, <2>1 DEF Following, To, Steps, sync_provider_profile, Onward, Carries, Adjusts
  <1> QED BY <1>1, <1>2, <1>3, <1>4

\* What marks a provider, and what leaves the tables alone.
LEMMA MarkGrown ==
    ASSUME ProvidersInv, NEW what \in {"crowded", "mixed", "torn"}, NEW ps, Mark(what, ps)
    PROVE  Grown /\ seen'.synced = seen.synced /\ ps \subseteq seen'[what]
  BY DEF ProvidersInv, TypeOK, Mark, Grown

LEMMA TablesUntouched ==
    ASSUME UNCHANGED <<profiles, logs, teams, vectors>>, seen'.synced = seen.synced
    PROVE  \A p : Untouched(p)
  BY DEF Untouched, VectorsOf

\* A request comes in.
LEMMA RatedArrive ==
    ASSUME ProvidersInv, RatedInv, NEW h \in Slot, Arrive(h)
    PROVE  RatedInv'
  <1>1. PICK p \in Provider, w \in Worker, ask \in scenario.asked[requests + 1] :
            /\ Goes(h, [pc |-> FirstStep(ask.kind), ask |-> ask, p |-> p, w |-> w, n |-> requests', iteration |-> 0,
                        tool |-> Nil, old |-> 0, read |-> Nil, found |-> <<>>,
                        profile |-> IF ask.kind = "sync" THEN SyncedProfile(ask.skills) ELSE Nil])
            /\ Mark("crowded", IF ask.kind # "recommend" /\ \E g \in Slot : Rates(g, p) THEN {p} ELSE {})
    BY DEF Arrive
  <1>2. PICK q : q = [pc |-> FirstStep(ask.kind), ask |-> ask, p |-> p, w |-> w, n |-> requests', iteration |-> 0,
                      tool |-> Nil, old |-> 0, read |-> Nil, found |-> <<>>,
                      profile |-> IF ask.kind = "sync" THEN SyncedProfile(ask.skills) ELSE Nil]
    OBVIOUS
  <1>3. Goes(h, q) /\ q.ask = ask /\ q.p = p /\ q.pc = FirstStep(ask.kind)
    BY <1>1, <1>2
  <1>4. ask \in Ask
    <2>1. scenario \in Scenarios /\ requests \in Nat /\ requests < Len(scenario.asked)
      BY DEF ProvidersInv, TypeOK, Arrive
    <2>2. scenario.asked \in Seq(SUBSET Ask) /\ requests + 1 \in 1..Len(scenario.asked)
      BY <2>1, ScenarioAssumption
    <2> QED BY <2>2
  <1>5. q.pc \in {"begin", "get_profile", "save", "demand"} /\ (q.pc = "save" => ask.kind = "sync")
        /\ (q.pc = "demand" <=> ask.kind = "recommend")
    BY <1>3, <1>4, Kinds DEF FirstStep
  <1>6. ~Busy(h) /\ UNCHANGED <<profiles, logs, teams, vectors>>
    BY DEF Arrive, tables
  <1>7. Grown /\ seen'.synced = seen.synced
        /\ (ask.kind # "recommend" /\ (\E g \in Slot : Rates(g, p)) => p \in seen'["crowded"])
    BY <1>1, MarkGrown
  <1>8. \A x : Untouched(x)
    BY <1>6, <1>7, TablesUntouched
  <1>9. \A x \in Provider : ~Rates(h, x)
    BY <1>6 DEF Rates
  <1>10. CASE ask.kind = "recommend"
    <2>1. \A g \in Slot, x \in Provider : (Rates(g, x)' <=> Rates(g, x)) /\ (Rates(g, x) => handlers'[g] = handlers[g])
      <3>1. handlers'[h] = q /\ \A g \in Slot : g # h => handlers'[g] = handlers[g]
        BY <1>3 DEF Goes, ProvidersInv, InFlight
      <3> QED BY <1>3, <1>9, <1>10, <3>1 DEF Rates, Busy, At
    <2> QED BY <1>7, <1>8, <2>1, RatedLeave
  <1>11. CASE ask.kind # "recommend"
    <2>1. p \in seen'.crowded \/ Quiet(p)
      BY <1>7, <1>11 DEF Quiet
    <2>2. ASSUME p \notin seen'.crowded, p \notin seen'.torn
          PROVE  RatedView(p, q)'
      <3>1. RatedView(p, Idle)
        BY <1>7, <2>1, <2>2, IdleView DEF Grown
      <3>2. RatedView(p, Idle)'
        BY <1>8, <3>1, ViewUntouched
      <3>3. q.pc \notin Writing /\ Idle.pc \notin Writing /\ Idle.pc = "idle"
            /\ (q.pc = "save" => q.ask.kind # "evaluate") /\ q.pc \notin {"read_power", "write_power", "insert", "log", "team"}
        BY <1>3, <1>5 DEF Writing, Idle
      <3> QED BY <3>2, <3>3 DEF RatedView
    <2> QED BY <1>3, <1>5, <1>7, <1>8, <1>9, <1>11, <2>1, <2>2, RatedStep DEF Goes
  <1> QED BY <1>10, <1>11

\* An evaluation until its profile is made.
LEMMA RatedEarly ==
    ASSUME ProvidersInv, RatedInv, NEW h \in Slot,
           \/ BeginEvaluation(h) \/ AnswerText(h) \/ AnswerTool(h) \/ ExecuteTool(h) \/ Collect(h) \/ EndStream(h)
           \/ EvaluationFails(h)
    PROVE  RatedInv'
  <1>p. PICK r : r = handlers[h]
    OBVIOUS
  <1>m. PICK made : made = build_profile_data(agents[r.w])
    OBVIOUS
  <1> DEFINE early == {"begin", "answer", "tool", "collect"}
  <1>1. Busy(h) /\ r.pc \in early
    BY <1>p DEF BeginEvaluation, AnswerText, AnswerTool, ExecuteTool, Collect, EndStream, EvaluationFails, Evaluating, At, Busy
  <1>2. RequestOK(r) /\ DOMAIN r = Carries
    BY <1>p, <1>1, KnownRequest DEF RequestOK, Carries
  <1>3. r.ask.kind = "evaluate" /\ r.w \in Worker
    BY <1>1, <1>2, Kinds DEF RequestOK, StepsOf
  <1>4. UNCHANGED <<profiles, logs, teams, vectors>> /\ Grown /\ seen'.synced = seen.synced
    BY MarkGrown DEF BeginEvaluation, AnswerText, AnswerTool, ExecuteTool, Collect, EndStream, EvaluationFails, tables, Grown
  <1>5. \E q : /\ Goes(h, q)
               /\ \/ q = Idle
                  \/ /\ q.ask = r.ask /\ q.p = r.p /\ q.pc \in early \cup {"save"}
                     /\ q.pc = "save" => q.profile = made
    <2>1. CASE BeginEvaluation(h)
      BY <1>p, <1>2, <2>1 DEF BeginEvaluation, To, Carries
    <2>2. CASE AnswerText(h)
      BY <1>p, <1>2, <2>2 DEF AnswerText, To, Carries
    <2>3. ASSUME Goes(h, Continues(r))
          PROVE  \E q : Goes(h, q) /\ q.ask = r.ask /\ q.p = r.p /\ q.pc \in early
      <3>1. Continues(r).ask = r.ask /\ Continues(r).p = r.p /\ Continues(r).pc \in early
        BY <1>2 DEF Continues, Carries
      <3> QED BY <2>3, <3>1
    <2>4. CASE AnswerTool(h)
      <3>1. Goes(h, Continues(r)) \/ \E answer : Goes(h, [To(r, "tool") EXCEPT !.tool = answer])
        BY <1>p, <2>4 DEF AnswerTool
      <3>2. ASSUME NEW answer, Goes(h, [To(r, "tool") EXCEPT !.tool = answer])
            PROVE  \E q : Goes(h, q) /\ q.ask = r.ask /\ q.p = r.p /\ q.pc \in early
        <4>1. PICK q : q = [To(r, "tool") EXCEPT !.tool = answer]
          OBVIOUS
        <4>2. Goes(h, q) /\ q.ask = r.ask /\ q.p = r.p /\ q.pc = "tool"
          BY <1>2, <3>2, <4>1 DEF To, Carries
        <4> QED BY <4>2
      <3> QED BY <2>3, <3>1, <3>2
    <2>5. CASE ExecuteTool(h)
      <3>1. Goes(h, Continues(r))
        BY <1>p, <2>5 DEF ExecuteTool
      <3> QED BY <2>3, <3>1
    <2>6. ASSUME Goes(h, Collected(r))
          PROVE  \E q : Goes(h, q) /\ q.ask = r.ask /\ q.p = r.p /\ q.pc = "save" /\ q.profile = made
      <3>1. PICK q : q = [To(r, "save") EXCEPT !.profile = made]
        OBVIOUS
      <3>2. Goes(h, q) /\ q.ask = r.ask /\ q.p = r.p /\ q.pc = "save" /\ q.profile = made
        BY <1>m, <1>2, <2>6, <3>1 DEF Collected, To, Carries
      <3> QED BY <3>2
    <2>7. CASE Collect(h) \/ EndStream(h)
      <3>1. Goes(h, Collected(r)) \/ Goes(h, Idle)
        BY <1>p, <2>7 DEF Collect, EndStream
      <3> QED BY <2>6, <3>1
    <2>8. CASE EvaluationFails(h)
      BY <2>8 DEF EvaluationFails
    <2> QED BY <2>1, <2>2, <2>4, <2>5, <2>7, <2>8
  <1>6. PICK q : /\ Goes(h, q)
                 /\ \/ q = Idle
                    \/ /\ q.ask = r.ask /\ q.p = r.p /\ q.pc \in early \cup {"save"}
                       /\ q.pc = "save" => q.profile = made
    BY <1>5
  <1>7. made.level = get_level_for_points(made.power, TRUE)
    BY <1>m DEF build_profile_data
  <1>8. \A x : Untouched(x)
    BY <1>4, TablesUntouched
  <1>9. ASSUME RatedView(r.p, r)
        PROVE  RatedView(r.p, q)'
    <2>1. RatedView(r.p, r)'
      BY <1>8, <1>9, ViewUntouched
    <2>2. /\ r.pc \notin Writing /\ q.pc \notin Writing
          /\ q.pc \notin {"read_power", "write_power", "insert", "log", "team"} /\ r.pc \notin {"log", "team"}
      BY <1>1, <1>6 DEF Writing, Idle
    <2>3. q.pc = "save" => q.profile.level = get_level_for_points(q.profile.power, TRUE)
      <3>1. q.pc = "save" => q.profile = made
        BY <1>6 DEF Idle
      <3> QED BY <1>7, <3>1
    <2> QED BY <2>1, <2>2, <2>3 DEF RatedView
  <1>10. (q.pc = "idle" => q = Idle) /\ (q.pc # "idle" => q.ask = r.ask /\ q.p = r.p)
    BY <1>6 DEF Idle
  <1> QED BY <1>p, <1>1, <1>3, <1>4, <1>6, <1>8, <1>9, <1>10, RatedMove

\* The profile is stored, and with it whether the server sent it.
LEMMA RatedSave ==
    ASSUME ProvidersInv, RatedInv, NEW h \in Slot, save_provider_profile(h)
    PROVE  RatedInv'
  <1>p. PICK r, q : r = handlers[h] /\ q = Following(handlers[h])
    OBVIOUS
  <1>1. Busy(h) /\ r.pc = "save" /\ Goes(h, q)
    BY <1>p DEF save_provider_profile, At, Busy
  <1>2. RequestOK(r) /\ r.p \in Provider
    BY <1>p, <1>1, KnownRequest
  <1>3. r.ask.kind \in {"evaluate", "sync"}
    BY <1>1, <1>2, Kinds DEF RequestOK, StepsOf
  <1>4. Onward(r, q) /\ q.pc = (IF r.ask.kind = "evaluate" THEN "log" ELSE "delete")
    BY <1>p, <1>1, <1>2, <1>3, OnwardStep
  <1>5. /\ profiles' = [profiles EXCEPT ![r.p] = r.profile] /\ UNCHANGED <<logs, teams, vectors>>
        /\ seen' = [seen EXCEPT !.synced = IF Sync(r) THEN @ \cup {r.p} ELSE @ \ {r.p}]
    BY <1>p DEF save_provider_profile, SavedProfile
  <1>6. /\ Grown /\ seen'.synced = (IF Sync(r) THEN seen.synced \cup {r.p} ELSE seen.synced \ {r.p})
        /\ profiles'[r.p] = r.profile /\ \A x \in Provider : x # r.p => profiles'[x] = profiles[x]
    BY <1>2, <1>5 DEF Grown, ProvidersInv, TypeOK
  <1>7. \A x \in Provider : x # r.p => Untouched(x)
    BY <1>5, <1>6 DEF Untouched, VectorsOf
  <1>8. ASSUME RatedView(r.p, r)
        PROVE  RatedView(r.p, q)'
    <2>1. VectorsOf(r.p)' = VectorsOf(r.p)
      BY <1>5 DEF VectorsOf
    <2>2. q.pc # "log" => r.p \in seen'.synced
      BY <1>3, <1>4, <1>6 DEF Sync
    <2>3. (q.pc # "log" => TeamAgrees(r.p)' /\ HistoryAgrees(r.p)') /\ q.pc \in {"log", "delete"}
      BY <1>4, <2>2 DEF TeamAgrees, HistoryAgrees
    <2>4. q.pc \in Writing /\ ~Adjusts(q) /\ q.profile = r.profile /\ q.ask = r.ask
      BY <1>3, <1>4 DEF Writing, Adjusts, Onward
    <2> QED BY <1>1, <1>6, <1>8, <2>1, <2>3, <2>4 DEF RatedView
  <1>9. q.pc # "idle" /\ q.ask = r.ask /\ q.p = r.p /\ r.ask.kind # "recommend"
    BY <1>3, <1>4 DEF Onward
  <1> QED BY <1>p, <1>1, <1>6, <1>7, <1>8, <1>9, RatedMove

\* An entry in the history of points.
LEMMA RatedLog ==
    ASSUME ProvidersInv, RatedInv, NEW h \in Slot, add_power_log(h)
    PROVE  RatedInv'
  <1>p. PICK r, q, e : r = handlers[h] /\ q = Following(handlers[h]) /\ e = LogEntry(handlers[h])
    OBVIOUS
  <1>1. Busy(h) /\ r.pc = "log" /\ Goes(h, q)
    BY <1>p DEF add_power_log, At, Busy
  <1>2. RequestOK(r) /\ r.p \in Provider
    BY <1>p, <1>1, KnownRequest
  <1>3. r.ask.kind \in {"evaluate", "adjust"}
    BY <1>1, <1>2, Kinds DEF RequestOK, StepsOf
  <1>4. Onward(r, q) /\ q.pc = "team"
    BY <1>p, <1>1, <1>2, <1>3, OnwardStep
  <1>5. logs' = [logs EXCEPT ![r.p] = Append(@, e)] /\ UNCHANGED <<profiles, teams, vectors, seen>>
    BY <1>p DEF add_power_log
  <1>6. /\ logs[r.p] \in Seq(Entry) /\ logs'[r.p] = Append(logs[r.p], e)
        /\ \A x \in Provider : x # r.p => logs'[x] = logs[x]
    BY <1>2, <1>5 DEF ProvidersInv, TypeOK, Entry
  <1>7. logs'[r.p] # <<>> /\ Last(logs'[r.p]) = e
    BY <1>6 DEF Last
  <1>e. e \in Entry
    <2>1. r.ask.kind = "evaluate" => r.profile \in Profile
      BY <1>p, <1>1, KnownRequest DEF Stores
    <2>2. r.ask.kind = "adjust" => r.ask.points \in Int
      BY <1>2, Kinds DEF RequestOK
    <2> QED BY <1>p, <1>3, <2>1, <2>2 DEF LogEntry, Entry, Profile
  <1>8. Grown /\ \A x \in Provider : x # r.p => Untouched(x)
    BY <1>5, <1>6 DEF Grown, Untouched, VectorsOf
  <1>9. ASSUME RatedView(r.p, r)
        PROVE  RatedView(r.p, q)'
    <2>1. VectorsOf(r.p)' = VectorsOf(r.p) /\ (VectorAgrees(r.p) => VectorAgrees(r.p)')
      BY <1>5 DEF VectorsOf, VectorAgrees
    <2>2. Replayed(logs'[r.p]) = After(Replayed(logs[r.p]), e)
      BY <1>6, <1>e, ReplayAppend
    <2>3. CASE r.ask.kind = "evaluate"
      <3>1. /\ e.initial = TRUE /\ e.points = r.profile.power /\ profiles[r.p] = r.profile
            /\ r.profile.level = get_level_for_points(r.profile.power, TRUE)
        BY <1>p, <1>1, <1>9, <2>3 DEF LogEntry, RatedView, Writing, Adjusts
      <3>2. HistoryAgrees(r.p)'
        BY <1>5, <1>7, <2>2, <3>1 DEF HistoryAgrees, After
      <3>3. ~Adjusts(q) /\ ~Adjusts(r) /\ q.pc \in Writing /\ r.pc \in Writing /\ q.profile = r.profile /\ q.ask = r.ask
        BY <1>1, <1>4, <2>3 DEF Adjusts, Writing, Onward
      <3> QED BY <1>1, <1>4, <1>5, <1>9, <2>1, <3>2, <3>3 DEF RatedView
    <2>4. CASE r.ask.kind = "adjust"
      <3>1. /\ e.initial = FALSE /\ e.points = r.ask.points
            /\ profiles[r.p].power = NewPower(r) /\ profiles[r.p].level = NewLevel(r)
            /\ r.p \notin seen.synced => r.old = Replayed(logs[r.p])
        BY <1>p, <1>1, <1>9, <2>4 DEF LogEntry, RatedView, Adjusts
      <3>2. r.p \notin seen.synced => profiles[r.p].power = Replayed(logs'[r.p])
        BY <2>2, <3>1 DEF After, NewPower, AtLeast
      <3>3. HistoryAgrees(r.p)'
        BY <1>5, <1>7, <3>1, <3>2 DEF HistoryAgrees, NewLevel
      <3>4. /\ Adjusts(q) /\ Adjusts(r) /\ q.ask = r.ask /\ q.old = r.old
            /\ NewPower(q) = NewPower(r) /\ NewLevel(q) = NewLevel(r)
        BY <1>4, <2>4 DEF Adjusts, Onward, NewPower, NewLevel
      <3> QED BY <1>1, <1>4, <1>5, <1>9, <2>1, <2>4, <3>1, <3>3, <3>4 DEF RatedView
    <2> QED BY <1>3, <2>3, <2>4
  <1>10. q.pc # "idle" /\ q.ask = r.ask /\ q.p = r.p /\ r.ask.kind # "recommend"
    BY <1>3, <1>4 DEF Onward
  <1> QED BY <1>p, <1>1, <1>8, <1>9, <1>10, RatedMove

\* The row of the team.
LEMMA RatedTeam ==
    ASSUME ProvidersInv, RatedInv, NEW h \in Slot, sync_profile_to_team(h)
    PROVE  RatedInv'
  <1>p. PICK r, q, row : r = handlers[h] /\ q = Following(handlers[h]) /\ row = TeamRow(handlers[h])
    OBVIOUS
  <1>1. Busy(h) /\ r.pc = "team" /\ Goes(h, q)
    BY <1>p DEF sync_profile_to_team, At, Busy
  <1>2. RequestOK(r) /\ r.p \in Provider
    BY <1>p, <1>1, KnownRequest
  <1>3. r.ask.kind \in {"evaluate", "adjust"}
    BY <1>1, <1>2, Kinds DEF RequestOK, StepsOf
  <1>4. (Adjusts(r) => q = Idle) /\ (~Adjusts(r) => Onward(r, q) /\ q.pc = "delete")
    BY <1>p, <1>1, <1>2, <1>3, OnwardStep
  <1>5. teams' = [teams EXCEPT ![r.p] = IF @ = Nil THEN Nil ELSE row] /\ UNCHANGED <<profiles, logs, vectors, seen>>
    BY <1>p DEF sync_profile_to_team
  <1>6. /\ teams'[r.p] = Nil \/ teams'[r.p] = row
        /\ \A x \in Provider : x # r.p => teams'[x] = teams[x]
    BY <1>2, <1>5 DEF ProvidersInv, TypeOK
  <1>7. Grown /\ \A x \in Provider : x # r.p => Untouched(x)
    BY <1>5, <1>6 DEF Grown, Untouched, VectorsOf
  <1>8. ASSUME RatedView(r.p, r)
        PROVE  RatedView(r.p, q)'
    <2>1. row = [power |-> profiles[r.p].power, level |-> profiles[r.p].level]
      BY <1>p, <1>1, <1>3, <1>8 DEF TeamRow, RatedView, Writing, Adjusts
    <2>2. TeamAgrees(r.p)'
      BY <1>5, <1>6, <2>1 DEF TeamAgrees
    <2>3. /\ VectorsOf(r.p)' = VectorsOf(r.p) /\ (VectorAgrees(r.p) => VectorAgrees(r.p)')
          /\ HistoryAgrees(r.p) => HistoryAgrees(r.p)'
      BY <1>5 DEF VectorsOf, VectorAgrees, HistoryAgrees
    <2>4. CASE Adjusts(r)
      <3>1. q.pc = "idle"
        BY <1>4, <2>4 DEF Idle
      <3> QED BY <1>1, <1>8, <2>2, <2>3, <2>4, <3>1 DEF RatedView, Writing
    <2>5. CASE ~Adjusts(r)
      <3>1. ~Adjusts(q) /\ q.pc = "delete" /\ q.profile = r.profile /\ q.ask = r.ask
        BY <1>4, <2>5 DEF Adjusts, Onward
      <3> QED BY <1>1, <1>5, <1>8, <2>2, <2>3, <2>5, <3>1 DEF RatedView, Writing
    <2> QED BY <2>4, <2>5
  <1>9. (q.pc = "idle" => q = Idle) /\ (q.pc # "idle" => q.ask = r.ask /\ q.p = r.p) /\ r.ask.kind # "recommend"
    BY <1>3, <1>4 DEF Onward, Idle
  <1> QED BY <1>p, <1>1, <1>7, <1>8, <1>9, RatedMove

\* The vectors: the old ones go, and then the new one comes.
LEMMA RatedVectors ==
    ASSUME ProvidersInv, RatedInv, NEW h \in Slot, DeleteVector(h) \/ InsertVector(h)
    PROVE  RatedInv'
  <1>p. PICK r, f : r = handlers[h] /\ f = Following(handlers[h])
    OBVIOUS
  <1>1. Busy(h) /\ r.pc \in {"delete", "insert"}
    BY <1>p DEF DeleteVector, InsertVector, At, Busy
  <1>2. RequestOK(r) /\ r.p \in Provider
    BY <1>p, <1>1, KnownRequest
  <1>3. r.ask.kind \in {"evaluate", "sync"} /\ ~Adjusts(r)
    BY <1>1, <1>2, Kinds DEF RequestOK, StepsOf, Adjusts
  <1>4. IF r.pc = "delete" THEN Onward(r, f) /\ f.pc = "insert" ELSE f = Idle
    BY <1>p, <1>1, <1>2, <1>3, OnwardStep
  <1>5. UNCHANGED <<profiles, logs, teams, seen>> /\ Grown
    BY DEF DeleteVector, InsertVector, Grown
  <1>6. /\ TeamAgrees(r.p) => TeamAgrees(r.p)'
        /\ HistoryAgrees(r.p) => HistoryAgrees(r.p)'
    BY <1>5 DEF TeamAgrees, HistoryAgrees
  <1>7. RatedView(r.p, r) => profiles[r.p] = r.profile
    BY <1>1, <1>3 DEF RatedView, Writing
  <1>8. CASE InsertVector(h)
    <2>1. PICK v : v = [p |-> r.p, n |-> r.n, skills |-> r.profile.skills.names, credit |-> r.profile.power]
      OBVIOUS
    <2>2. vectors' = vectors \cup {v} /\ v.p = r.p /\ v.skills = r.profile.skills.names /\ r.pc = "insert" /\ Goes(h, Idle)
      BY <1>p, <1>4, <1>8, <2>1 DEF InsertVector, At
    <2>3. VectorsOf(r.p)' = VectorsOf(r.p) \cup {v} /\ \A x \in Provider : x # r.p => VectorsOf(x)' = VectorsOf(x)
      BY <2>2 DEF VectorsOf
    <2>4. \A x \in Provider : x # r.p => Untouched(x)
      BY <1>5, <2>3 DEF Untouched
    <2>5. PICK q : q = Idle
      OBVIOUS
    <2>6. q.pc = "idle"
      BY <2>5 DEF Idle
    <2>7. ASSUME RatedView(r.p, r)
          PROVE  RatedView(r.p, q)'
      <3>1. VectorsOf(r.p)' = {v}
        BY <2>2, <2>3, <2>7 DEF RatedView
      <3>2. VectorAgrees(r.p)'
        BY <1>5, <1>7, <2>2, <2>7, <3>1 DEF VectorAgrees
      <3>3. TeamAgrees(r.p)' /\ HistoryAgrees(r.p)'
        BY <1>6, <2>2, <2>7 DEF RatedView
      <3> QED BY <2>6, <3>1, <3>2, <3>3 DEF RatedView, Writing
    <2> QED BY <1>p, <1>1, <1>3, <1>5, <2>2, <2>4, <2>5, <2>6, <2>7, RatedMove
  <1>9. CASE DeleteVector(h) /\ Joinable(r.profile.skills)
    <2>1. vectors' = {v \in vectors : v.p # r.p} /\ Goes(h, f) /\ r.pc = "delete"
      BY <1>p, <1>9 DEF DeleteVector, Cleared, At
    <2>2. VectorsOf(r.p)' = {} /\ \A x \in Provider : x # r.p => VectorsOf(x)' = VectorsOf(x)
      BY <2>1 DEF VectorsOf
    <2>3. \A x \in Provider : x # r.p => Untouched(x)
      BY <1>5, <2>2 DEF Untouched
    <2>4. Onward(r, f) /\ f.pc = "insert" /\ ~Adjusts(f)
      BY <1>3, <1>4, <2>1 DEF Onward, Adjusts
    <2>5. ASSUME RatedView(r.p, r)
          PROVE  RatedView(r.p, f)'
      <3>1. TeamAgrees(r.p)' /\ HistoryAgrees(r.p)'
        BY <1>6, <2>1, <2>5 DEF RatedView
      <3> QED BY <1>5, <1>7, <2>1, <2>2, <2>4, <2>5, <3>1 DEF RatedView, Writing, Onward
    <2> QED BY <1>p, <1>1, <1>3, <1>5, <2>1, <2>3, <2>4, <2>5, RatedMove DEF Onward
  <1>10. CASE DeleteVector(h) /\ ~Joinable(r.profile.skills)
    <2>1. UNCHANGED vectors /\ Goes(h, Idle) /\ r.pc = "delete"
      BY <1>p, <1>10 DEF DeleteVector, At
    <2>2. \A x : VectorsOf(x)' = VectorsOf(x)
      BY <2>1 DEF VectorsOf
    <2>3. \A x : Untouched(x)
      BY <1>5, <2>2 DEF Untouched
    <2>4. PICK q : q = Idle
      OBVIOUS
    <2>5. q.pc = "idle"
      BY <2>4 DEF Idle
    <2>6. ASSUME RatedView(r.p, r)
          PROVE  RatedView(r.p, q)'
      <3>1. TeamAgrees(r.p)' /\ HistoryAgrees(r.p)' /\ \E v : VectorsOf(r.p)' \subseteq {v}
        BY <1>6, <2>1, <2>2, <2>6 DEF RatedView
      <3>2. VectorAgrees(r.p)'
        BY <1>5, <1>7, <1>10, <2>6 DEF VectorAgrees
      <3> QED BY <2>5, <3>1, <3>2 DEF RatedView, Writing
    <2> QED BY <1>p, <1>1, <1>3, <1>5, <2>1, <2>3, <2>4, <2>5, <2>6, RatedMove
  <1> QED BY <1>8, <1>9, <1>10

\* An adjustment: what it read is still so when it writes, and then the history and the
\* team's row are behind.
LEMMA RatedAdjust ==
    ASSUME ProvidersInv, RatedInv, NEW h \in Slot, GetProfile(h) \/ ReadPower(h) \/ WritePower(h)
    PROVE  RatedInv'
  <1>p. PICK r, f : r = handlers[h] /\ f = Following(handlers[h])
    OBVIOUS
  <1>1. Busy(h) /\ r.pc \in {"get_profile", "read_power", "write_power"}
    BY <1>p DEF GetProfile, ReadPower, WritePower, At, Busy
  <1>2. RequestOK(r) /\ r.p \in Provider /\ profiles[r.p] \in Profile \cup {Nil}
    BY <1>p, <1>1, KnownRequest DEF ProvidersInv, TypeOK
  <1>3. r.ask.kind = "adjust" /\ Adjusts(r)
    BY <1>1, <1>2, Kinds DEF RequestOK, StepsOf, Adjusts
  <1>4. /\ Onward(r, f) /\ DOMAIN f = Carries
        /\ f.pc = CASE r.pc = "get_profile" -> "read_power" [] r.pc = "read_power" -> "write_power"
                    [] r.pc = "write_power" -> "log"
    BY <1>p, <1>1, <1>2, <1>3, OnwardStep DEF RequestOK, Carries
  <1>5. UNCHANGED <<logs, teams, vectors, seen>> /\ Grown
    BY DEF GetProfile, ReadPower, WritePower, Grown, tables
  <1>6. CASE GetProfile(h)
    <2>1. UNCHANGED profiles /\ r.pc = "get_profile"
      BY <1>p, <1>6 DEF GetProfile, tables, At
    <2>2. \A x : Untouched(x)
      BY <1>5, <2>1, TablesUntouched
    <2>3. PICK q : q = IF profiles[r.p] = Nil THEN Idle ELSE [f EXCEPT !.old = profiles[r.p].power]
      OBVIOUS
    <2>4. Goes(h, q)
      BY <1>p, <1>6, <2>3 DEF GetProfile
    <2>5. \/ q = Idle /\ q.pc = "idle"
          \/ q.ask = r.ask /\ q.p = r.p /\ q.pc = "read_power" /\ q.old = profiles[r.p].power
      BY <1>4, <2>1, <2>3 DEF Onward, Carries, Idle
    <2>6. ASSUME RatedView(r.p, r)
          PROVE  RatedView(r.p, q)'
      <3>1. RatedView(r.p, r)'
        BY <2>2, <2>6, ViewUntouched
      <3>2. r.pc \notin Writing /\ q.pc \notin {"save", "insert", "write_power", "log", "team"} /\ q.pc \notin Writing
        BY <2>1, <2>5 DEF Writing
      <3> QED BY <2>1, <2>5, <3>1, <3>2 DEF RatedView
    <2>7. q.pc = "idle" => q = Idle
      BY <2>5
    <2> QED BY <1>p, <1>1, <1>3, <1>5, <2>2, <2>4, <2>5, <2>6, <2>7, RatedMove
  <1>7. CASE ReadPower(h)
    <2>1. UNCHANGED profiles /\ r.pc = "read_power"
      BY <1>p, <1>7 DEF ReadPower, tables, At
    <2>2. \A x : Untouched(x)
      BY <1>5, <2>1, TablesUntouched
    <2>3. PICK q : q = [f EXCEPT !.read = profiles[r.p]]
      OBVIOUS
    <2>4. Goes(h, q)
      BY <1>p, <1>7, <2>3 DEF ReadPower
    <2>5. q.ask = r.ask /\ q.p = r.p /\ q.pc = "write_power" /\ q.old = r.old /\ q.read = profiles[r.p]
      BY <1>4, <2>1, <2>3 DEF Onward, Carries
    <2>6. ASSUME RatedView(r.p, r)
          PROVE  RatedView(r.p, q)'
      <3>1. RatedView(r.p, r)'
        BY <2>2, <2>6, ViewUntouched
      <3>2. r.pc \notin Writing /\ q.pc \notin Writing
        BY <2>1, <2>5 DEF Writing
      <3>3. q.old = profiles'[r.p].power /\ q.read = profiles'[r.p]
        BY <2>1, <2>5, <2>6 DEF RatedView
      <3> QED BY <2>1, <2>5, <3>1, <3>2, <3>3 DEF RatedView
    <2> QED BY <1>p, <1>1, <1>3, <1>5, <2>2, <2>4, <2>5, <2>6, RatedMove
  <1>8. CASE WritePower(h)
    <2>1. PICK power, level, new :
              /\ power = Written(profiles[r.p].power, r.read.power, Adjusted(r))
              /\ level = Written(profiles[r.p].level, r.read.level, NewLevel(r))
              /\ new = [profiles[r.p] EXCEPT !.power = power, !.level = level]
      OBVIOUS
    <2>2. r.pc = "write_power" /\ Goes(h, f)
      BY <1>p, <1>8 DEF WritePower, At
    <2>3. profiles[r.p] \in Profile
      BY <1>p, <1>1, <1>2, <2>2, KnownRequest DEF Needs
    <2>4. profiles' = [profiles EXCEPT ![r.p] = new]
      BY <1>p, <1>2, <1>8, <2>1, <2>3 DEF WritePower, ProvidersInv, TypeOK, Profile
    <2>5. new.power = power /\ new.level = level /\ new.skills = profiles[r.p].skills
      BY <2>1, <2>3 DEF Profile
    <2>6. profiles'[r.p] = new /\ \A x \in Provider : x # r.p => profiles'[x] = profiles[x]
      BY <1>2, <2>4 DEF ProvidersInv, TypeOK
    <2>7. \A x \in Provider : x # r.p => Untouched(x)
      BY <1>5, <2>6 DEF Untouched, VectorsOf
    <2>8. f.ask = r.ask /\ f.p = r.p /\ f.old = r.old /\ f.pc = "log" /\ Adjusts(f)
      BY <1>3, <1>4, <2>2 DEF Onward, Adjusts
    <2>9. NewPower(f) = NewPower(r) /\ NewLevel(f) = NewLevel(r)
      BY <2>8 DEF NewPower, NewLevel
    <2>10. ASSUME RatedView(r.p, r)
           PROVE  RatedView(r.p, f)'
      <3>1. /\ r.read = profiles[r.p] /\ r.old = profiles[r.p].power
            /\ r.p \notin seen.synced => profiles[r.p].power = Replayed(logs[r.p])
        BY <2>2, <2>3, <2>10, NilAssumption DEF RatedView, HistoryAgrees
      <3>2. power = NewPower(r) /\ level = NewLevel(r)
        BY <2>1, <3>1 DEF Written, Adjusted, NewPower
      <3>3. VectorAgrees(r.p) /\ \E v : VectorsOf(r.p) \subseteq {v}
        BY <2>2, <2>10 DEF RatedView, Writing
      <3>4. VectorAgrees(r.p)' /\ VectorsOf(r.p)' = VectorsOf(r.p)
        BY <1>5, <2>3, <2>5, <2>6, <3>3, NilAssumption DEF VectorAgrees, VectorsOf
      <3>5. profiles'[r.p].power = NewPower(f) /\ profiles'[r.p].level = NewLevel(f)
        BY <2>5, <2>6, <2>9, <3>2
      <3>6. f.pc \notin {"save", "insert", "read_power", "write_power"}
            /\ f.ask.kind # "evaluate" /\ Adjusts(f)
        BY <1>3, <2>8
      <3>7. r.p \notin seen'.synced => f.old = Replayed(logs'[r.p])
        BY <1>5, <2>8, <3>1
      <3> QED BY <2>8, <3>3, <3>4, <3>5, <3>6, <3>7 DEF RatedView, Writing
    <2>11. f.pc # "idle"
      BY <2>8
    <2> QED BY <1>p, <1>1, <1>3, <1>5, <2>2, <2>7, <2>8, <2>10, <2>11, RatedMove
  <1> QED BY <1>6, <1>7, <1>8

\* Searches see no provider as rated, and failures leave what is half done marked as torn.
LEMMA RatedSearch ==
    ASSUME ProvidersInv, RatedInv, NEW h \in Slot,
           \/ GetDemand(h) \/ SearchVectors(h) \/ EnrichProviders(h)
           \/ GenerateRecommendations(h) \/ save_match_results(h)
    PROVE  RatedInv'
  <1>1. Busy(h) /\ handlers[h].pc \in {"demand", "search", "enrich", "llm", "save_results"}
    BY DEF GetDemand, SearchVectors, EnrichProviders, GenerateRecommendations, save_match_results, At, Busy
  <1>2. handlers[h].ask.kind = "recommend" /\ RequestOK(handlers[h])
    BY <1>1, KnownRequest, Kinds DEF RequestOK, StepsOf
  <1>3. UNCHANGED <<profiles, logs, teams, vectors, seen>> /\ Grown
    BY DEF GetDemand, SearchVectors, EnrichProviders, GenerateRecommendations, save_match_results, tables, Grown
  <1>4. \A x : Untouched(x)
    BY <1>3, TablesUntouched
  <1>5. PICK f : f = Following(handlers[h])
    OBVIOUS
  <1>6. f = Idle \/ (DOMAIN f = Carries /\ f.ask = handlers[h].ask)
    BY <1>1, <1>2, <1>5, Follows DEF RequestOK, Carries
  <1>7. \E q : Goes(h, q) /\ (q.pc = "idle" \/ q.ask.kind = "recommend")
    <2>1. Goes(h, Idle) \/ Goes(h, f) \/ \E found : Goes(h, [f EXCEPT !.found = found])
      BY <1>5 DEF GetDemand, SearchVectors, EnrichProviders, GenerateRecommendations, save_match_results, Enriched
    <2>2. CASE Goes(h, Idle) \/ (f = Idle /\ Goes(h, f))
      BY <2>2 DEF Idle
    <2>3. CASE Goes(h, f) /\ f # Idle
      BY <1>2, <1>6, <2>3
    <2>4. ASSUME NEW found, Goes(h, [f EXCEPT !.found = found])
          PROVE  \E q : Goes(h, q) /\ (q.pc = "idle" \/ q.ask.kind = "recommend")
      <3>1. PICK q : q = [f EXCEPT !.found = found]
        OBVIOUS
      <3>2. q.pc = "idle" \/ q.ask.kind = "recommend"
        BY <1>2, <1>6, <3>1 DEF Carries, Idle
      <3> QED BY <2>4, <3>1, <3>2
    <2> QED BY <2>1, <2>2, <2>3, <2>4
  <1>8. \A g \in Slot, x \in Provider : (Rates(g, x)' <=> Rates(g, x)) /\ (Rates(g, x) => handlers'[g] = handlers[g])
    <2>1. PICK q : Goes(h, q) /\ (q.pc = "idle" \/ q.ask.kind = "recommend")
      BY <1>7
    <2>2. handlers'[h] = q /\ \A g \in Slot : g # h => handlers'[g] = handlers[g]
      BY <2>1 DEF Goes, ProvidersInv, InFlight
    <2> QED BY <1>2, <2>1, <2>2 DEF Rates, Busy, At
  <1> QED BY <1>3, <1>4, <1>8, RatedLeave

LEMMA RatedTrouble ==
    ASSUME ProvidersInv, RatedInv, NEW h \in Slot, MySQLFails(h) \/ MilvusFails(h)
    PROVE  RatedInv'
  <1>p. PICK r : r = handlers[h]
    OBVIOUS
  <1>1. Busy(h) /\ RequestOK(r) /\ r.p \in Provider
    <2>1. Busy(h)
      BY DEF MySQLFails, MilvusFails, Runs
    <2> QED BY <1>p, <2>1, KnownRequest
  <1>2. UNCHANGED <<profiles, logs, teams, vectors>> /\ Mark("torn", Broken(r))
    BY <1>p DEF MySQLFails, MilvusFails, tables
  <1>3. Grown /\ seen'.synced = seen.synced /\ Broken(r) \subseteq seen'["torn"]
    BY <1>2, MarkGrown
  <1>4. \A x : Untouched(x)
    BY <1>2, <1>3, TablesUntouched
  <1>5. \E q : Goes(h, q) /\ (q.pc = "idle" \/ (q.ask.kind = "recommend" /\ r.ask.kind = "recommend"))
    <2>1. CASE Goes(h, Idle)
      BY <2>1 DEF Idle
    <2>2. CASE At(h, "enrich") /\ \E users : Goes(h, Enriched(r, users))
      <3>1. r.ask.kind = "recommend" /\ r.pc = "enrich"
        BY <1>p, <1>1, <2>2, Kinds DEF RequestOK, StepsOf, At
      <3>2. PICK f : f = Following(r)
        OBVIOUS
      <3>3. f = Idle \/ (DOMAIN f = Carries /\ f.ask = r.ask)
        BY <1>1, <3>1, <3>2, Follows DEF RequestOK, Carries
      <3>4. Goes(h, Idle) \/ \E found : Goes(h, [f EXCEPT !.found = found])
        BY <2>2, <3>2 DEF Enriched
      <3>5. ASSUME NEW found, Goes(h, [f EXCEPT !.found = found])
            PROVE  \E q : Goes(h, q) /\ (q.pc = "idle" \/ (q.ask.kind = "recommend" /\ r.ask.kind = "recommend"))
        <4>1. PICK q : q = [f EXCEPT !.found = found]
          OBVIOUS
        <4>2. q.pc = "idle" \/ q.ask.kind = "recommend"
          BY <3>1, <3>3, <4>1 DEF Carries, Idle
        <4> QED BY <3>1, <3>5, <4>1, <4>2
      <3> QED BY <2>1, <3>4, <3>5
    <2> QED BY <1>p, <2>1, <2>2 DEF MySQLFails, MilvusFails, OnError
  <1>6. PICK q : Goes(h, q) /\ (q.pc = "idle" \/ (q.ask.kind = "recommend" /\ r.ask.kind = "recommend"))
    BY <1>5
  <1>7. handlers'[h] = q /\ \A g \in Slot : g # h => handlers'[g] = handlers[g]
    BY <1>6 DEF Goes, ProvidersInv, InFlight
  <1>8. \A g \in Slot, x \in Provider : Rates(g, x)' => Rates(g, x) /\ handlers'[g] = handlers[g]
    BY <1>6, <1>7 DEF Rates, Busy, At
  <1>9. \A g \in Slot, x \in Provider : Rates(g, x) => Rates(g, x)' \/ x \in seen'.torn
    BY <1>p, <1>3, <1>7 DEF Rates, Busy, At, Broken
  <1> QED BY <1>3, <1>4, <1>8, <1>9, RatedLeave

LEMMA RatedRestart ==
    ASSUME ProvidersInv, RatedInv, NEW w \in Worker, Restart(w)
    PROVE  RatedInv'
  <1> DEFINE lost == {h \in Slot : Busy(h) /\ handlers[h].w = w}
  <1>0. PICK broken : broken = UNION {Broken(handlers[h]) : h \in lost}
    OBVIOUS
  <1>1. /\ handlers' = [h \in Slot |-> IF h \in lost THEN Idle ELSE handlers[h]]
        /\ Mark("torn", broken)
        /\ UNCHANGED <<profiles, logs, teams, vectors>>
    BY <1>0 DEF Restart, tables
  <1>2. Grown /\ seen'.synced = seen.synced /\ broken \subseteq seen'["torn"]
    BY <1>1, MarkGrown
  <1>3. \A x : Untouched(x)
    BY <1>1, <1>2, TablesUntouched
  <1>4. \A g \in Slot : IF g \in lost THEN handlers'[g] = Idle /\ Busy(g) ELSE handlers'[g] = handlers[g]
    BY <1>1
  <1>5. \A g \in Slot, x \in Provider : Rates(g, x)' => Rates(g, x) /\ handlers'[g] = handlers[g]
    BY <1>4 DEF Rates, Busy, At, Idle
  <1>6. \A g \in lost : handlers[g].ask.kind # "recommend" => handlers[g].p \in broken
    BY <1>0 DEF Broken
  <1>7. \A g \in Slot, x \in Provider : Rates(g, x) => Rates(g, x)' \/ x \in seen'.torn
    BY <1>2, <1>4, <1>6 DEF Rates, Busy, At
  <1> QED BY <1>2, <1>3, <1>5, <1>7, RatedLeave

\* Every step keeps what the tables say of a provider.
LEMMA RatedNext ==
    ASSUME ProvidersInv, RatedInv, [Next]_vars
    PROVE  RatedInv'
  <1>1. CASE UNCHANGED vars
    <2>1. Grown /\ UNCHANGED <<profiles, logs, teams, vectors>> /\ seen'.synced = seen.synced
      BY <1>1 DEF Grown, vars, tables
    <2>2. \A g \in Slot, x \in Provider : (Rates(g, x)' <=> Rates(g, x)) /\ handlers'[g] = handlers[g]
      BY <1>1 DEF Rates, Busy, At, vars
    <2> QED BY <2>1, <2>2, TablesUntouched, RatedLeave
  <1>2. ASSUME NEW h \in Slot,
               \/ Arrive(h) \/ BeginEvaluation(h) \/ AnswerText(h) \/ AnswerTool(h) \/ ExecuteTool(h)
               \/ Collect(h) \/ EndStream(h)
        PROVE  RatedInv'
    BY <1>2, RatedArrive, RatedEarly
  <1>3. ASSUME NEW h \in Slot,
               \/ save_provider_profile(h) \/ add_power_log(h) \/ sync_profile_to_team(h)
               \/ DeleteVector(h) \/ InsertVector(h) \/ GetProfile(h) \/ ReadPower(h) \/ WritePower(h)
        PROVE  RatedInv'
    BY <1>3, RatedSave, RatedLog, RatedTeam, RatedVectors, RatedAdjust
  <1>4. ASSUME NEW h \in Slot,
               \/ GetDemand(h) \/ SearchVectors(h) \/ EnrichProviders(h) \/ GenerateRecommendations(h)
               \/ save_match_results(h) \/ MySQLFails(h) \/ MilvusFails(h) \/ EvaluationFails(h)
        PROVE  RatedInv'
    BY <1>4, RatedSearch, RatedTrouble, RatedEarly
  <1>5. ASSUME NEW w \in Worker, Restart(w) PROVE RatedInv'
    BY <1>5, RatedRestart
  <1> QED BY <1>1, <1>2, <1>3, <1>4, <1>5 DEF Next

LEMMA InitRated ==
    ASSUME Init
    PROVE  RatedInv
  <1>1. (\A h \in Slot : handlers[h] = Idle) /\ vectors = {} /\ \A p \in Provider : profiles[p] = Nil
    BY DEF Init
  <1>2. \A g \in Slot : \A p : ~Rates(g, p)
    BY <1>1 DEF Rates, Busy, At, Idle
  <1>3. ASSUME NEW p \in Provider
        PROVE  RatedView(p, Idle)
    <2>1. VectorsOf(p) = {} /\ TeamAgrees(p) /\ HistoryAgrees(p) /\ VectorAgrees(p)
      BY <1>1 DEF VectorsOf, TeamAgrees, HistoryAgrees, VectorAgrees
    <2> QED BY <2>1 DEF RatedView, Idle, Writing
  <1>4. \A p \in Provider : \A r \in Raters(p) : r = Idle
    BY <1>2 DEF Raters, Quiet
  <1> QED BY <1>2, <1>3, <1>4 DEF RatedInv, OneRates

LEMMA RatedInvariant == Spec => [](ProvidersInv /\ RatedInv)
  <1>1. Init => ProvidersInv /\ RatedInv
    BY InitInv, InitRated
  <1>2. ProvidersInv /\ RatedInv /\ [Next]_vars => (ProvidersInv /\ RatedInv)'
    BY StepInv, RatedNext
  <1> QED BY <1>1, <1>2, PTL DEF Spec

\* Nobody works on an undisturbed provider, so everything about it agrees.
LEMMA Settles ==
    ASSUME RatedInv, NEW p \in Provider, Undisturbed(p)
    PROVE  /\ p \notin seen.synced => TeamAgrees(p) /\ HistoryAgrees(p)
           /\ VectorAgrees(p) /\ \E v : VectorsOf(p) \subseteq {v}
  <1>1. RatedView(p, Idle)
    BY IdleView DEF Undisturbed
  <1>2. Idle.pc = "idle"
    BY DEF Idle
  <1> QED BY <1>1, <1>2 DEF RatedView, Writing

\* The points of a provider are what its history of points adds up to, however long that has
\* become, when its requests neither overlapped nor failed halfway and the server sent nothing:
\* rating_router.py 161-167, 546-559.
THEOREM LedgerIsReplayed == Spec => []LedgerReplays
  <1>1. RatedInv => LedgerReplays
    BY Settles DEF LedgerReplays, HistoryAgrees, Undisturbed
  <1> QED BY <1>1, RatedInvariant, PTL

\* The server's row of a team says the same as the profile, for every provider whose requests
\* neither overlapped nor failed halfway: rating_router.py 168-169 writes what was just stored,
\* 561-566 what was computed from the row read first.
THEOREM TeamsFollow == Spec => []TeamFollows
  <1>1. RatedInv => TeamFollows
    BY Settles DEF TeamFollows, TeamAgrees, Undisturbed
  <1> QED BY <1>1, RatedInvariant, PTL

\* The level of such a provider is the one of its points, capped only when an evaluation was
\* the last to set it: rating_router.py 101 and 544.
THEOREM LevelsAreEarned == Spec => []LevelEarned
  <1>1. RatedInv => LevelEarned
    BY Settles DEF LevelEarned, HistoryAgrees, Undisturbed
  <1> QED BY <1>1, RatedInvariant, PTL

\* The search finds such a provider once, with the skills of its profile: the vector that
\* milvus_store.py 293-310 inserts follows the deletion of all others.
THEOREM VectorsAreCurrent == Spec => []VectorCurrent
  <1>1. ASSUME NEW S, NEW v, S \subseteq {v}
        PROVE  Cardinality(S) <= 1
    <2>1. S = {} \/ S = {v}
      BY <1>1
    <2>2. Cardinality(S) \in {0, 1}
      BY <2>1, FS_EmptySet, FS_Singleton
    <2> QED BY <2>2
  <1>2. RatedInv => VectorCurrent
    <2> SUFFICES ASSUME RatedInv, NEW p \in Provider, Undisturbed(p)
                 PROVE  /\ Cardinality(VectorsOf(p)) <= 1
                        /\ Joinable(profiles[p].skills) => \E v \in VectorsOf(p) : v.skills = profiles[p].skills.names
      BY DEF VectorCurrent
    <2>1. VectorAgrees(p) /\ \E v : VectorsOf(p) \subseteq {v}
      BY Settles
    <2>2. Cardinality(VectorsOf(p)) <= 1
      BY <1>1, <2>1
    <2> QED BY <2>1, <2>2 DEF VectorAgrees, Undisturbed
  <1> QED BY <1>2, RatedInvariant, PTL

-----------------------------------------------------------------------------
\* The ranking of a search.

Vector == [p : Provider, n : Nat, skills : SUBSET Skill, credit : Int]
Candidate == [provider : Provider, score : Int]

LEMMA Bounds ==
    ASSUME NEW a \in Int, NEW b \in Int
    PROVE  AtMost(a, b) \in Int /\ AtLeast(a, b) \in Int /\ Distance(a, b) \in Int
  BY DEF AtMost, AtLeast, Distance

LEMMA PriceTyped ==
    ASSUME NEW demand, demand.budget_min \in Nat, demand.budget_max \in Nat, NEW provider, provider.price \in Int
    PROVE  PriceMatch(demand, provider) \in Int
  <1> SUFFICES ASSUME demand.budget_max # 0,
                      ~(demand.budget_min <= provider.price /\ provider.price <= demand.budget_max),
                      provider.price # 0
               PROVE  PriceMatch(demand, provider) \in Int
    BY DEF PriceMatch
  <1>1. PICK twice \in Nat \ {0} : twice = demand.budget_min + demand.budget_max
    OBVIOUS
  <1>2. PICK d \in Int : d = Distance(2 * provider.price, twice)
    <2>1. 2 * provider.price \in Int /\ twice \in Int
      OBVIOUS
    <2> QED BY <2>1, Bounds
  <1>3. 1000 - (1000 * d) \div twice \in Int
    OBVIOUS
  <1>4. AtLeast(1000 - (1000 * d) \div twice, 0) \in Int
    BY <1>3, Bounds
  <1> QED BY <1>1, <1>2, <1>4 DEF PriceMatch

\* A score is a number.
LEMMA ScoreTyped ==
    ASSUME NEW v \in Vector, NEW user \in User, NEW similarity \in Int
    PROVE  calculate_match_score(Demand, parse_provider(v, user), similarity) \in Int
  <1>1. PICK provider : provider = parse_provider(v, user)
    OBVIOUS
  <1>2. /\ provider.orders \in Int /\ provider.rating \in Int /\ provider.completion \in Int
        /\ provider.price \in Int /\ provider.minutes \in Int /\ provider.registered \in Int
    BY <1>1 DEF parse_provider, User
  <1>3. SkillMatch(Demand, provider, similarity) \in Int
    <2> SUFFICES ASSUME Demand.skills # {} PROVE SkillMatch(Demand, provider, similarity) \in Int
      BY DEF SkillMatch
    <2>1. IsFiniteSet(Demand.skills)
      BY Demanded
    <2>2. IsFiniteSet(Demand.skills \cap provider.skills)
      BY <2>1, FS_Subset
    <2>3. PICK common, all : /\ common = Cardinality(Demand.skills \cap provider.skills)
                             /\ all = Cardinality(Demand.skills)
      OBVIOUS
    <2>4. common \in Nat /\ all \in Nat /\ all # 0
      BY <2>1, <2>2, <2>3, FS_CardinalityType, FS_EmptySet
    <2>5. (600 * common) \div all \in Int /\ (400 * similarity) \div 1000 \in Int
      BY <2>4
    <2> QED BY <2>3, <2>5 DEF SkillMatch
  <1>4. RatingShare(provider) \in Int
    BY <1>2 DEF RatingShare
  <1>5. PriceMatch(Demand, provider) \in Int
    <2>1. Demand.budget_min \in Nat /\ Demand.budget_max \in Nat
      BY Demanded
    <2> QED BY <1>2, <2>1, PriceTyped
  <1>6. ResponseSpeed(provider) \in Int
    <2>1. 1000 - (1000 * provider.minutes) \div 2880 \in Int
      BY <1>2
    <2> QED BY <2>1, Bounds DEF ResponseSpeed
  <1>7. PortfolioSimilarity(similarity) \in Int
    BY Bounds DEF PortfolioSimilarity
  <1>8. \A score \in Int : Boosted(provider, score) \in Int
    BY DEF Boosted
  <1>9. PICK score \in Int :
            score = 30 * SkillMatch(Demand, provider, similarity) + 25 * RatingShare(provider)
                    + 20 * PriceMatch(Demand, provider) + 15 * ResponseSpeed(provider)
                    + 10 * PortfolioSimilarity(similarity)
    BY <1>3, <1>4, <1>5, <1>6, <1>7
  <1>10. AtMost(Boosted(provider, score), 100000) \in Int
    BY <1>8, Bounds
  <1> QED BY <1>1, <1>9, <1>10 DEF calculate_match_score

\* t has the candidates of s, each from a place of its own, the best first.
BestFirst(c, t, s, n) ==
    /\ t = [k \in 1..n |-> s[c[k]]]
    /\ \A k, l \in 1..n : k < l => c[k] # c[l] /\ s[c[k]].score >= s[c[l]].score

LEMMA SortedIs ==
    ASSUME NEW n \in Nat, NEW s \in [1..n -> Candidate]
    PROVE  \E c \in [1..n -> 1..n] : BestFirst(c, sort_candidates(s), s, n)
  <1> DEFINE Before(j, i) == s[j].score > s[i].score \/ (s[j].score = s[i].score /\ j < i)
             Under == [i \in 1..n |-> {j \in 1..n : Before(j, i)}]
             c == [k \in 1..n |-> CHOOSE i \in 1..n : Ranks(s, i) = k]
  <1>1. \A i \in 1..n : s[i].score \in Int
    BY DEF Candidate
  <1>2. ASSUME NEW i \in 1..n
        PROVE  Ranks(s, i) = 1 + Cardinality(Under[i]) /\ IsFiniteSet(Under[i])
    <2>1. {j \in DOMAIN s : s[j].score > s[i].score \/ (s[j].score = s[i].score /\ j <= i)} = Under[i] \cup {i}
      BY <1>1
    <2>2. i \notin Under[i] /\ Under[i] \subseteq 1..n
      BY <1>1
    <2>3. IsFiniteSet(1..n)
      BY FS_Interval, SMTT(30)
    <2>4. IsFiniteSet(Under[i])
      BY <2>2, <2>3, FS_Subset
    <2>5. Cardinality(Under[i] \cup {i}) = Cardinality(Under[i]) + 1
      BY <2>2, <2>4, FS_AddElement
    <2>6. Cardinality(Under[i]) \in Nat
      BY <2>4, FS_CardinalityType
    <2>7. Ranks(s, i) = Cardinality(Under[i] \cup {i})
      BY <2>1 DEF Ranks
    <2> HIDE DEF Under
    <2> QED BY <2>4, <2>5, <2>6, <2>7
  <1>3. \A i, j \in 1..n : i \in Under[j] => Under[i] \subseteq Under[j]
    BY <1>1
  <1>4. \A i \in 1..n : Under[i] \subseteq (1..n) \ {i}
    BY <1>1
  <1>5. \A i, j \in 1..n : i # j => i \in Under[j] \/ j \in Under[i]
    BY <1>1
  <1>6. \A k \in 1..n : \E i \in 1..n : 1 + Cardinality(Under[i]) = k
    <2> HIDE DEF Under
    <2> QED BY <1>3, <1>4, <1>5, PlacesTaken
  <1>7. \A k \in 1..n : c[k] \in 1..n /\ Ranks(s, c[k]) = k
    <2> SUFFICES ASSUME NEW k \in 1..n PROVE c[k] \in 1..n /\ Ranks(s, c[k]) = k
      OBVIOUS
    <2>1. \E i \in 1..n : Ranks(s, i) = k
      BY <1>2, <1>6
    <2> QED BY <2>1
  <1>8. ASSUME NEW k \in 1..n, NEW l \in 1..n, k < l
        PROVE  c[k] # c[l] /\ s[c[k]].score >= s[c[l]].score
    <2>1. PICK i \in 1..n, j \in 1..n : i = c[k] /\ j = c[l] /\ Ranks(s, i) = k /\ Ranks(s, j) = l
      BY <1>7
    <2>2. i # j
      BY <1>8, <2>1
    <2>3. ~ (s[j].score > s[i].score)
      <3> SUFFICES ASSUME s[j].score > s[i].score PROVE FALSE
        OBVIOUS
      <3>1. j \in Under[i]
        BY <1>1
      <3>2. Under[j] \subseteq Under[i]
        BY <1>3, <3>1
      <3>3. Cardinality(Under[j]) <= Cardinality(Under[i]) /\ Cardinality(Under[j]) \in Nat /\ Cardinality(Under[i]) \in Nat
        BY <1>2, <3>2, FS_Subset, FS_CardinalityType
      <3>4. k = 1 + Cardinality(Under[i]) /\ l = 1 + Cardinality(Under[j])
        BY <1>2, <2>1
      <3> HIDE DEF Under
      <3> QED BY <1>8, <3>3, <3>4
    <2>4. s[i].score >= s[j].score
      BY <1>1, <2>3
    <2> HIDE DEF c
    <2> QED BY <2>1, <2>2, <2>4
  <1>9. sort_candidates(s) = [k \in 1..n |-> s[c[k]]]
    BY DEF sort_candidates
  <1>10. c \in [1..n -> 1..n]
    BY <1>7
  <1> HIDE DEF c
  <1> QED BY <1>8, <1>9, <1>10 DEF BestFirst

LEMMA PieceOf ==
    ASSUME NEW S, NEW n \in Nat, NEW s \in [1..n -> S], NEW m \in Nat, NEW last \in Int, last <= n
    PROVE  SubSeq(s, m + 1, last) = [k \in 1..(last - m) |-> s[k + m]]
  <1> DEFINE t == SubSeq(s, m + 1, last)
             u == [k \in 1..(last - m) |-> s[k + m]]
  <1>1. s \in Seq(S) /\ Len(s) = n
    OBVIOUS
  <1>2. t \in Seq(S) /\ Len(t) = IF m + 1 <= last THEN last - m ELSE 0
    BY <1>1
  <1>3. \A k \in 1..(last - m) : t[k] = s[k + m]
    BY <1>1
  <1>4. t = [k \in 1..Len(t) |-> t[k]]
    BY <1>2
  <1>5. 1..Len(t) = 1..(last - m)
    BY <1>2
  <1> HIDE DEF t
  <1> QED BY <1>3, <1>4, <1>5

\* A page is a piece of the candidates.
IsPiece(t, s, n) == \E m \in Nat, l \in Nat : m + l <= n /\ t = [k \in 1..l |-> s[k + m]]
LEMMA PageIs ==
    ASSUME NEW n \in Nat, NEW s \in [1..n -> Candidate], NEW page \in Nat, NEW page_size \in Nat
    PROVE  IsPiece(page_of(s, page, page_size), s, n)
  <1>1. PICK size \in Int : size = AtMost(page_size, MaxPageSize)
    BY Bounds DEF MaxPageSize
  <1>2. PICK before \in Int, upto \in Int : before = (page - 1) * size /\ upto = page * size
    BY <1>1
  <1>3. Len(s) = n
    OBVIOUS
  <1>4. PICK m \in Nat : m = AtLeast(before, 0)
    BY <1>2 DEF AtLeast
  <1>5. PICK last \in Int : last = AtMost(upto, n) /\ last <= n
    BY <1>2 DEF AtMost
  <1>6. page_of(s, page, page_size) = SubSeq(s, m + 1, last)
    BY <1>1, <1>2, <1>3, <1>4, <1>5 DEF page_of
  <1>10. SubSeq(s, m + 1, last) = [k \in 1..(last - m) |-> s[k + m]]
    BY <1>5, PieceOf
  <1>11. CASE last >= m
    <2>1. last - m \in Nat /\ m + (last - m) <= n
      BY <1>5, <1>11
    <2> QED BY <1>6, <1>10, <2>1 DEF IsPiece
  <1>12. CASE last < m
    <2>1. 1..(last - m) = 1..0
      BY <1>12
    <2>2. page_of(s, page, page_size) = [k \in 1..0 |-> s[k + 0]]
      BY <1>6, <1>10, <2>1
    <2> QED BY <2>2 DEF IsPiece
  <1> QED BY <1>11, <1>12

\* What a search has found at each step: no provider twice but a crowded one, and then
\* the best first.
HitsOK(s, crowded) ==
    \E n \in Nat : s \in [1..n -> Vector] /\ \A i, j \in 1..n : i # j /\ s[i].p = s[j].p => s[i].p \in crowded
PageOK(s, crowded) ==
    \E n \in Nat :
        /\ s \in [1..n -> Candidate]
        /\ \A i, j \in 1..n : i < j =>
              s[i].score >= s[j].score /\ (s[i].provider = s[j].provider => s[i].provider \in crowded)
RowsOK(rows, crowded) ==
    \A x, y \in rows : x.by = "score" /\ y.by = "score" /\ x.rank < y.rank =>
        x.score >= y.score /\ (x.provider = y.provider => x.provider \in crowded)
FoundOK(r, crowded) ==
    /\ r.pc = "enrich" => HitsOK(r.found, crowded)
    /\ r.pc = "llm" => PageOK(r.found, crowded)
    /\ r.pc = "save_results" => RowsOK(ToSet(r.found), crowded)

LEMMA FoundStays ==
    ASSUME NEW r, NEW crowded, NEW more, crowded \subseteq more, FoundOK(r, crowded)
    PROVE  FoundOK(r, more)
  <1>1. ASSUME NEW s, HitsOK(s, crowded) PROVE HitsOK(s, more)
    BY <1>1 DEF HitsOK
  <1>2. ASSUME NEW s, PageOK(s, crowded) PROVE PageOK(s, more)
    BY <1>2 DEF PageOK
  <1>3. ASSUME NEW s, RowsOK(s, crowded) PROVE RowsOK(s, more)
    BY <1>3 DEF RowsOK
  <1> QED BY <1>1, <1>2, <1>3 DEF FoundOK

LEMMA HitsFound ==
    ASSUME NEW crowded, vectors \subseteq Vector, IsFiniteSet(vectors),
           \A u, v \in vectors : u.p = v.p => u = v \/ u.p \in crowded,
           NEW ask, NEW hits \in Hits(ask)
    PROVE  HitsOK(hits, crowded)
  <1>1. PICK fit : fit = {v \in vectors : ask.verified => v.credit >= 600}
    OBVIOUS
  <1>2. PICK order \in SetToSeqs(fit) : hits = SubSeq(order, 1, AtMost(TopK, Len(order)))
    BY <1>1 DEF Hits
  <1>3. PICK n : n = Cardinality(fit)
    OBVIOUS
  <1>4. n \in Nat
    <2>1. fit \subseteq vectors
      BY <1>1
    <2> QED BY <1>3, <2>1, FS_Subset, FS_CardinalityType
  <1>5. order \in [1..n -> fit] /\ \A i, j \in 1..n : order[i] = order[j] => i = j
    BY <1>2, <1>3 DEF SetToSeqs
  <1>6. Len(order) = n
    BY <1>4, <1>5
  <1>7. PICK l \in Nat : l = AtMost(TopK, n) /\ l <= n
    BY <1>4, Limits DEF AtMost
  <1>8. hits = [k \in 1..l |-> order[k]]
    <2>1. hits = SubSeq(order, 0 + 1, l)
      BY <1>2, <1>6, <1>7
    <2>2. SubSeq(order, 0 + 1, l) = [k \in 1..(l - 0) |-> order[k + 0]]
      BY <1>4, <1>5, <1>7, PieceOf
    <2> QED BY <2>1, <2>2
  <1>9. \A i \in 1..l : i \in 1..n /\ hits[i] = order[i] /\ hits[i] \in vectors
    BY <1>1, <1>4, <1>5, <1>7, <1>8
  <1>10. hits \in [1..l -> Vector]
    BY <1>8, <1>9
  <1>11. ASSUME NEW i \in 1..l, NEW j \in 1..l, i # j, hits[i].p = hits[j].p PROVE hits[i].p \in crowded
    <2>1. hits[i] # hits[j]
      BY <1>5, <1>9, <1>11
    <2> QED BY <1>9, <1>11, <2>1
  <1> QED BY <1>10, <1>11 DEF HitsOK

LEMMA SimilarityTyped == \A v : Similarity(v) \in Int
  BY DEF Similarity

LEMMA PageRanked ==
    ASSUME NEW crowded, NEW r, HitsOK(r.found, crowded), NEW users \in [Provider -> User],
           r.ask.page \in Nat, r.ask.page_size \in Nat
    PROVE  PageOK(PageOf(r, users), crowded)
  <1>1. PICK n \in Nat : /\ r.found \in [1..n -> Vector]
                         /\ \A i, j \in 1..n : i # j /\ r.found[i].p = r.found[j].p => r.found[i].p \in crowded
    BY DEF HitsOK
  <1>2. PICK s : s = Scored(r.found, users)
    OBVIOUS
  <1>3. s \in [1..n -> Candidate] /\ \A i \in 1..n : s[i].provider = r.found[i].p
    <2>1. \A i \in 1..n : r.found[i] \in Vector /\ r.found[i].p \in Provider
      BY <1>1 DEF Vector
    <2>2. \A i \in 1..n :
              calculate_match_score(Demand, parse_provider(r.found[i], users[r.found[i].p]), Similarity(r.found[i])) \in Int
      <3>1. \A i \in 1..n : users[r.found[i].p] \in User
        BY <2>1
      <3> QED BY <2>1, <3>1, SimilarityTyped, ScoreTyped
    <2>3. s = [i \in 1..n |->
                  [provider |-> r.found[i].p,
                   score |-> calculate_match_score(Demand, parse_provider(r.found[i], users[r.found[i].p]), Similarity(r.found[i]))]]
      BY <1>1, <1>2 DEF Scored
    <2> QED BY <2>1, <2>2, <2>3 DEF Candidate
  <1>4. PICK t : t = sort_candidates(s)
    OBVIOUS
  <1>12. PICK c \in [1..n -> 1..n] : BestFirst(c, t, s, n)
    BY <1>3, <1>4, SortedIs
  <1>13. /\ t = [k \in 1..n |-> s[c[k]]]
         /\ \A k, l \in 1..n : k < l => c[k] # c[l] /\ s[c[k]].score >= s[c[l]].score
    BY <1>12 DEF BestFirst
  <1>5. t \in [1..n -> Candidate]
    BY <1>3, <1>13
  <1>6. PICK page : page = PageOf(r, users)
    OBVIOUS
  <1>7. page = page_of(t, r.ask.page, r.ask.page_size)
    BY <1>2, <1>4, <1>6 DEF PageOf
  <1>8. PICK m \in Nat, l \in Nat : m + l <= n /\ page = [k \in 1..l |-> t[k + m]]
    <2>1. IsPiece(page, t, n)
      BY <1>5, <1>7, PageIs
    <2> QED BY <2>1 DEF IsPiece
  <1>9. ASSUME NEW k \in 1..l
        PROVE  k + m \in 1..n /\ page[k] = t[k + m] /\ t[k + m] = s[c[k + m]] /\ c[k + m] \in 1..n
    <2>1. k + m \in 1..n
      BY <1>8
    <2> QED BY <1>8, <1>13, <2>1
  <1>10. page \in [1..l -> Candidate]
    BY <1>5, <1>8, <1>9
  <1>11. ASSUME NEW i \in 1..l, NEW j \in 1..l, i < j
        PROVE  /\ page[i].score >= page[j].score
               /\ page[i].provider = page[j].provider => page[i].provider \in crowded
    <2>1. PICK a \in 1..n, b \in 1..n : a = c[i + m] /\ b = c[j + m] /\ page[i] = s[a] /\ page[j] = s[b]
      BY <1>9
    <2>2. a # b /\ s[a].score >= s[b].score
      <3>1. i + m \in 1..n /\ j + m \in 1..n /\ i + m < j + m
        BY <1>8, <1>9, <1>11
      <3>2. c[i + m] # c[j + m] /\ s[c[i + m]].score >= s[c[j + m]].score
        BY <1>13, <3>1
      <3> QED BY <2>1, <3>2
    <2> QED BY <1>1, <1>3, <2>1, <2>2
  <1> QED BY <1>6, <1>10, <1>11 DEF PageOK

LEMMA RowsRanked ==
    ASSUME NEW crowded, NEW page, PageOK(page, crowded)
    PROVE  RowsOK(ToSet(fallback_recommendations(page)), crowded)
  <1>1. PICK n \in Nat :
            /\ page \in [1..n -> Candidate]
            /\ \A i, j \in 1..n : i < j =>
                  page[i].score >= page[j].score /\ (page[i].provider = page[j].provider => page[i].provider \in crowded)
    BY DEF PageOK
  <1>2. \A x \in ToSet(fallback_recommendations(page)) :
            \E i \in 1..n : x.rank = i /\ x.score = page[i].score /\ x.provider = page[i].provider
    BY <1>1 DEF ToSet, fallback_recommendations
  <1> QED BY <1>1, <1>2 DEF RowsOK

LEMMA ModelRows ==
    ASSUME NEW crowded, NEW page, NEW rows \in ModelRecommends(page)
    PROVE  RowsOK(ToSet(rows), crowded)
  <1>1. \A x \in ToSet(rows) : x.by = "model"
    BY DEF ModelRecommends, ToSet
  <1> QED BY <1>1 DEF RowsOK

-----------------------------------------------------------------------------
\* Searches under way, and what they have stored.

\* Each request has a number of its own, and no results until it ends.
NumberInv ==
    /\ \A h \in Slot : Busy(h) => handlers[h].n \in 1..requests
    /\ \A g, h \in Slot : Busy(g) /\ Busy(h) /\ handlers[g].n = handlers[h].n => g = h
    /\ \A z \in results : z.n \in 1..requests
    /\ \A h \in Slot, z \in results : Busy(h) => z.n # handlers[h].n
\* One vector for each provider whose requests did not overlap, none between the halves
\* of an upsert.
SingleInv ==
    /\ IsFiniteSet(vectors)
    /\ \A u, v \in vectors : u.p = v.p => u = v \/ u.p \in seen.crowded
    /\ \A h \in Slot, v \in vectors : At(h, "insert") /\ v.p = handlers[h].p => v.p \in seen.crowded
FoundInv == \A h \in Slot : FoundOK(handlers[h], seen.crowded)
RankInv == NumberInv /\ SingleInv /\ FoundInv /\ RankingSound

LEMMA RankStarts == Init => RankInv
  <1> SUFFICES ASSUME Init PROVE RankInv
    OBVIOUS
  <1>1. (\A h \in Slot : handlers[h].pc = "idle") /\ vectors = {} /\ results = {}
    BY DEF Init, Idle
  <1>2. IsFiniteSet(vectors)
    BY <1>1, FS_EmptySet
  <1> QED BY <1>1, <1>2 DEF RankInv, NumberInv, SingleInv, FoundInv, FoundOK, RankingSound, Busy, At

\* Steps of one request that store neither vectors nor results.
LEMMA RankMove ==
    ASSUME ProvidersInv, RankInv, NEW h \in Slot, Busy(h), NEW q, Goes(h, q),
           vectors' = vectors, results' = results, requests' = requests, seen.crowded \subseteq seen'.crowded,
           q.pc = "idle" \/ (q.n = handlers[h].n /\ q.pc # "insert"), FoundOK(q, seen.crowded)
    PROVE  RankInv'
  <1>1. handlers'[h] = q /\ \A g \in Slot : g # h => handlers'[g] = handlers[g]
    BY DEF Goes, ProvidersInv, InFlight
  <1>2. NumberInv'
    BY <1>1 DEF RankInv, NumberInv, Busy, At
  <1>3. SingleInv'
    BY <1>1 DEF RankInv, SingleInv, At
  <1>4. FoundInv'
    BY <1>1, FoundStays DEF RankInv, FoundInv
  <1>5. RankingSound'
    BY DEF RankInv, RankingSound
  <1> QED BY <1>2, <1>3, <1>4, <1>5 DEF RankInv

\* Such a step to any other than the last steps of a search needs no more.
LEMMA RankPlain ==
    ASSUME ProvidersInv, RankInv, NEW h \in Slot, Busy(h), NEW q, Goes(h, q),
           vectors' = vectors, results' = results, requests' = requests, seen.crowded \subseteq seen'.crowded,
           q = Idle \/ (q.n = handlers[h].n /\ q.pc \notin {"insert", "enrich", "llm", "save_results"})
    PROVE  RankInv'
  <1>1. q.pc = "idle" \/ (q.n = handlers[h].n /\ q.pc # "insert")
    BY DEF Idle
  <1>2. FoundOK(q, seen.crowded)
    BY DEF FoundOK, Idle
  <1> QED BY <1>1, <1>2, RankMove

LEMMA RankArrive ==
    ASSUME ProvidersInv, RankInv, NEW h \in Slot, Arrive(h)
    PROVE  RankInv'
  <1>1. PICK q, kind, p :
            /\ Goes(h, q) /\ q.pc = FirstStep(kind) /\ q.n = requests' /\ kind \in {"evaluate", "adjust", "sync", "recommend"}
            /\ Mark("crowded", p)
    <2>1. PICK p \in Provider, w \in Worker, ask \in scenario.asked[requests + 1] :
              /\ Goes(h, [pc |-> FirstStep(ask.kind), ask |-> ask, p |-> p, w |-> w, n |-> requests', iteration |-> 0,
                          tool |-> Nil, old |-> 0, read |-> Nil, found |-> <<>>,
                          profile |-> IF ask.kind = "sync" THEN SyncedProfile(ask.skills) ELSE Nil])
              /\ Mark("crowded", IF ask.kind # "recommend" /\ \E g \in Slot : Rates(g, p) THEN {p} ELSE {})
      BY DEF Arrive
    <2>2. PICK q : q = [pc |-> FirstStep(ask.kind), ask |-> ask, p |-> p, w |-> w, n |-> requests', iteration |-> 0,
                        tool |-> Nil, old |-> 0, read |-> Nil, found |-> <<>>,
                        profile |-> IF ask.kind = "sync" THEN SyncedProfile(ask.skills) ELSE Nil]
      OBVIOUS
    <2>3. ask \in Ask
      <3>1. scenario \in Scenarios /\ requests \in Nat /\ requests < Len(scenario.asked)
        BY DEF ProvidersInv, TypeOK, Arrive
      <3>2. scenario.asked \in Seq(SUBSET Ask) /\ requests + 1 \in 1..Len(scenario.asked)
        BY <3>1, ScenarioAssumption
      <3> QED BY <3>2
    <2>4. Goes(h, q) /\ q.pc = FirstStep(ask.kind) /\ q.n = requests'
      BY <2>1, <2>2
    <2> QED BY <2>1, <2>3, <2>4, Kinds
  <1>2. q.pc \in {"begin", "get_profile", "save", "demand"}
    BY <1>1 DEF FirstStep
  <1>3. handlers'[h] = q /\ \A g \in Slot : g # h => handlers'[g] = handlers[g]
    BY <1>1 DEF Goes, ProvidersInv, InFlight
  <1>4. /\ vectors' = vectors /\ results' = results /\ requests' = requests + 1 /\ requests \in Nat
        /\ ~Busy(h) /\ seen.crowded \subseteq seen'.crowded
    BY <1>1, MarkGrown DEF Arrive, tables, ProvidersInv, TypeOK, Grown
  <1>5. NumberInv'
    <2>1. \A g \in Slot : g # h /\ Busy(g) => handlers[g].n \in 1..requests /\ handlers[g].n # q.n
      BY <1>1, <1>4 DEF RankInv, NumberInv
    <2>2. \A z \in results : z.n \in 1..requests /\ z.n # q.n
      BY <1>1, <1>4 DEF RankInv, NumberInv
    <2>3. 1..requests \subseteq 1..requests' /\ q.n \in 1..requests'
      BY <1>1, <1>4
    <2> QED BY <1>3, <1>4, <2>1, <2>2, <2>3 DEF RankInv, NumberInv, Busy, At
  <1>6. SingleInv'
    BY <1>2, <1>3, <1>4 DEF RankInv, SingleInv, At
  <1>7. FoundInv'
    <2>1. FoundOK(q, seen'.crowded)
      BY <1>2 DEF FoundOK
    <2> QED BY <1>3, <1>4, <2>1, FoundStays DEF RankInv, FoundInv
  <1>8. RankingSound'
    BY <1>4 DEF RankInv, RankingSound
  <1> QED BY <1>5, <1>6, <1>7, <1>8 DEF RankInv

\* An evaluation until its profile is made.
LEMMA RankEarly ==
    ASSUME ProvidersInv, RankInv, NEW h \in Slot,
           \/ BeginEvaluation(h) \/ AnswerText(h) \/ AnswerTool(h) \/ ExecuteTool(h) \/ Collect(h) \/ EndStream(h)
           \/ EvaluationFails(h)
    PROVE  RankInv'
  <1>p. PICK r : r = handlers[h]
    OBVIOUS
  <1> DEFINE early == {"begin", "answer", "tool", "collect", "save"}
  <1>1. Busy(h)
    BY DEF BeginEvaluation, AnswerText, AnswerTool, ExecuteTool, Collect, EndStream, EvaluationFails, Evaluating, At, Busy
  <1>2. DOMAIN r = Carries
    BY <1>p, <1>1, KnownRequest DEF RequestOK, Carries
  <1>3. vectors' = vectors /\ results' = results /\ requests' = requests
    BY DEF BeginEvaluation, AnswerText, AnswerTool, ExecuteTool, Collect, EndStream, EvaluationFails, tables
  <1>4. seen.crowded \subseteq seen'.crowded
    BY MarkGrown DEF BeginEvaluation, AnswerText, AnswerTool, ExecuteTool, Collect, EndStream, EvaluationFails, Grown
  <1>5. \E q : Goes(h, q) /\ (q = Idle \/ (q.n = r.n /\ q.pc \in early))
    <2>1. \A pc : To(r, pc).pc = pc /\ To(r, pc).n = r.n /\ DOMAIN To(r, pc) = Carries
      BY <1>2 DEF To, Carries
    <2>2. CASE BeginEvaluation(h) \/ AnswerText(h) \/ EvaluationFails(h)
      BY <1>p, <2>1, <2>2 DEF BeginEvaluation, AnswerText, EvaluationFails
    <2>3. CASE Goes(h, Continues(r))
      <3>1. Continues(r).n = r.n /\ Continues(r).pc \in early
        BY <1>2 DEF Continues, Carries
      <3> QED BY <2>3, <3>1
    <2>4. ASSUME NEW answer, Goes(h, [To(r, "tool") EXCEPT !.tool = answer])
          PROVE  \E q : Goes(h, q) /\ q.n = r.n /\ q.pc \in early
      <3>1. PICK q : q = [To(r, "tool") EXCEPT !.tool = answer]
        OBVIOUS
      <3>2. q.n = r.n /\ q.pc = "tool"
        BY <2>1, <3>1 DEF Carries
      <3> QED BY <2>4, <3>1, <3>2
    <2>5. CASE AnswerTool(h) \/ ExecuteTool(h)
      <3>1. Goes(h, Continues(r)) \/ \E answer : Goes(h, [To(r, "tool") EXCEPT !.tool = answer])
        BY <1>p, <2>5 DEF AnswerTool, ExecuteTool
      <3> QED BY <2>3, <2>4, <3>1
    <2>6. CASE Collect(h) \/ EndStream(h)
      <3>1. Goes(h, Collected(r)) \/ Goes(h, Idle)
        BY <1>p, <2>6 DEF Collect, EndStream
      <3>2. PICK q : q = Collected(r)
        OBVIOUS
      <3>3. q.n = r.n /\ q.pc = "save"
        BY <2>1, <3>2 DEF Collected, Carries
      <3> QED BY <3>1, <3>2, <3>3
    <2> QED BY <2>2, <2>5, <2>6
  <1> QED BY <1>p, <1>1, <1>3, <1>4, <1>5, RankPlain

\* Where a request goes on to.
LEMMA NextStep ==
    ASSUME NEW r, RequestOK(r), r.pc \notin {"begin", "answer", "tool", "collect"},
           NEW f, f = Following(r)
    PROVE  /\ f = Idle \/ (DOMAIN f = Carries /\ f.n = r.n /\ f.p = r.p /\ f.ask = r.ask)
           /\ r.pc \in {"save_results", "insert"} => f = Idle
           /\ r.pc = "demand" => f.pc = "search"
           /\ r.pc = "search" => f.pc = "enrich"
           /\ r.pc = "enrich" => f.pc = "llm"
           /\ r.pc = "llm" => f.pc = "save_results"
           /\ r.pc = "delete" => f.pc = "insert"
           /\ r.pc \in {"save", "log", "team", "get_profile", "read_power", "write_power"} =>
                 f = Idle \/ f.pc \notin {"insert", "enrich", "llm", "save_results"}
  <1>1. f = Idle \/ (DOMAIN f = Carries /\ f.n = r.n /\ f.p = r.p /\ f.ask = r.ask)
    BY FollowOK
  <1>2. DOMAIN r = Carries /\ r.ask.kind \in {"evaluate", "adjust", "sync", "recommend"}
    BY Kinds DEF RequestOK, Carries
  <1>3. \A pc : To(r, pc).pc = pc
    BY <1>2 DEF To, Carries
  <1>4. CASE r.pc \in {"save_results", "demand", "search", "enrich", "llm"}
    <2>1. r.ask.kind = "recommend"
      BY <1>2, <1>4 DEF RequestOK, StepsOf
    <2> QED BY <1>1, <1>3, <1>4, <2>1 DEF Following, Steps, smart_match
  <1>5. CASE r.pc \in {"save", "delete", "insert"}
    <2>1. r.ask.kind \in {"evaluate", "sync"}
      BY <1>2, <1>5 DEF RequestOK, StepsOf
    <2> QED BY <1>1, <1>3, <1>5, <2>1 DEF Following, Steps, do_evaluate, sync_provider_profile
  <1>6. CASE r.pc \in {"log", "team"}
    <2>1. r.ask.kind \in {"evaluate", "adjust"}
      BY <1>2, <1>6 DEF RequestOK, StepsOf
    <2> QED BY <1>1, <1>3, <1>6, <2>1 DEF Following, Steps, do_evaluate, adjust_points
  <1>7. CASE r.pc \in {"get_profile", "read_power", "write_power"}
    <2>1. r.ask.kind = "adjust"
      BY <1>2, <1>7 DEF RequestOK, StepsOf
    <2> QED BY <1>1, <1>3, <1>7, <2>1 DEF Following, Steps, adjust_points
  <1>8. r.pc \in {"save_results", "demand", "search", "enrich", "llm", "save", "delete", "insert", "log", "team",
                  "get_profile", "read_power", "write_power"}
    BY <1>2 DEF RequestOK, StepsOf
  <1> QED BY <1>1, <1>4, <1>5, <1>6, <1>7, <1>8

\* The writes of an evaluation or an adjustment, but for its vector.
LEMMA RankWrites ==
    ASSUME ProvidersInv, RankInv, NEW h \in Slot,
           \/ save_provider_profile(h) \/ add_power_log(h) \/ sync_profile_to_team(h)
           \/ GetProfile(h) \/ ReadPower(h) \/ WritePower(h) \/ GetDemand(h)
    PROVE  RankInv'
  <1>p. PICK r, f : r = handlers[h] /\ f = Following(r)
    OBVIOUS
  <1>1. Busy(h) /\ r.pc \in {"save", "log", "team", "get_profile", "read_power", "write_power", "demand"}
    BY <1>p DEF save_provider_profile, add_power_log, sync_profile_to_team, GetProfile, ReadPower, WritePower, GetDemand, At, Busy
  <1>2. RequestOK(r)
    BY <1>p, <1>1, KnownRequest
  <1>3. vectors' = vectors /\ results' = results /\ requests' = requests
    BY DEF save_provider_profile, add_power_log, sync_profile_to_team, GetProfile, ReadPower, WritePower, GetDemand, tables
  <1>4. seen.crowded \subseteq seen'.crowded
    BY DEF save_provider_profile, add_power_log, sync_profile_to_team, GetProfile, ReadPower, WritePower, GetDemand,
           ProvidersInv, TypeOK
  <1>5. f = Idle \/ (DOMAIN f = Carries /\ f.n = r.n /\ f.pc \notin {"insert", "enrich", "llm", "save_results"})
    BY <1>p, <1>1, <1>2, NextStep
  <1>6. \E q : Goes(h, q) /\ (q = Idle \/ (q.n = r.n /\ q.pc \notin {"insert", "enrich", "llm", "save_results"}))
    <2>1. CASE Goes(h, f) \/ Goes(h, Idle)
      BY <1>5, <2>1
    <2>2. ASSUME NEW x, Goes(h, [f EXCEPT !.old = x]) \/ Goes(h, [f EXCEPT !.read = x]), f # Idle
          PROVE  \E q : Goes(h, q) /\ q.n = r.n /\ q.pc \notin {"insert", "enrich", "llm", "save_results"}
      <3>1. PICK q : (q = [f EXCEPT !.old = x] \/ q = [f EXCEPT !.read = x]) /\ Goes(h, q)
        BY <2>2
      <3>2. q.n = f.n /\ q.pc = f.pc
        BY <1>5, <2>2, <3>1 DEF Carries
      <3> QED BY <1>5, <2>2, <3>1, <3>2
    <2>3. r.pc \in {"get_profile", "read_power"} => f # Idle
      BY <1>p, <1>2, GoesOn
    <2>4. CASE GetProfile(h)
      <3>1. Goes(h, Idle) \/ \E x : Goes(h, [f EXCEPT !.old = x])
        BY <1>p, <2>4 DEF GetProfile
      <3>2. r.pc = "get_profile"
        BY <1>p, <2>4 DEF GetProfile, At
      <3> QED BY <2>1, <2>2, <2>3, <3>1, <3>2
    <2>5. CASE ReadPower(h)
      <3>1. \E x : Goes(h, [f EXCEPT !.read = x])
        BY <1>p, <2>5 DEF ReadPower
      <3>2. r.pc = "read_power"
        BY <1>p, <2>5 DEF ReadPower, At
      <3> QED BY <2>2, <2>3, <3>1, <3>2
    <2> QED
      BY <1>p, <2>1, <2>4, <2>5 DEF save_provider_profile, add_power_log, sync_profile_to_team, WritePower, GetDemand
  <1> QED BY <1>p, <1>1, <1>3, <1>4, <1>6, RankPlain

\* Half an upsert: the vectors of the provider are gone.
LEMMA RankDelete ==
    ASSUME ProvidersInv, RankInv, NEW h \in Slot, DeleteVector(h)
    PROVE  RankInv'
  <1>p. PICK r, f : r = handlers[h] /\ f = Following(r)
    OBVIOUS
  <1>1. Busy(h) /\ r.pc = "delete" /\ UNCHANGED <<results, requests, seen>>
    BY <1>p DEF DeleteVector, At, Busy
  <1>2. RequestOK(r)
    BY <1>p, <1>1, KnownRequest
  <1>3. CASE Goes(h, Idle) /\ vectors' = vectors
    BY <1>1, <1>3, RankPlain
  <1>4. CASE Goes(h, f) /\ vectors' = Cleared(r.p)
    <2>1. f.n = r.n /\ f.p = r.p /\ f.pc = "insert"
      BY <1>p, <1>1, <1>2, NextStep DEF Idle
    <2>2. handlers'[h] = f /\ \A g \in Slot : g # h => handlers'[g] = handlers[g]
      BY <1>4 DEF Goes, ProvidersInv, InFlight
    <2>3. NumberInv'
      BY <1>p, <1>1, <2>1, <2>2 DEF RankInv, NumberInv, Busy, At
    <2>4. vectors' \subseteq vectors /\ \A v \in vectors' : v.p # r.p
      BY <1>4 DEF Cleared
    <2>5. IsFiniteSet(vectors')
      BY <2>4, FS_Subset DEF RankInv, SingleInv
    <2>6. SingleInv'
      BY <1>1, <2>1, <2>2, <2>4, <2>5 DEF RankInv, SingleInv, At
    <2>7. FoundInv'
      BY <1>1, <2>1, <2>2 DEF RankInv, FoundInv, FoundOK
    <2>8. RankingSound'
      BY <1>1 DEF RankInv, RankingSound
    <2> QED BY <2>3, <2>6, <2>7, <2>8 DEF RankInv
  <1> QED BY <1>p, <1>3, <1>4 DEF DeleteVector

LEMMA RankInsert ==
    ASSUME ProvidersInv, RatedInv, RankInv, NEW h \in Slot, InsertVector(h)
    PROVE  RankInv'
  <1>p. PICK r : r = handlers[h]
    OBVIOUS
  <1>1. Busy(h) /\ r.pc = "insert" /\ UNCHANGED <<results, requests, seen>>
    BY <1>p DEF InsertVector, At, Busy
  <1>2. RequestOK(r) /\ Following(r) = Idle
    <2>1. RequestOK(r)
      BY <1>p, <1>1, KnownRequest
    <2> QED BY <1>1, <2>1, NextStep
  <1>3. PICK new : vectors' = vectors \cup {new} /\ new.p = r.p
    <2>1. PICK new : new = [p |-> r.p, n |-> r.n, skills |-> r.profile.skills.names, credit |-> r.profile.power]
      OBVIOUS
    <2>2. vectors' = vectors \cup {new}
      BY <1>p, <2>1 DEF InsertVector
    <2> QED BY <2>1, <2>2
  <1>4. handlers'[h] = Idle /\ \A g \in Slot : g # h => handlers'[g] = handlers[g]
    BY <1>p, <1>2 DEF InsertVector, Goes, ProvidersInv, InFlight
  <1>5. NumberInv'
    BY <1>1, <1>4 DEF RankInv, NumberInv, Busy, At, Idle
  <1>6. SingleInv'
    <2>1. IsFiniteSet(vectors')
      BY <1>3, FS_AddElement DEF RankInv, SingleInv
    <2>2. \A v \in vectors : v.p = r.p => v.p \in seen.crowded
      BY <1>p, <1>1 DEF RankInv, SingleInv, At
    <2>3. \A u, v \in vectors' : u.p = v.p => u = v \/ u.p \in seen.crowded
      BY <1>3, <2>2 DEF RankInv, SingleInv
    <2>4. ASSUME NEW g \in Slot, g # h, At(g, "insert"), r.p = handlers[g].p PROVE r.p \in seen.crowded
      <3>1. RequestOK(handlers[g]) /\ Busy(g) /\ handlers[g].pc = "insert"
        BY <2>4, KnownRequest DEF Busy, At
      <3>2. \A x : RequestOK(x) /\ x.pc = "insert" => x.ask.kind # "recommend" /\ x.p \in Provider
        BY Kinds DEF RequestOK, StepsOf
      <3>3. Rates(g, r.p) /\ Rates(h, r.p) /\ r.p \in Provider
        BY <1>p, <1>1, <1>2, <2>4, <3>1, <3>2 DEF Rates
      <3> QED BY <2>4, <3>3 DEF RatedInv, OneRates
    <2>5. \A g \in Slot, v \in vectors' : At(g, "insert")' /\ v.p = handlers'[g].p => v.p \in seen.crowded
      <3> SUFFICES ASSUME NEW g \in Slot, NEW v \in vectors', At(g, "insert")', v.p = handlers'[g].p
                   PROVE  v.p \in seen.crowded
        OBVIOUS
      <3>1. g # h /\ handlers'[g] = handlers[g] /\ At(g, "insert")
        BY <1>4 DEF At, Idle
      <3>2. CASE v \in vectors
        BY <3>1, <3>2 DEF RankInv, SingleInv
      <3>3. CASE v = new
        BY <1>3, <2>4, <3>1, <3>3
      <3> QED BY <1>3, <3>2, <3>3
    <2> QED BY <1>1, <2>1, <2>3, <2>5 DEF SingleInv
  <1>7. FoundInv'
    BY <1>1, <1>4 DEF RankInv, FoundInv, FoundOK, Idle
  <1>8. RankingSound'
    BY <1>1 DEF RankInv, RankingSound
  <1> QED BY <1>5, <1>6, <1>7, <1>8 DEF RankInv

\* A search: what is found is ranked, and the best are recommended first.
LEMMA RankEnrich ==
    ASSUME ProvidersInv, RankInv, NEW h \in Slot, At(h, "enrich"), NEW users \in [Provider -> User],
           Goes(h, Enriched(handlers[h], users)), vectors' = vectors, results' = results, requests' = requests,
           seen.crowded \subseteq seen'.crowded
    PROVE  RankInv'
  <1>p. PICK r, f : r = handlers[h] /\ f = Following(r)
    OBVIOUS
  <1>1. Busy(h) /\ r.pc = "enrich"
    BY <1>p DEF At, Busy
  <1>2. RequestOK(r)
    BY <1>p, <1>1, KnownRequest
  <1>3. DOMAIN f = Carries /\ f.n = r.n /\ f.pc = "llm"
    BY <1>1, <1>2, <1>p, NextStep DEF Idle
  <1>4. r.ask.page \in Nat /\ r.ask.page_size \in Nat
    <2>1. r.ask \in Ask /\ r.ask.kind = "recommend"
      BY <1>1, <1>2, Kinds DEF RequestOK, StepsOf
    <2> QED BY <2>1 DEF Ask
  <1>5. PICK page : page = PageOf(r, users)
    OBVIOUS
  <1>6. PageOK(page, seen.crowded)
    <2>1. HitsOK(r.found, seen.crowded)
      BY <1>p, <1>1 DEF RankInv, FoundInv, FoundOK
    <2> QED BY <1>4, <1>5, <2>1, PageRanked
  <1>7. CASE Goes(h, Idle)
    BY <1>1, <1>7, RankPlain
  <1>8. CASE Goes(h, [f EXCEPT !.found = page])
    <2>1. PICK q : q = [f EXCEPT !.found = page]
      OBVIOUS
    <2>2. q.n = r.n /\ q.pc = "llm" /\ q.found = page
      BY <1>3, <2>1 DEF Carries
    <2>3. FoundOK(q, seen.crowded)
      BY <1>6, <2>2 DEF FoundOK
    <2> QED BY <1>p, <1>1, <1>8, <2>1, <2>2, <2>3, RankMove
  <1> QED BY <1>p, <1>5, <1>7, <1>8 DEF Enriched

LEMMA RankSearch ==
    ASSUME ProvidersInv, RankInv, NEW h \in Slot,
           SearchVectors(h) \/ EnrichProviders(h) \/ GenerateRecommendations(h)
    PROVE  RankInv'
  <1>p. PICK r, f : r = handlers[h] /\ f = Following(r)
    OBVIOUS
  <1>1. Busy(h) /\ r.pc \in {"search", "enrich", "llm"} /\ UNCHANGED <<vectors, results, requests, seen>>
    BY <1>p DEF SearchVectors, EnrichProviders, GenerateRecommendations, At, Busy, tables
  <1>2. RequestOK(r)
    BY <1>p, <1>1, KnownRequest
  <1>3. /\ DOMAIN f = Carries /\ f.n = r.n
        /\ r.pc = "search" => f.pc = "enrich"
        /\ r.pc = "llm" => f.pc = "save_results"
    BY <1>1, <1>2, <1>p, NextStep, GoesOn
  <1>4. ASSUME NEW found, Goes(h, [f EXCEPT !.found = found]),
               \/ r.pc = "search" /\ HitsOK(found, seen.crowded)
               \/ r.pc = "llm" /\ RowsOK(ToSet(found), seen.crowded)
        PROVE  RankInv'
    <2>1. PICK q : q = [f EXCEPT !.found = found]
      OBVIOUS
    <2>2. q.n = r.n /\ q.pc = f.pc /\ q.found = found
      BY <1>3, <2>1 DEF Carries
    <2>3. FoundOK(q, seen.crowded) /\ q.pc # "insert"
      BY <1>3, <1>4, <2>2 DEF FoundOK
    <2> QED BY <1>p, <1>1, <1>4, <2>1, <2>2, <2>3, RankMove
  <1>5. CASE SearchVectors(h)
    <2>1. PICK hits \in Hits(r.ask) : Goes(h, [f EXCEPT !.found = hits])
      BY <1>p, <1>5 DEF SearchVectors
    <2>2. vectors \subseteq Vector
      BY DEF ProvidersInv, TypeOK, Vector
    <2>3. HitsOK(hits, seen.crowded)
      BY <2>2, HitsFound DEF RankInv, SingleInv
    <2>4. r.pc = "search"
      BY <1>p, <1>5 DEF SearchVectors, At
    <2> QED BY <1>4, <2>1, <2>3, <2>4
  <1>6. CASE EnrichProviders(h)
    <2>1. KnownUsers \in [Provider -> User]
      BY UsersKnown DEF KnownUsers, UnknownUser, User
    <2>2. At(h, "enrich") /\ Goes(h, Enriched(handlers[h], KnownUsers))
      BY <1>6 DEF EnrichProviders
    <2> QED BY <1>1, <2>1, <2>2, RankEnrich
  <1>7. CASE GenerateRecommendations(h)
    <2>1. r.pc = "llm"
      BY <1>p, <1>7 DEF GenerateRecommendations, At
    <2>2. PICK rows \in {fallback_recommendations(r.found)} \cup ModelRecommends(r.found) :
              Goes(h, IF rows = <<>> THEN Idle ELSE [f EXCEPT !.found = rows])
      BY <1>p, <1>7 DEF GenerateRecommendations
    <2>3. PageOK(r.found, seen.crowded)
      BY <1>p, <2>1 DEF RankInv, FoundInv, FoundOK
    <2>4. RowsOK(ToSet(rows), seen.crowded)
      BY <2>2, <2>3, RowsRanked, ModelRows
    <2>5. CASE Goes(h, Idle)
      BY <1>1, <2>5, RankPlain
    <2>6. CASE Goes(h, [f EXCEPT !.found = rows])
      BY <1>4, <2>1, <2>4, <2>6
    <2> QED BY <2>2, <2>5, <2>6
  <1> QED BY <1>5, <1>6, <1>7

LEMMA RankSave ==
    ASSUME ProvidersInv, RankInv, NEW h \in Slot, save_match_results(h)
    PROVE  RankInv'
  <1>p. PICK r : r = handlers[h]
    OBVIOUS
  <1>1. Busy(h) /\ r.pc = "save_results" /\ UNCHANGED <<vectors, requests, seen>>
    BY <1>p DEF save_match_results, At, Busy
  <1>2. Following(r) = Idle
    <2>1. RequestOK(r)
      BY <1>p, <1>1, KnownRequest
    <2> QED BY <1>1, <2>1, NextStep
  <1>3. handlers'[h] = Idle /\ \A g \in Slot : g # h => handlers'[g] = handlers[g]
    BY <1>p, <1>2 DEF save_match_results, Goes, ProvidersInv, InFlight
  <1>4. PICK new : /\ results' = results \cup new
                   /\ \A z \in new : z.n = r.n /\ z.row \in ToSet(r.found)
    <2>1. results' = results \cup {[n |-> r.n, page |-> r.ask.page, row |-> row] : row \in ToSet(r.found)}
      BY <1>p DEF save_match_results
    <2>2. PICK new : new = {[n |-> r.n, page |-> r.ask.page, row |-> row] : row \in ToSet(r.found)}
      OBVIOUS
    <2> QED BY <2>1, <2>2
  <1>5. NumberInv'
    BY <1>p, <1>1, <1>3, <1>4 DEF RankInv, NumberInv, Busy, At, Idle
  <1>6. SingleInv'
    BY <1>1, <1>3 DEF RankInv, SingleInv, At, Idle
  <1>7. FoundInv'
    BY <1>1, <1>3 DEF RankInv, FoundInv, FoundOK, Idle
  <1>8. RankingSound'
    <2>1. RowsOK(ToSet(r.found), seen.crowded)
      BY <1>p, <1>1 DEF RankInv, FoundInv, FoundOK
    <2>2. \A z \in results : z.n # r.n
      BY <1>p, <1>1 DEF RankInv, NumberInv
    <2>3. ASSUME NEW x \in results', NEW y \in results', x.row.by = "score", y.row.by = "score",
                 x.n = y.n, x.row.rank < y.row.rank
          PROVE  x.row.score >= y.row.score /\ (x.row.provider = y.row.provider => x.row.provider \in seen'.crowded)
      <3>1. CASE x \in results /\ y \in results
        BY <1>1, <2>3, <3>1 DEF RankInv, RankingSound
      <3>2. CASE x \in new /\ y \in new
        BY <1>1, <1>4, <2>1, <2>3, <3>2 DEF RowsOK
      <3> QED BY <1>4, <2>2, <2>3, <3>1, <3>2
    <2> QED BY <2>3 DEF RankingSound
  <1> QED BY <1>5, <1>6, <1>7, <1>8 DEF RankInv

LEMMA RankTrouble ==
    ASSUME ProvidersInv, RankInv, NEW h \in Slot, MySQLFails(h) \/ MilvusFails(h)
    PROVE  RankInv'
  <1>1. Busy(h) /\ vectors' = vectors /\ results' = results /\ requests' = requests
    BY DEF MySQLFails, MilvusFails, Runs, tables
  <1>2. seen.crowded \subseteq seen'.crowded
    BY MarkGrown DEF MySQLFails, MilvusFails, Grown
  <1>3. CASE Goes(h, Idle)
    BY <1>1, <1>2, <1>3, RankPlain
  <1>4. CASE At(h, "enrich") /\ Goes(h, Enriched(handlers[h], [p \in Provider |-> UnknownUser]))
    <2>1. [p \in Provider |-> UnknownUser] \in [Provider -> User]
      BY DEF UnknownUser, User
    <2> QED BY <1>1, <1>2, <1>4, <2>1, RankEnrich
  <1> QED BY <1>3, <1>4 DEF MySQLFails, MilvusFails, OnError

LEMMA RankRestart ==
    ASSUME ProvidersInv, RankInv, NEW w \in Worker, Restart(w)
    PROVE  RankInv'
  <1>1. \A g \in Slot : handlers'[g] = Idle \/ handlers'[g] = handlers[g]
    BY DEF Restart
  <1>2. vectors' = vectors /\ results' = results /\ requests' = requests
    BY DEF Restart, tables
  <1>3. seen.crowded \subseteq seen'.crowded
    BY MarkGrown DEF Restart, Grown
  <1>4. NumberInv'
    BY <1>1, <1>2 DEF RankInv, NumberInv, Busy, At, Idle
  <1>5. SingleInv'
    BY <1>1, <1>2, <1>3 DEF RankInv, SingleInv, At, Idle
  <1>6. FoundInv'
    <2>1. FoundOK(Idle, seen'.crowded)
      BY DEF FoundOK, Idle
    <2> QED BY <1>1, <1>3, <2>1, FoundStays DEF RankInv, FoundInv
  <1>7. RankingSound'
    BY <1>2, <1>3 DEF RankInv, RankingSound
  <1> QED BY <1>4, <1>5, <1>6, <1>7 DEF RankInv

LEMMA RankNext ==
    ASSUME ProvidersInv, RatedInv, RankInv, [Next]_vars
    PROVE  RankInv'
  <1>1. CASE UNCHANGED vars
    <2>1. UNCHANGED <<vectors, results, handlers, requests, seen>>
      BY <1>1 DEF vars, tables
    <2>2. NumberInv' /\ SingleInv' /\ FoundInv' /\ RankingSound'
      BY <2>1 DEF RankInv, NumberInv, SingleInv, FoundInv, RankingSound, Busy, At
    <2> QED BY <2>2 DEF RankInv
  <1>2. ASSUME NEW h \in Slot,
               \/ Arrive(h) \/ BeginEvaluation(h) \/ AnswerText(h) \/ AnswerTool(h) \/ ExecuteTool(h)
               \/ Collect(h) \/ EndStream(h) \/ EvaluationFails(h)
        PROVE  RankInv'
    BY <1>2, RankArrive, RankEarly
  <1>3. ASSUME NEW h \in Slot,
               \/ save_provider_profile(h) \/ add_power_log(h) \/ sync_profile_to_team(h)
               \/ DeleteVector(h) \/ InsertVector(h) \/ GetProfile(h) \/ ReadPower(h) \/ WritePower(h)
        PROVE  RankInv'
    BY <1>3, RankWrites, RankDelete, RankInsert
  <1>4. ASSUME NEW h \in Slot,
               \/ GetDemand(h) \/ SearchVectors(h) \/ EnrichProviders(h) \/ GenerateRecommendations(h)
               \/ save_match_results(h) \/ MySQLFails(h) \/ MilvusFails(h)
        PROVE  RankInv'
    BY <1>4, RankWrites, RankSearch, RankSave, RankTrouble
  <1>5. ASSUME NEW w \in Worker, Restart(w) PROVE RankInv'
    BY <1>5, RankRestart
  <1> QED BY <1>1, <1>2, <1>3, <1>4, <1>5 DEF Next

\* Recommendations that come from the scores name the best first, whatever runs beside
\* their search, and no provider twice whose requests did not overlap: smart_matcher.py
\* 141-146 sorts, 494-509 numbers the page, and milvus_store.py 293-310 leaves one vector.
THEOREM BestComeFirst == Spec => []RankingSound
  <1>1. Init => RankInv
    BY RankStarts
  <1>2. ProvidersInv /\ RatedInv /\ RankInv /\ [Next]_vars => RankInv'
    BY RankNext
  <1>3. RankInv => RankingSound
    BY DEF RankInv
  <1> QED BY <1>1, <1>2, <1>3, RatedInvariant, PTL DEF Spec

-----------------------------------------------------------------------------
\* What the rules of matching promise of every input.

LEMMA PagesStart ==
    ASSUME NEW z \in Nat \ {0}
    PROVE  \A i \in Nat : \E k \in Nat : (k - 1) * z < i + 1 /\ i + 1 <= k * z
  <1> DEFINE reached == {i \in Nat : \E k \in Nat : (k - 1) * z < i + 1 /\ i + 1 <= k * z}
  <1>1. 0 \in reached
    <2>1. (1 - 1) * z < 0 + 1 /\ 0 + 1 <= 1 * z /\ 1 \in Nat
      OBVIOUS
    <2> QED BY <2>1
  <1>2. ASSUME NEW i \in Nat, i \in reached PROVE i + 1 \in reached
    <2>1. PICK k \in Nat : (k - 1) * z < i + 1 /\ i + 1 <= k * z
      BY <1>2
    <2>2. PICK upto \in Nat : upto = k * z
      OBVIOUS
    <2>4. CASE i + 2 <= upto
      BY <2>1, <2>2, <2>4
    <2>5. CASE i + 2 > upto
      <3>1. upto < i + 2 /\ i + 2 <= upto + z
        BY <2>1, <2>2, <2>5
      <3>2. PICK j \in Nat : j = k + 1
        OBVIOUS
      <3>3. (j - 1) * z = upto
        <4>1. j - 1 = k
          BY <3>2
        <4> QED BY <2>2, <4>1
      <3>4. j * z = upto + z
        <4>1. (k + 1) * z = k * z + z
          OBVIOUS
        <4> QED BY <2>2, <3>2, <4>1
      <3> QED BY <3>1, <3>3, <3>4
    <2> QED BY <2>2, <2>4, <2>5
  <1> HIDE DEF reached
  <1>3. \A i \in Nat : i \in reached
    BY <1>1, <1>2, NaturalsFrom
  <1> QED BY <1>3 DEF reached

LEMMA OnPage ==
    ASSUME NEW S, NEW n \in Nat, NEW s \in [1..n -> S], \A i, j \in 1..n : s[i] = s[j] => i = j,
           NEW page_size \in Nat, NEW page \in Nat, NEW z \in Nat, z = AtMost(page_size, MaxPageSize), NEW i \in 1..n
    PROVE  s[i] \in ToSet(page_of(s, page, page_size)) <=> (page - 1) * z < i /\ i <= page * z
  <1>1. PICK before \in Int, upto \in Int : before = (page - 1) * z /\ upto = page * z
    OBVIOUS
  <1>2. PICK m \in Nat : m = AtLeast(before, 0)
    BY DEF AtLeast
  <1>3. PICK last \in Int : last = AtMost(upto, n) /\ last <= n
    BY DEF AtMost
  <1>4. page_of(s, page, page_size) = SubSeq(s, m + 1, last)
    <2>1. Len(s) = n
      OBVIOUS
    <2> QED BY <1>1, <1>2, <1>3, <2>1 DEF page_of
  <1>5. PICK t : t = [k \in 1..(last - m) |-> s[k + m]]
    OBVIOUS
  <1>6. page_of(s, page, page_size) = t
    BY <1>3, <1>4, <1>5, PieceOf
  <1>7. s[i] \in ToSet(t) <=> m < i /\ i <= last
    <2>1. ASSUME m < i, i <= last PROVE s[i] \in ToSet(t)
      <3>1. i - m \in 1..(last - m) /\ (i - m) + m = i
        BY <2>1
      <3>2. t[i - m] = s[i] /\ i - m \in DOMAIN t
        BY <1>5, <3>1
      <3> QED BY <3>2 DEF ToSet
    <2>2. ASSUME s[i] \in ToSet(t) PROVE m < i /\ i <= last
      <3>1. PICK k \in DOMAIN t : t[k] = s[i]
        BY <2>2 DEF ToSet
      <3>2. k \in 1..(last - m) /\ s[k + m] = s[i]
        BY <1>5, <3>1
      <3>3. k + m \in 1..n
        BY <1>3, <3>2
      <3>4. k + m = i
        BY <3>2, <3>3
      <3> QED BY <3>2, <3>4
    <2> QED BY <2>1, <2>2
  <1>8. m < i /\ i <= last <=> before < i /\ i <= upto
    BY <1>2, <1>3 DEF AtLeast, AtMost
  <1> QED BY <1>1, <1>6, <1>7, <1>8

\* Turning the pages of one search shows every candidate on exactly one page, whatever the
\* size that is asked for: smart_matcher.py 141-146.
THEOREM EachOnOnePage ==
    ASSUME NEW S, NEW n \in Nat, NEW s \in [1..n -> S], \A i, j \in 1..n : s[i] = s[j] => i = j,
           NEW page_size \in Nat \ {0}, NEW i \in 1..n
    PROVE  \E k \in Nat \ {0} : \A page \in Nat : s[i] \in ToSet(page_of(s, page, page_size)) <=> page = k
  <1>1. PICK z \in Nat \ {0} : z = AtMost(page_size, MaxPageSize)
    BY DEF AtMost, MaxPageSize
  <1>2. PICK k \in Nat : (k - 1) * z < i /\ i <= k * z
    <2>1. i - 1 \in Nat /\ (i - 1) + 1 = i
      OBVIOUS
    <2>2. \E k \in Nat : (k - 1) * z < (i - 1) + 1 /\ (i - 1) + 1 <= k * z
      BY <2>1, PagesStart
    <2> QED BY <2>1, <2>2
  <1>3. k # 0
    <2>1. k = 0 => k * z = 0
      OBVIOUS
    <2> QED BY <1>2, <2>1
  <1>4. \A page \in Nat : (page - 1) * z < i /\ i <= page * z <=> page = k
    <2>1. \A a \in Nat, b \in Int : a <= b => a * z <= b * z
      <3> SUFFICES ASSUME NEW a \in Nat, NEW b \in Int, a <= b PROVE a * z <= b * z
        OBVIOUS
      <3>1. PICK d \in Nat : d = b - a
        OBVIOUS
      <3>2. d * z \in Nat /\ b = a + d
        BY <3>1
      <3>3. (a + d) * z = a * z + d * z
        OBVIOUS
      <3> QED BY <3>2, <3>3
    <2> SUFFICES ASSUME NEW page \in Nat, page # k PROVE ~((page - 1) * z < i /\ i <= page * z)
      BY <1>2
    <2>2. CASE page < k
      <3>1. page * z <= (k - 1) * z
        BY <2>1, <2>2
      <3>2. page * z \in Int /\ (k - 1) * z \in Int
        OBVIOUS
      <3> QED BY <1>2, <3>1, <3>2
    <2>3. CASE page > k
      <3>1. k * z <= (page - 1) * z
        BY <2>1, <2>3
      <3>2. k * z \in Int /\ (page - 1) * z \in Int
        OBVIOUS
      <3> QED BY <1>2, <3>1, <3>2
    <2> QED BY <2>2, <2>3
  <1>5. \A page \in Nat : s[i] \in ToSet(page_of(s, page, page_size)) <=> (page - 1) * z < i /\ i <= page * z
    <2>1. page_size \in Nat /\ z \in Nat
      BY <1>1
    <2>2. ASSUME NEW page \in Nat
          PROVE  s[i] \in ToSet(page_of(s, page, page_size)) <=> (page - 1) * z < i /\ i <= page * z
      BY <1>1, <2>1, OnPage, Zenon
    <2> QED BY <2>2
  <1>6. \A page \in Nat : s[i] \in ToSet(page_of(s, page, page_size)) <=> page = k
    BY <1>4, <1>5, Zenon
  <1>7. k \in Nat \ {0}
    BY <1>3
  <1> QED BY <1>6, <1>7, Zenon

LEMMA SharesGrow ==
    ASSUME NEW a \in Int, NEW b \in Int, NEW c \in Nat \ {0}, a <= b
    PROVE  a \div c <= b \div c
  <1>1. PICK q \in Int, r \in Int : q = a \div c /\ r = b \div c
    OBVIOUS
  <1>2. c * q <= a /\ b < c * r + c
    BY <1>1
  <1>3. CASE q <= r
    BY <1>1, <1>3
  <1>4. CASE r + 1 <= q
    <2>1. PICK d \in Nat : q = r + 1 + d
      BY <1>4
    <2>2. c * q = c * r + c + c * d /\ c * d \in Nat
      BY <2>1
    <2> QED BY <1>2, <2>2
  <1> QED BY <1>3, <1>4

\* A provider who knows more than another and else is like them never scores lower, for any
\* demand and whatever else is known of them: smart_matcher.py 307-314, 350-382.
THEOREM MoreSkillsNeverHurt ==
    ASSUME NEW wanted, IsFiniteSet(wanted), NEW least \in Nat, NEW most \in Nat, NEW similarity \in Int,
           NEW v \in Vector, NEW user \in User, NEW more \in SUBSET Skill, v.skills \subseteq more,
           NEW demand, demand = [skills |-> wanted, budget_min |-> least, budget_max |-> most]
    PROVE  calculate_match_score(demand, parse_provider(v, user), similarity)
             <= calculate_match_score(demand, parse_provider([v EXCEPT !.skills = more], user), similarity)
  <1>1. PICK one, other : one = parse_provider(v, user) /\ other = parse_provider([v EXCEPT !.skills = more], user)
    OBVIOUS
  <1>2. /\ one.orders = other.orders /\ one.rating = other.rating /\ one.completion = other.completion
        /\ one.price = other.price /\ one.minutes = other.minutes /\ one.registered = other.registered
    BY <1>1 DEF parse_provider
  <1>3. /\ one.orders \in Int /\ one.rating \in Int /\ one.completion \in Int
        /\ one.price \in Int /\ one.minutes \in Int /\ one.registered \in Int
    BY <1>1 DEF parse_provider, User
  <1>4. one.skills \subseteq other.skills
    BY <1>1 DEF parse_provider, Vector
  <1>5. demand.skills = wanted /\ demand.budget_min = least /\ demand.budget_max = most
    OBVIOUS
  <1>6. /\ SkillMatch(demand, one, similarity) \in Int /\ SkillMatch(demand, other, similarity) \in Int
        /\ SkillMatch(demand, one, similarity) <= SkillMatch(demand, other, similarity)
    <2>1. CASE wanted = {}
      BY <1>5, <2>1 DEF SkillMatch
    <2>2. CASE wanted # {}
      <3>1. PICK few, all, many : /\ few = Cardinality(wanted \cap one.skills) /\ all = Cardinality(wanted)
                                  /\ many = Cardinality(wanted \cap other.skills)
        OBVIOUS
      <3>2. few \in Nat /\ many \in Nat /\ all \in Nat \ {0} /\ few <= many
        <4>1. wanted \cap one.skills \in SUBSET (wanted \cap other.skills) /\ wanted \cap other.skills \in SUBSET wanted
          BY <1>4
        <4>2. IsFiniteSet(wanted \cap one.skills) /\ IsFiniteSet(wanted \cap other.skills)
          BY <4>1, FS_Subset
        <4> QED BY <2>2, <3>1, <4>1, <4>2, FS_Subset, FS_CardinalityType, FS_EmptySet
      <3>3. /\ (600 * few) \div all \in Int /\ (600 * many) \div all \in Int
            /\ (600 * few) \div all <= (600 * many) \div all
        BY <3>2, SharesGrow
      <3>4. PICK near \in Int : near = (400 * similarity) \div 1000
        OBVIOUS
      <3>5. /\ SkillMatch(demand, one, similarity) = (600 * few) \div all + near
            /\ SkillMatch(demand, other, similarity) = (600 * many) \div all + near
        BY <1>5, <2>2, <3>1, <3>4 DEF SkillMatch
      <3> QED BY <3>3, <3>4, <3>5
    <2> QED BY <2>1, <2>2
  <1>7. PICK a \in Int, b \in Int, c \in Int, d \in Int :
            /\ a = RatingShare(one) /\ b = PriceMatch(demand, one) /\ c = ResponseSpeed(one)
            /\ a = RatingShare(other) /\ b = PriceMatch(demand, other) /\ c = ResponseSpeed(other)
            /\ d = PortfolioSimilarity(similarity)
    <2>1. RatingShare(one) \in Int /\ RatingShare(one) = RatingShare(other)
      BY <1>2, <1>3 DEF RatingShare
    <2>2. PriceMatch(demand, one) = PriceMatch(demand, other)
      BY <1>2 DEF PriceMatch
    <2>3. ResponseSpeed(one) = ResponseSpeed(other)
      BY <1>2 DEF ResponseSpeed
    <2>4. ResponseSpeed(one) \in Int
      <3>1. 1000 - (1000 * one.minutes) \div 2880 \in Int
        BY <1>3
      <3> QED BY <3>1, Bounds DEF ResponseSpeed
    <2>5. PortfolioSimilarity(similarity) \in Int
      BY Bounds DEF PortfolioSimilarity
    <2>6. PriceMatch(demand, one) \in Int
      BY <1>3, <1>5, PriceTyped
    <2> QED BY <2>1, <2>2, <2>3, <2>4, <2>5, <2>6
  <1>8. PICK low \in Int, high \in Int :
            /\ low = 30 * SkillMatch(demand, one, similarity) + 25 * a + 20 * b + 15 * c + 10 * d
            /\ high = 30 * SkillMatch(demand, other, similarity) + 25 * a + 20 * b + 15 * c + 10 * d
            /\ low <= high
    BY <1>6
  <1>9. PICK first \in Int, second \in Int :
            first = Boosted(one, low) /\ second = Boosted(other, high) /\ first <= second
    <2>1. (3 * low) \div 2 \in Int /\ (3 * high) \div 2 \in Int /\ (3 * low) \div 2 <= (3 * high) \div 2
      BY <1>8
    <2> QED BY <1>2, <1>8, <2>1 DEF Boosted
  <1>10. /\ calculate_match_score(demand, one, similarity) = AtMost(first, 100000)
         /\ calculate_match_score(demand, other, similarity) = AtMost(second, 100000)
    BY <1>7, <1>8, <1>9 DEF calculate_match_score
  <1>11. AtMost(first, 100000) <= AtMost(second, 100000)
    BY <1>9 DEF AtMost
  <1> QED BY <1>1, <1>10, <1>11

=============================================================================
