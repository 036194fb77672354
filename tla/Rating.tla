------------------------------- MODULE Rating -------------------------------
(***************************************************************************)
(* Points and levels of a provider (rating_agent.py), and the score that   *)
(* ranks providers for a demand (smart_matcher.py).  A level is its number *)
(* in VIBE_LEVELS; shares and factors are in thousandths, so that a score  *)
(* of 100 is 100000; skills are sets of names.                             *)
(***************************************************************************)
EXTENDS Integers, Sequences, FiniteSets

VIBE_LEVELS ==
    <<[min |-> 0, max |-> 99], [min |-> 100, max |-> 199], [min |-> 200, max |-> 349],
      [min |-> 350, max |-> 549], [min |-> 550, max |-> 749], [min |-> 750, max |-> 949],
      [min |-> 950, max |-> 1199], [min |-> 1200, max |-> 1499], [min |-> 1500, max |-> 1899],
      [min |-> 1900, max |-> 999999]>>

AtMost(n, bound) == IF n > bound THEN bound ELSE n
AtLeast(n, bound) == IF n < bound THEN bound ELSE n
Distance(a, b) == IF a > b THEN a - b ELSE b - a

\* round() of Python: a half goes to the even neighbour.
RoundThousandths(n) ==
    LET below == n \div 1000
        rest == n % 1000
    IN  IF rest > 500 \/ (rest = 500 /\ below % 2 = 1) THEN below + 1 ELSE below

calculate_vibe_power(s) ==
    AtMost(RoundThousandths(2250 * s.tech_depth + 1875 * s.project_exp + 1500 * s.ai_proficiency
                            + 1125 * s.portfolio + 750 * s.background), 749)

\* The points the model claims stand when they are near enough to its scores.
Settled(s, claimed) ==
    LET recalc == calculate_vibe_power(s)
    IN  IF Distance(recalc, claimed) > 20 THEN recalc ELSE claimed

Fits(level, points) == VIBE_LEVELS[level].min <= points /\ points <= VIBE_LEVELS[level].max

effective_max(cap_at_t5) == IF cap_at_t5 THEN 749 ELSE 999999

get_level_for_points(points, cap_at_t5) ==
    LET capped == AtMost(points, effective_max(cap_at_t5))
        fitting == {l \in 1..10 : Fits(l, capped)}
    IN  IF fitting = {} THEN 1 ELSE CHOOSE l \in fitting : \A k \in fitting : l <= k

-----------------------------------------------------------------------------
\* A user that MySQL does not know has these values.
UnknownUser == [orders |-> 0, rating |-> 0, completion |-> 0, rate |-> 0, minutes |-> 0, registered |-> -1]

\* _parse_provider: what Milvus found and what MySQL knows of the user.
parse_provider(vector, user) ==
    [provider |-> vector.p, skills |-> vector.skills, orders |-> user.orders,
     rating |-> user.rating, completion |-> user.completion, price |-> user.rate,
     minutes |-> IF user.minutes > 0 THEN user.minutes ELSE 24 * 60, registered |-> user.registered]

SkillMatch(demand, provider, similarity) ==
    IF demand.skills = {} THEN 500
    ELSE (600 * Cardinality(demand.skills \cap provider.skills)) \div Cardinality(demand.skills)
         + (400 * similarity) \div 1000

\* The completion rate also stands for the share of good reviews; ratings are in tenths.
RatingShare(provider) ==
    IF provider.orders = 0 THEN 600 ELSE 12 * provider.rating + 4 * provider.completion

PriceMatch(demand, provider) ==
    IF provider.price = 0 \/ demand.budget_max = 0 THEN 500
    ELSE IF demand.budget_min <= provider.price /\ provider.price <= demand.budget_max THEN 1000
    ELSE LET twice == demand.budget_min + demand.budget_max
         IN  AtLeast(1000 - (1000 * Distance(2 * provider.price, twice)) \div twice, 0)

ResponseSpeed(provider) == AtLeast(1000 - (1000 * provider.minutes) \div 2880, 0)

PortfolioSimilarity(similarity) == AtLeast(AtMost(similarity, 1000), 0)

\* Days since the registration, -1 when it is not known; half as much again for newcomers.
Boosted(provider, score) ==
    IF provider.registered \in 0..30 /\ provider.orders = 0 THEN (3 * score) \div 2 ELSE score

calculate_match_score(demand, provider, similarity) ==
    AtMost(Boosted(provider,
                   30 * SkillMatch(demand, provider, similarity) + 25 * RatingShare(provider)
                   + 20 * PriceMatch(demand, provider) + 15 * ResponseSpeed(provider)
                   + 10 * PortfolioSimilarity(similarity)),
           100000)

\* list.sort with reverse=True keeps the order of equals.
Ranks(scored, i) ==
    Cardinality({j \in DOMAIN scored : \/ scored[j].score > scored[i].score
                                       \/ /\ scored[j].score = scored[i].score
                                          /\ j <= i})
\* Mutant: the candidates stay in the order of the vector search.
sort_candidates_not(scored) == scored
sort_candidates(scored) == [k \in DOMAIN scored |-> scored[CHOOSE i \in DOMAIN scored : Ranks(scored, i) = k]]

MaxPageSize == 20
\* Mutant: pages count from zero here and from one in the request.
page_of_from_zero(candidates, page, page_size) ==
    LET size == AtMost(page_size, MaxPageSize)
    IN  SubSeq(candidates, page * size + 1, AtMost((page + 1) * size, Len(candidates)))
page_of(candidates, page, page_size) ==
    LET size == AtMost(page_size, MaxPageSize)
    IN  SubSeq(candidates, AtLeast((page - 1) * size, 0) + 1, AtMost(page * size, Len(candidates)))
===========================================================================
