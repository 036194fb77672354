---------------------------- MODULE MCProviders ----------------------------
(* Instances of Providers for TLC: two providers, two processes, and the    *)
(* points around the bounds of the levels.                                  *)
EXTENDS Providers

Card(n) == [tech_depth |-> n, project_exp |-> n, ai_proficiency |-> n, portfolio |-> n, background |-> n]
Names(s) == [form |-> "names", names |-> s]
Objects(s) == [form |-> "objects", names |-> s]
Parse(skills) == [tool |-> "parse_resume", skills |-> skills]
Score(n, claimed) == [tool |-> "evaluate_skills", scores |-> Card(n), power |-> claimed]
Report(power) == [tool |-> "generate_report", power |-> power]

Evaluate == [kind : {"evaluate"}, stream : BOOLEAN]
Adjust == [kind : {"adjust"}, points : {-200, 600}]
SyncTeam == [kind : {"sync"}, skills : {NoSkills, Objects({"go"})}]
Recommend == [kind : {"recommend"}, page : {1, 2}, page_size : {1}, verified : BOOLEAN]
                \cup [kind : {"recommend"}, page : {1}, page_size : {10}, verified : {FALSE}]

\* 100 everywhere is 749 points: a claim of 760 stands, one of 800 does not.
Full == {Parse(Names({"go"})), Parse(Objects({"go"})), Score(100, 760), Score(20, 800), Report(610)}
Short == {Parse(Names({"go"})), Score(100, 760), Report(610)}

T2 == [power |-> 150, level |-> 2]
Scenario(team, answers, asked, width, trouble) ==
    [team |-> team, answers |-> answers, asked |-> asked, width |-> width, troubles |-> trouble]

AllScenarios ==
    {Scenario(T2, Full, <<Evaluate, Evaluate \cup Adjust \cup SyncTeam>>, 1, 1),
     Scenario(T2, Short, <<Evaluate, Adjust, Adjust \cup SyncTeam>>, 1, 1),
     Scenario(Nil, Short, <<Evaluate, Adjust>>, 2, 0),
     Scenario(T2, Short, <<SyncTeam, Adjust, Adjust>>, 2, 0),
     Scenario(T2, Short, <<Evaluate, Evaluate>>, 2, 0),
     Scenario(T2, Short, <<SyncTeam, Evaluate, Recommend>>, 2, 0),
     Scenario(T2, Short, <<SyncTeam, SyncTeam, Recommend>>, 1, 1)}

Interchangeable == Permutations(Slot) \cup Permutations(Worker)

Known(p) == [orders |-> 4, rating |-> 48, completion |-> 95, rate |-> 3000, minutes |-> 120, registered |-> 200]
Newcomer == [orders |-> 0, rating |-> 0, completion |-> 0, rate |-> 0, minutes |-> 0, registered |-> 3]
OneKnown == LET p == CHOOSE p \in Provider : TRUE IN [q \in Provider |-> IF q = p THEN Known(p) ELSE Newcomer]
GoWanted == [skills |-> {"go"}, budget_min |-> 2000, budget_max |-> 5000]
-----------------------------------------------------------------------------
Candidates(n) == [i \in 1..n |-> [provider |-> i, score |-> 0]]

\* Turning the pages of one search shows every candidate on exactly one page, also when
\* the size asked for is above the largest one: smart_matcher.py 141-146.
PagesPartition ==
    Init => \A n \in 0..24, size \in {1, 7, 20, 50} : \A i \in 1..n :
        Cardinality({k \in 1..25 : Candidates(n)[i] \in ToSet(page_of(Candidates(n), k, size))}) = 1

\* Every number of points has exactly one level, more points never a lower one, and an
\* evaluation alone never goes beyond the fifth: rating_agent.py 25-36, 58-66.
LevelsGrow ==
    Init => \A points \in 0..2000 :
        /\ \E l \in 1..10 : {k \in 1..10 : Fits(k, points)} = {l}
        /\ get_level_for_points(points, FALSE) <= get_level_for_points(points + 1, FALSE)
        /\ get_level_for_points(points, TRUE) <= 5

Candidate(skills) ==
    [provider |-> 1, skills |-> skills, orders |-> 0, rating |-> 0, completion |-> 0, price |-> 0,
     minutes |-> 60, registered |-> 40]

\* A provider who knows more than another is never ranked lower for it, and what the
\* model's search found of both is the same: smart_matcher.py 307-314.
SkillsNeverHurt ==
    Init => \A wanted, some, more \in SUBSET {"go", "vue", "sql"}, similarity \in {0, 300, 1000} :
        some # {} /\ some \subseteq more =>
            LET score(skills) ==
                    calculate_match_score([skills |-> wanted, budget_min |-> 0, budget_max |-> 0],
                                          Candidate(skills), similarity)
            IN  score(some) <= score(more)

\* The rules of matching over bounded inputs: pages, levels and the share of skills.
MatchingRulesSound == PagesPartition /\ LevelsGrow /\ SkillsNeverHurt
===========================================================================
