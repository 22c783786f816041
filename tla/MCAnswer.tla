------------------------------ MODULE MCAnswer -----------------------------
(* Warehouses and questions for TLC. *)
EXTENDS Answer

Fact(c, r, v, d) ==
    [customer |-> c, region |-> r, category |-> "toys", revenue |-> v, day |-> d]

Customer(c, s) == [customer |-> c, segment |-> s]

\* Three facts out of n kinds, in one order of the possible ones.
Threes(n, F(_)) ==
    {[i \in 1..3 |-> F(s[i])] :
        s \in {s \in [1..3 -> 0..(n - 1)] : s[1] <= s[2] /\ s[2] <= s[3]}}

TwoSegments == <<Customer(1, "smb"), Customer(2, "consumer")>>

\* What the facts weigh: NULL, a half cent, a few cents, in three regions.
Weights ==
    [facts : Threes(9, LAMBDA k : Fact(1, <<"north", "south", "west">>[(k % 3) + 1],
                                       <<Null, 1, 60>>[(k \div 3) + 1], 0)),
     customers : {TwoSegments}]

\* Whose they are: two customers and an orphan; a segment without orders, a
\* customer twice in one segment, and in two.
Owners ==
    [facts : Threes(6, LAMBDA k : Fact(<<1, 2, 9>>[(k % 3) + 1], "north",
                                       <<1, 60>>[(k \div 3) + 1], 0)),
     customers : {TwoSegments,
                  Append(TwoSegments, Customer(3, "enterprise")),
                  Append(TwoSegments, Customer(1, "smb")),
                  Append(TwoSegments, Customer(1, "enterprise"))}]

\* When they were placed: two short months and no date at all.
Dates ==
    [facts : Threes(10, LAMBDA k : Fact(1, "south", <<1, 60>>[(k \div 5) + 1],
                                        <<Null, 0, 1, 2, 3>>[(k % 5) + 1])),
     customers : {TwoSegments}]

Empty == [facts : {<<>>}, customers : {TwoSegments}]

Ask(metric, dimensions, period, rank, number) ==
    [metrics |-> {metric}, dimensions |-> dimensions, period |-> period,
     rank |-> rank, number |-> number]

ByMember(dimension) ==
    {Ask(m, {dimension}, {}, n # NoNumber, n) : m \in Metrics, n \in {NoNumber, 0, 1, 2, 3}}

OverTime(dimensions, words) == {Ask(m, dimensions, {w}, FALSE, NoNumber) :
                                   m \in Metrics, w \in words}

Totals == {Ask(m, {}, {}, FALSE, NoNumber) : m \in Metrics}

\* Every combination of the words the planner looks for, over one warehouse.
AllWords ==
    [metrics : SUBSET Metrics, dimensions : SUBSET Dimensions,
     period : {{}, {"month"}, {"by month"}, {"daily"}, {"month", "over the year"}},
     rank : BOOLEAN, number : {NoNumber, 2}]

OneOfEach == [facts |-> <<Fact(1, "north", 60, 0), Fact(2, "south", 60, 1),
                          Fact(1, "west", 1, 3)>>, customers |-> TwoSegments]

MCCases ==
    [warehouse : Weights, question : ByMember("region") \cup Totals]
    \cup [warehouse : Owners,
          question : ByMember("segment") \cup OverTime({"segment"}, {"daily"})]
    \cup [warehouse : Dates, question : OverTime({}, {"monthly", "daily"})]
    \cup [warehouse : Empty, question : ByMember("region") \cup ByMember("segment")
                                        \cup Totals \cup OverTime({}, {"trend"})]
    \cup [warehouse : {OneOfEach}, question : AllWords]

\* A customer listed twice in one segment, and orders that are no cents.
ListedTwice ==
    [facts : Threes(2, LAMBDA k : Fact(k + 1, "north", 60, 0)),
     customers : {Append(TwoSegments, Customer(1, "smb"))}]

TwiceBySegment == [warehouse : ListedTwice, question : ByMember("segment")]
=============================================================================
