------------------------------- MODULE FactCheck -------------------------------
(***************************************************************************)
(* The fact check (agent/fact_checker.py): the claims of a reply against   *)
(* the statistics and the decision tree that the skills of the round       *)
(* returned.  A claim is one line of the reply that one pattern reads.     *)
(* Averages are integers in hundredths, claimed numbers carry a flag that  *)
(* says whether they are written in tenths ("2.5") or whole ("2").         *)
(***************************************************************************)
EXTENDS Integers, Sequences, FiniteSetsExt

CONSTANTS Segments,    \* the segments of the statistics
          NoSegment,   \* a segment the model invented
          UserCounts,      \* the numbers of users a segment may have
          Averages,    \* the averages a segment may have, in hundredths
          Thresholds,  \* the thresholds of a tree
          Numbers      \* the numbers a reply claims

ASSUME FactAssumption ==
    /\ IsFiniteSet(Segments) /\ Segments # {} /\ Segments \subseteq Nat /\ NoSegment \in Nat \ Segments
    /\ UserCounts \subseteq Nat \ {0} /\ Averages \subseteq Nat \ {0}
    /\ Thresholds \subseteq Nat \ {0} /\ Numbers \subseteq Nat

VARIABLES facts,    \* what the skills returned: [rows, tree], the tree as its printed lines
          reply,    \* the claims of the last reply, {} before there is one
          verdict   \* the violations found in it

factVars == <<facts, reply, verdict>>

TreeFeatures == {"recency", "monetary"}
Named == Segments \cup {NoSegment}
NoRows == [s \in {} |-> {}]

StatsRow == [users : UserCounts, avg : Averages]

(* One line of export_text: a condition or a leaf, with its depth. *)
Condition(d, f, op, t) == [leaf |-> FALSE, depth |-> d, feature |-> f, op |-> op, value |-> t]
Leaf(d, c) == [leaf |-> TRUE, depth |-> d, class |-> c]
OneLine(d, c) == <<Leaf(d, c)>>
Split(d, f, t, left, right) ==
    <<Condition(d, f, "<=", t)>> \o left \o <<Condition(d, f, ">", t)>> \o right

Stumps ==
    UNION {{Split(1, f, t, OneLine(2, a), OneLine(2, b)) :
              f \in TreeFeatures, t \in Thresholds, b \in Segments \ {a}} :
           a \in Segments}
ValuesOf(lines, f) ==
    {lines[i].value : i \in {j \in DOMAIN lines : ~lines[j].leaf /\ lines[j].feature = f}}
ValuesIn(lines) == UNION {ValuesOf(lines, f) : f \in TreeFeatures}

(* No split repeats what the split above it has settled. *)
Trees ==
    LET leaves == {OneLine(1, c) : c \in Segments}
        below(t) == {x \in Stumps : \A v \in ValuesOf(x, "recency") : v < t}
        above(t) == {x \in Stumps : \A v \in ValuesOf(x, "recency") : v > t}
    IN  {x \in UNION {{Split(0, "recency", t, l, r) :
                        l \in leaves \cup below(t), r \in leaves \cup above(t)} :
                     t \in Thresholds} :
           {x[i].class : i \in {j \in DOMAIN x : x[j].leaf}} = Segments}

(* What one pattern each reads out of a line. *)
Claims ==
    [kind : {"count", "row", "total"}, seg : Named, n : Numbers]
      \cup [kind : {"avg"}, seg : Named, n : Numbers, tenths : BOOLEAN]
      \cup [kind : {"share"}, seg : Named, n : Numbers, about : BOOLEAN]
      \cup [kind : {"times"}, seg : Named, of : Named, n : Numbers, tenths : BOOLEAN,
            words : SUBSET {"people", "metric"}]
      \cup [kind : {"diff"}, seg : Named, of : Named, n : Numbers, sign : {1, -1}]
      \cup [kind : {"limit"}, n : Numbers]
      \cup [kind : {"best"}, more : BOOLEAN]
      \cup [kind : {"compare"}, seg : Named, of : Named]

(***************************************************************************)
(* Numbers.  Python rounds a half to the even neighbour.                   *)
(***************************************************************************)
Rounded(num, den) ==
    LET q == num \div den
        r == num % den
    IN  CHOOSE v \in {q, q + 1} :
            \/ 2 * r < den /\ v = q
            \/ 2 * r > den /\ v = q + 1
            \/ 2 * r = den /\ v % 2 = 0
RoundedMatch(c, num, den) ==
    IF c.tenths THEN Rounded(10 * num, den) = c.n ELSE Rounded(num, den) = c.n

Distance(a, b) == IF a < b THEN b - a ELSE a - b
(* The sum over the segments, as the number of all their users. *)
SumOfUsers(rows) == Cardinality(UNION {{s} \X (1..rows[s].users) : s \in DOMAIN rows})
Total(rows) == IF SumOfUsers(rows) = 0 THEN 1 ELSE SumOfUsers(rows)

(***************************************************************************)
(* Layer 1: numbers against the statistics.                                *)
(***************************************************************************)
(* The readings of "X is n times Y" that its words leave open, as fractions. *)
Readings(rows, c) ==
    LET a == rows[c.seg]
        b == rows[c.of]
    IN  (IF "metric" \notin c.words \/ "people" \in c.words
         THEN {<<a.users, b.users>>} ELSE {})
          \cup (IF "people" \notin c.words \/ "metric" \in c.words
                THEN {<<a.avg, b.avg>>} ELSE {})

CountWrong(rows, c) == c.seg \in DOMAIN rows /\ rows[c.seg].users # c.n
AvgWrong(rows, c) ==
    /\ c.seg \in DOMAIN rows
    /\ IF c.tenths THEN Distance(10 * c.n, rows[c.seg].avg) > 1
                   ELSE Rounded(rows[c.seg].avg, 100) # c.n
ShareWrong(rows, c) ==
    /\ c.seg \in DOMAIN rows
    /\ LET pct == 100 * rows[c.seg].users
       IN  IF c.about THEN Distance(c.n * Total(rows), pct) > Total(rows)
                      ELSE Rounded(pct, Total(rows)) # c.n
TimesWrong(rows, c) ==
    /\ {c.seg, c.of} \subseteq DOMAIN rows
    /\ \A r \in Readings(rows, c) : ~RoundedMatch(c, r[1], r[2])
DiffWrong(rows, c) ==
    /\ {c.seg, c.of} \subseteq DOMAIN rows
    /\ LET actual == rows[c.seg].users - rows[c.of].users
       IN  c.sign * actual <= 0 \/ c.sign * actual # c.n

(* "segment Y ... n people" also occurs inside a difference: such a span is
   blanked before the counts are read. *)
CountClaimsUnmasked(claims) ==
    {c \in claims : c.kind \in {"count", "row"}}
      \cup {[kind |-> "count", seg |-> c.of, n |-> c.n] : c \in {d \in claims : d.kind = "diff"}}
CountClaims(claims) == {c \in claims : c.kind \in {"count", "row"}}

Of(kind, claims) == {c \in claims : c.kind = kind}
Numerical(rows, claims) ==
    {c \in CountClaims(claims) : CountWrong(rows, c)}
      \cup {c \in Of("avg", claims) : AvgWrong(rows, c)}
      \cup {c \in Of("share", claims) : ShareWrong(rows, c)}
      \cup {c \in Of("total", claims) : c.n # Total(rows)}
      \cup {c \in Of("times", claims) : TimesWrong(rows, c)}
      \cup {c \in Of("diff", claims) : DiffWrong(rows, c)}

(***************************************************************************)
(* Layer 2: thresholds against the tree, read line by line.  A leaf sets   *)
(* the bounds of its class from the conditions above it.                   *)
(***************************************************************************)
Bounds(conds, f) ==
    LET on(op) == {c.value : c \in {d \in conds : d.feature = f /\ d.op = op}}
    IN  (IF on(">") = {} THEN {} ELSE {Max(on(">"))})
          \cup (IF on("<=") = {} THEN {} ELSE {Min(on("<="))})
(* Above a line stand the conditions before it that none of the same or a lesser depth
   has followed since. *)
Conditions(lines, i) ==
    {lines[j] : j \in {k \in 1..(i - 1) :
        /\ ~lines[k].leaf
        /\ \A l \in (k + 1)..(i - 1) : lines[l].leaf \/ lines[l].depth > lines[k].depth}}
(* Of two leaves of a class the last one's bounds stay. *)
Leaves(lines, c) == {i \in DOMAIN lines : lines[i].leaf /\ lines[i].class = c}
ParseDecisionTree(lines) ==
    [c \in {d \in Segments : Leaves(lines, d) # {}} |->
        UNION {Bounds(Conditions(lines, Max(Leaves(lines, c))), f) : f \in TreeFeatures}]
TreeThresholds(lines) ==
    LET bounds == ParseDecisionTree(lines) IN UNION {bounds[c] : c \in DOMAIN bounds}
RuleClaims(tree, claims) ==
    IF tree = <<>> THEN {}
    ELSE {c \in Of("limit", claims) : \A t \in TreeThresholds(tree) : Distance(c.n, t) > 1}

(***************************************************************************)
(* Layer 3: comparisons, only when there are two segments.                 *)
(***************************************************************************)
BestWrong(rows, c) ==
    LET high == rows[Max(DOMAIN rows)].avg
        low  == rows[Min(DOMAIN rows)].avg
    IN  IF c.more THEN high < low ELSE high > low
Logic(rows, claims) ==
    IF Cardinality(DOMAIN rows) < 2 THEN {}
    ELSE {c \in Of("best", claims) : BestWrong(rows, c)}
           \cup {c \in Of("compare", claims) : ~({c.seg, c.of} \subseteq DOMAIN rows)}

(***************************************************************************)
(* The round: skills run, the model replies, the reply is checked.         *)
(***************************************************************************)
EmptyReply == {[kind |-> "empty"]}
RunFactCheck(f, claims) ==
    IF claims = EmptyReply THEN EmptyReply
    ELSE (IF f.rows = NoRows THEN {} ELSE Numerical(f.rows, claims))
           \cup RuleClaims(f.tree, claims)
           \cup (IF f.rows = NoRows THEN {} ELSE Logic(f.rows, claims))

NoFacts == [rows |-> NoRows, tree |-> <<>>]
FactInit ==
    /\ facts = NoFacts
    /\ reply = {}
    /\ verdict = {}

(* The layers read different results: a round returns one or the other. *)
StatsReturned ==
    /\ facts = NoFacts /\ reply = {}
    /\ \E rows \in [Segments -> StatsRow] : facts' = [facts EXCEPT !.rows = rows]
    /\ UNCHANGED <<reply, verdict>>

RulesReturned ==
    /\ facts = NoFacts /\ reply = {}
    /\ \E tree \in Trees : facts' = [facts EXCEPT !.tree = tree]
    /\ UNCHANGED <<reply, verdict>>

(* A reply may make claims that no result of the round covers. *)
Covered(c) ==
    \/ facts = NoFacts
    \/ facts.rows # NoRows /\ c.kind # "limit"
    \/ facts.tree # <<>> /\ c.kind = "limit"
Check ==
    /\ reply = {}
    /\ \E claims \in {EmptyReply} \cup {{c} : c \in {d \in Claims : Covered(d)}} :
         reply' = claims /\ verdict' = RunFactCheck(facts, claims)
    /\ UNCHANGED facts

NextRound ==
    /\ reply # {}
    /\ facts' = NoFacts /\ reply' = {} /\ verdict' = {}

FactNext == StatsReturned \/ RulesReturned \/ Check \/ NextRound

(***************************************************************************)
(* What a claim means, told without the checker.                           *)
(***************************************************************************)
(* n stands within half a unit of its last digit of num / den. *)
WithinHalf(n, num, den) == 2 * Distance(n * den, num) <= den
InsideHalf(n, num, den) == 2 * Distance(n * den, num) < den
Scale(c) == IF c.tenths THEN 10 ELSE 1

Holds(f, c) ==
    LET r == f.rows
        known == r # NoRows /\ c.seg \in DOMAIN r
        both == known /\ c.of \in DOMAIN r
    IN  CASE c.kind \in {"count", "row"} -> known /\ c.n = r[c.seg].users
          [] c.kind = "total" -> r # NoRows /\ c.n = SumOfUsers(r)
          [] c.kind = "avg" -> known /\ ~c.tenths /\ InsideHalf(c.n, r[c.seg].avg, 100)
          [] c.kind = "share" -> known /\ InsideHalf(c.n, 100 * r[c.seg].users, SumOfUsers(r))
          [] c.kind = "times" -> both /\ \E x \in Readings(r, c) :
                                            InsideHalf(c.n, Scale(c) * x[1], x[2])
          [] c.kind = "diff" -> both /\ c.n > 0
                                /\ r[c.seg].users = r[c.of].users + c.sign * c.n
          [] c.kind = "limit" -> c.n \in ValuesIn(f.tree)
          [] OTHER -> FALSE

Contradicted(f, c) ==
    LET r == f.rows
        known == r # NoRows /\ c.seg \in DOMAIN r
        both == known /\ c.of \in DOMAIN r
    IN  CASE c.kind \in {"count", "row"} -> known /\ c.n # r[c.seg].users
          [] c.kind = "total" -> r # NoRows /\ c.n # SumOfUsers(r)
          [] c.kind = "avg" -> known /\ ~WithinHalf(c.n, Scale(c) * r[c.seg].avg, 100)
          [] c.kind = "share" -> known /\ ~c.about
                                 /\ ~WithinHalf(c.n, 100 * r[c.seg].users, SumOfUsers(r))
          [] c.kind = "times" -> both /\ \A x \in Readings(r, c) :
                                            ~WithinHalf(c.n, Scale(c) * x[1], x[2])
          [] c.kind = "diff" -> both /\ r[c.seg].users # r[c.of].users + c.sign * c.n
          [] c.kind = "limit" -> f.tree # <<>>
                                 /\ \A t \in ValuesIn(f.tree) : Distance(c.n, t) > 1
          [] OTHER -> FALSE

OneLeafPerClass ==
    \A i, j \in DOMAIN facts.tree :
        facts.tree[i].leaf /\ facts.tree[j].leaf /\ facts.tree[i].class = facts.tree[j].class
          => i = j

(* A reply that only says what the round's data says passes, and a reply that
   contradicts it does not; thresholds are left out where two leaves of the
   tree share a class (fact_checker.py:596). *)
VerdictRight ==
    reply \notin {{}, EmptyReply} =>
        /\ (\A c \in reply : Holds(facts, c) /\ (c.kind = "limit" => OneLeafPerClass)) => verdict = {}
        /\ (\E c \in reply : Contradicted(facts, c)) => verdict # {}

(* "Build a set of all thresholds present in the tree" (fact_checker.py:479):
   a threshold that stands in the tree is never reported as missing. *)
TreeThresholdsPass ==
    reply \notin {{}, EmptyReply} =>
        \A c \in verdict : c.kind = "limit" => c.n \notin ValuesIn(facts.tree)

FactSpec == FactInit /\ [][FactNext]_factVars
================================================================================
