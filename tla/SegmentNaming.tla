---------------------------- MODULE SegmentNaming ----------------------------
(***************************************************************************)
(* How users become named segments: the choice of k, the numbering of the  *)
(* clusters and the flow tags (pipeline/user_segmentation.py), and the     *)
(* business names asked of the LLM, with heuristic names behind it and a   *)
(* cache before it (pipeline/segment_naming.py).  K-Means, the gap         *)
(* statistic and the LLM are external: any outcome they may have.          *)
(* AUTO_K_ENABLED is set; a user is its profile, so profiles are distinct. *)
(***************************************************************************)
EXTENDS Integers, FiniteSetsExt, Sequences

CONSTANTS
  Customers,     \* [recency, frequency, monetary] a user may have
  NumUsers,     \* users in the orders
  KMin, KMax,   \* AUTO_K_MIN, AUTO_K_MAX
  MinCluster,   \* the larger of AUTO_K_MIN_CLUSTER_SIZE and _RATIO of the users
  NameTtl,      \* PIPELINE_CACHE_TTL
  MaxNames,     \* _MAX_NAMES_CACHE_ENTRIES
  LastTick      \* bound on the clock

ASSUME NamingAssumption ==
  /\ Customers \subseteq [recency : Nat, frequency : Nat, monetary : Nat]
  /\ NumUsers \in Nat \ {0} /\ KMin \in Nat \ {0} /\ KMax \in Nat \ {0}
  /\ MinCluster \in Nat /\ NameTtl \in Nat /\ MaxNames \in Nat \ {0} /\ LastTick \in Nat

VARIABLES
  tick,
  segments,  \* the pipeline's last result: [k, rows], or Unsegmented
  names,     \* _names_cache: entries [key, names, at], one per key
  namer      \* get_segment_names: [pc, rows, names]

nameVars == <<tick, segments, names, namer>>

-----------------------------------------------------------------------------
(* user_segmentation.py *)

\* What the r-th least of the users has spent.
Spent(people, r) ==
  CHOOSE m \in {p.monetary : p \in people} :
    /\ Cardinality({p \in people : p.monetary < m}) < r
    /\ Cardinality({p \in people : p.monetary <= m}) >= r

\* Twice the median of the users' spending.
TwiceMedian(people) ==
  LET n == Cardinality(people) IN Spent(people, (n + 1) \div 2) + Spent(people, (n + 2) \div 2)

\* classify_user_flow
FlowTag(p, people) ==
  CASE p.recency <= 30 /\ p.frequency >= 3 -> "active"
    [] p.recency <= 90 /\ 2 * p.monetary >= TwiceMedian(people) /\ p.frequency < 3 -> "potential"
    [] p.recency > 90 /\ p.recency <= 180 -> "dormant"
    [] p.recency > 180 -> "churned"
    [] OTHER -> "stable"

\* The search range: k_max below the users, k_min not above it.
HighestK == Min({KMax, Max({2, NumUsers - 1})})
LowestK == Min({KMin, HighestK})

SumOf(cluster, field) == MapThenSumSet(LAMBDA p : p[field], cluster)

\* K-Means with k clusters, its labels renumbered by mean spending.
Clusterings(people, k) ==
  {c \in {[i \in 0..k-1 |-> {p \in people : label[p] = i}] : label \in [people -> 0..k-1]} :
     \A i \in 0..k-1 :
       /\ c[i] # {}
       /\ i > 0 => SumOf(c[i-1], "monetary") * Cardinality(c[i]) <= SumOf(c[i], "monetary") * Cardinality(c[i-1])}

\* _valid: no cluster is too small.
Valid(cluster) == \A i \in DOMAIN cluster : Cardinality(cluster[i]) >= MinCluster

\* find_optimal_k: the smallest valid k whose gap is within one standard error of the
\* next one (enough), else the smallest valid k, else the largest k.
OptimalK(valid, enough) ==
  LET oneSE == (valid \cap enough) \ {HighestK}
  IN  IF oneSE # {} THEN Min(oneSE) ELSE IF valid # {} THEN Min(valid) ELSE HighestK

\* The flow tag most of the cluster have (idxmax: of equals always the same one).
Dominant(cluster, people) ==
  LET Having(tag) == Cardinality({p \in cluster : FlowTag(p, people) = tag})
  IN  CHOOSE tag \in {FlowTag(p, people) : p \in cluster} :
         \A q \in cluster : Having(FlowTag(q, people)) <= Having(tag)

\* A segment's statistics: its size, the sums behind its means and its flow tag.
SegmentRow(cluster, people) ==
  [users |-> Cardinality(cluster), flow |-> Dominant(cluster, people),
   means |-> <<SumOf(cluster, "recency"), SumOf(cluster, "frequency"), SumOf(cluster, "monetary")>>]

\* What K-Means finds for each k of the range.
Searches(people) ==
  {f \in [LowestK..HighestK -> UNION {Clusterings(people, k) : k \in LowestK..HighestK}] :
     \A k \in LowestK..HighestK : DOMAIN f[k] = 0..k-1}

\* perform_clustering, with the k it settles on.
Segmented(people, found, enough) ==
  LET best == OptimalK({k \in LowestK..HighestK : Valid(found[k])}, enough)
  IN  [k |-> best, rows |-> [i \in 0..best-1 |-> SegmentRow(found[best][i], people)]]

\* Every result the pipeline may have.
Segmentations ==
  UNION {{Segmented(people, found, enough) : found \in Searches(people), enough \in SUBSET (LowestK..HighestK)} :
           people \in {s \in SUBSET Customers : IsFiniteSet(s) /\ Cardinality(s) = NumUsers}}

-----------------------------------------------------------------------------
(* segment_naming.py *)

Unsegmented == [k |-> 0, rows |-> <<>>]

\* Mutant: the ids alone.
CacheKeyOfIds(rows) == [i \in DOMAIN rows |-> i]

\* The key: the ids and the statistics (_stats_fingerprint), without the flow tags.
CacheKey(rows) == [i \in DOMAIN rows |-> <<rows[i].users, rows[i].means>>]

\* heuristic_names: the rank by spending and the dominant flow tag.
Tier(rank) == CASE rank = 0 -> "low" [] rank = 1 -> "middle" [] rank = 2 -> "high" [] OTHER -> "user"
HeuristicNames(rows) == [i \in DOMAIN rows |-> <<Tier(i), rows[i].flow>>]

\* _llm_names: the ids the answer names acceptably; nothing if an id is missing.
LlmNames(rows, named) ==
  IF DOMAIN rows \subseteq named THEN [i \in DOMAIN rows |-> <<"llm", rows[i].means>>] ELSE <<>>

Unasked == [pc |-> "idle", rows |-> <<>>, names |-> <<>>]

NameInit ==
  /\ tick = 0
  /\ segments = Unsegmented
  /\ names = {}
  /\ namer = Unasked

\* _load_and_process publishes a new result.
Resegment ==
  /\ segments' \in Segmentations
  /\ UNCHANGED <<tick, names, namer>>

\* get_segment_names: a fresh entry answers at once, else the LLM is asked, outside the lock.
AskNames ==
  /\ namer.pc # "llm" /\ segments # Unsegmented
  /\ LET hits == {e \in names : e.key = CacheKey(segments.rows) /\ tick - e.at < NameTtl}
     IN  namer' = IF hits # {}
                  THEN [pc |-> "done", rows |-> segments.rows, names |-> (CHOOSE e \in hits : TRUE).names]
                  ELSE [pc |-> "llm", rows |-> segments.rows, names |-> <<>>]
  /\ UNCHANGED <<tick, segments, names>>

\* The LLM has answered, or has failed (named is empty): full, the cache is emptied first.
LlmAnswers ==
  /\ namer.pc = "llm"
  /\ \E named \in SUBSET DOMAIN namer.rows :
       LET given == LlmNames(namer.rows, named)
           chosen == IF given # <<>> THEN given ELSE HeuristicNames(namer.rows)
           kept == IF Cardinality(names) >= MaxNames THEN {}
                   ELSE {e \in names : e.key # CacheKey(namer.rows)}
       IN  /\ names' = kept \cup {[key |-> CacheKey(namer.rows), names |-> chosen, at |-> tick]}
           /\ namer' = [namer EXCEPT !.pc = "done", !.names = chosen]
  /\ UNCHANGED <<tick, segments>>

NameTick ==
  /\ tick < LastTick
  /\ tick' = tick + 1
  /\ UNCHANGED <<segments, names, namer>>

\* The process starts again: all of this was in memory.
NameRestart ==
  /\ segments' = Unsegmented
  /\ names' = {}
  /\ namer' = Unasked
  /\ UNCHANGED tick

NameNext == Resegment \/ AskNames \/ LlmAnswers \/ NameTick \/ NameRestart

NameSpec == NameInit /\ [][NameNext]_nameVars

-----------------------------------------------------------------------------

\* The names a chart or an answer is given, fresh, cached or heuristic, cover every
\* segment and were made for segments with these very statistics, whatever was
\* published while the LLM was asked (get_segment_names).  A heuristic name's flow tag
\* may be one of earlier segments with the same statistics: the key leaves it out.
NamesDescribe ==
  namer.pc = "done" =>
    /\ DOMAIN namer.names = DOMAIN namer.rows
    /\ \A i \in DOMAIN namer.rows :
         \/ namer.names[i] = <<"llm", namer.rows[i].means>>
         \/ namer.names[i] \in {Tier(i)} \X {"active", "potential", "stable", "dormant", "churned"}

=============================================================================
