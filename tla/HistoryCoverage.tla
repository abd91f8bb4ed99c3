-------------------------- MODULE HistoryCoverage --------------------------
(* Coverage receipts of one exact history contract and the repairs that     *)
(* extend them: the range algebra of data/history_coverage.py, the table of *)
(* storage/repos/history_coverage.py, the plan of                           *)
(* ui/services/chart_stream_gap_repair.py and engine/history_repair.py, and *)
(* the walk over older chunks of data/history_repair.py.                    *)
(*                                                                          *)
(* Time is counted in bars; a range is the half-open interval <<from, to>>. *)
EXTENDS Integers, Sequences, FiniteSets, SequencesExt

CONSTANTS MaxTime,        \* ranges end at MaxTime or before
          MaxSpan,        \* max_request_span, in bars
          Demands,        \* independent repair demands on the scope
          MaxCommits   \* bound on the canonical generation

ASSUME CoverageAssumption == MaxTime \in Nat /\ MaxSpan \in Nat \ {0} /\ MaxCommits \in Nat

VARIABLES table,       \* receipts of history_coverage
          generation,  \* canonical generation of the scope
          plan,        \* plan[d]: the HistoryRepairIntent in progress
          admitted     \* the bars of every receipt that was committed

coverageVars == <<table, generation, plan, admitted>>

Times == 0 .. MaxTime
Ranges == {r \in Times \X Times : r[1] < r[2]}
BarsOf(r) == r[1] .. r[2] - 1
AllBars(ranges) == UNION {BarsOf(r) : r \in ranges}
Larger(a, b) == IF a > b THEN a ELSE b
Smaller(a, b) == IF a < b THEN a ELSE b

-----------------------------------------------------------------------------
(* Range algebra.                                                           *)

Before(r, s) == r[1] < s[1] \/ (r[1] = s[1] /\ r[2] <= s[2])

(* Mutant: receipts that only touch stay apart. *)
MutantMergeOverlapping(merged, r) ==
  IF merged = <<>> \/ r[1] >= Last(merged)[2] THEN Append(merged, r)
  ELSE Append(Front(merged), <<Last(merged)[1], Larger(Last(merged)[2], r[2])>>)

(* One receipt of history_coverage_union, in (from, to) order.              *)
Merge(merged, r) ==
  IF merged = <<>> \/ r[1] > Last(merged)[2] THEN Append(merged, r)
  ELSE Append(Front(merged), <<Last(merged)[1], Larger(Last(merged)[2], r[2])>>)

(* history_coverage_union: the receipts are merged in their order, each     *)
(* after all that come before it.                                           *)
LastReceipt(receipts) == CHOOSE r \in receipts : \A s \in receipts : Before(s, r)
CoverageUnion(receipts) ==
  MapThenFoldSet(LAMBDA r, merged : Merge(merged, r), <<>>, LAMBDA r : r,
                 LastReceipt, receipts)

(* history_range_is_covered                                                 *)
RangeIsCovered(receipts, start, end) ==
  \E i \in DOMAIN CoverageUnion(receipts) :
    LET u == CoverageUnion(receipts)[i] IN u[1] <= start /\ u[2] >= end

(* Mutant: every gap is reported from the start of the request. *)
MutantCutFromStart(acc, u, start, end) ==
  IF u[2] <= acc.cursor \/ u[1] >= end THEN acc
  ELSE [gaps   |-> IF Larger(u[1], start) > acc.cursor
                   THEN Append(acc.gaps, <<start, Larger(u[1], start)>>) ELSE acc.gaps,
        cursor |-> Larger(acc.cursor, Smaller(u[2], end))]

(* One covered range of history_uncovered_ranges.                           *)
Cut(acc, u, start, end) ==
  IF u[2] <= acc.cursor \/ u[1] >= end THEN acc
  ELSE [gaps   |-> IF Larger(u[1], start) > acc.cursor
                   THEN Append(acc.gaps, <<acc.cursor, Larger(u[1], start)>>) ELSE acc.gaps,
        cursor |-> Larger(acc.cursor, Smaller(u[2], end))]

(* history_uncovered_ranges                                                 *)
UncoveredRanges(receipts, start, end) ==
  LET acc == FoldLeft(LAMBDA a, u : Cut(a, u, start, end),
                      [gaps |-> <<>>, cursor |-> start], CoverageUnion(receipts))
  IN IF acc.cursor < end THEN Append(acc.gaps, <<acc.cursor, end>>) ELSE acc.gaps

-----------------------------------------------------------------------------
(* The table.                                                               *)

(* _read_history_coverages_on_cursor: the receipts that meet the range.     *)
ReadCoverage(start, end) == {r \in table : r[2] > start /\ r[1] < end}

(* _write_history_coverages_if_expanded for adjacent receipts in order; the *)
(* caller holds the advisory lock of the contract.                          *)
WriteIfExpanded(receipts) ==
  LET existing == ReadCoverage(receipts[1][1], Last(receipts)[2])
      new == FoldLeft(LAMBDA acc, r : IF RangeIsCovered(existing \cup acc, r[1], r[2])
                                      THEN acc ELSE acc \cup {r}, {}, receipts)
  IN table' = table \cup new

(* The provider chunks of a range: whole, or cut in two.                    *)
Chunks(start, end) ==
  {<< <<start, end>> >>}
  \cup {<< <<start, m>>, <<m, end>> >> : m \in start + 1 .. end - 1}

-----------------------------------------------------------------------------
NoPlan == [phase |-> "none"]
Plan(start, end, target, gen) ==
  [phase |-> "queued", start |-> start, end |-> end, target |-> target, gen |-> gen]

CoverageTypeOK ==
  /\ table \subseteq Ranges
  /\ generation \in 0 .. MaxCommits
  /\ admitted \subseteq Times
  /\ \A d \in Demands :
       \/ plan[d] = NoPlan
       \/ /\ plan[d].phase \in {"captured", "queued"}
          /\ <<plan[d].start, plan[d].end>> \in Ranges
          /\ plan[d].target \in Times
          /\ plan[d].gen \in 0 .. MaxCommits

CoverageInit ==
  /\ table = {}
  /\ generation = 0
  /\ plan = [d \in Demands |-> NoPlan]
  /\ admitted = {}

SetPlan(d, p) == plan' = [plan EXCEPT ![d] = p]

(* A chart asks for <<start, end>> and captures the generation first.       *)
Demand(d, r) ==
  /\ plan[d] = NoPlan
  /\ SetPlan(d, [phase |-> "captured", start |-> r[1], end |-> r[2],
                 target |-> r[1], gen |-> generation])
  /\ UNCHANGED <<table, generation, admitted>>

(* select_history_repair_intent: the newest MaxSpan bars of the target      *)
(* become the first chunk.                                                  *)
SelectIntent(start, end, gen) == Plan(Larger(start, end - MaxSpan), end, start, gen)

(* select_chart_history_repair then reads the receipts; the newest          *)
(* uncovered range becomes the target.                                      *)
PlanRepair(d) ==
  LET gaps == UncoveredRanges(ReadCoverage(plan[d].start, plan[d].end),
                              plan[d].start, plan[d].end)
      gap == Last(gaps)
  IN /\ plan[d].phase = "captured"
     /\ SetPlan(d, IF gaps = <<>> THEN NoPlan
                   ELSE SelectIntent(gap[1], gap[2], plan[d].gen))
     /\ UNCHANGED <<table, generation, admitted>>

(* Mutant: the next chunk overlaps the one before. *)
MutantContinueOverlaps(d, gen) ==
  LET p == plan[d] IN
  IF p.start <= p.target THEN NoPlan
  ELSE Plan(Larger(p.target, p.start - (p.end - p.start)), p.start + 1, p.target, gen)

(* _continuation_request: the next older chunk, under the generation that   *)
(* the commit produced.                                                     *)
Continue(d, gen) ==
  LET p == plan[d] IN
  IF p.start <= p.target THEN NoPlan
  ELSE Plan(Larger(p.target, p.start - (p.end - p.start)), p.start, p.target, gen)

(* The chunk is fetched and committed under its generation, whether or not  *)
(* its rows were new; without rows or expansion (NO_CHANGE) the walk ends.  *)
CommitChunk(d) ==
  /\ plan[d].phase = "queued"
  /\ plan[d].gen = generation
  /\ generation < MaxCommits
  /\ \E receipts \in Chunks(plan[d].start, plan[d].end) : WriteIfExpanded(receipts)
  /\ admitted' = admitted \cup BarsOf(<<plan[d].start, plan[d].end>>)
  /\ \E rows \in BOOLEAN :
       LET progressed == rows \/ table' # table IN
       /\ generation' = IF progressed THEN generation + 1 ELSE generation
       /\ SetPlan(d, IF progressed THEN Continue(d, generation') ELSE NoPlan)

(* The generation moved on, or the provider failed: a fresh demand is       *)
(* needed.                                                                  *)
DropChunk(d) ==
  /\ plan[d].phase = "queued"
  /\ SetPlan(d, NoPlan)
  /\ UNCHANGED <<table, generation, admitted>>

(* A live commit on the scope.                                              *)
OtherCommit ==
  /\ generation < MaxCommits
  /\ generation' = generation + 1
  /\ UNCHANGED <<table, plan, admitted>>

CoverageNext ==
  \/ \E d \in Demands : \/ \E r \in Ranges : Demand(d, r)
                        \/ PlanRepair(d) \/ CommitChunk(d) \/ DropChunk(d)
  \/ OtherCommit

CoverageSpec == CoverageInit /\ [][CoverageNext]_coverageVars

-----------------------------------------------------------------------------
(* Properties                                                               *)

(* A range counts as provider-complete exactly when every bar of it is in   *)
(* some receipt, also when only neighbouring receipts together cover it.    *)
CoverageIsExact ==
  \A r \in Ranges :
    RangeIsCovered(ReadCoverage(r[1], r[2]), r[1], r[2]) <=> BarsOf(r) \subseteq admitted

(* The ranges a repair is planned from are exactly the bars of the request  *)
(* that no receipt covers, in order, and never two that touch.              *)
GapsAreExact ==
  \A r \in Ranges :
    LET gaps == UncoveredRanges(ReadCoverage(r[1], r[2]), r[1], r[2])
    IN /\ AllBars({gaps[i] : i \in DOMAIN gaps}) = BarsOf(r) \ admitted
       /\ \A i \in 1 .. Len(gaps) - 1 : gaps[i][2] < gaps[i + 1][1]

(* A queued chunk whose generation is still current asks the provider for   *)
(* nothing that is already mirrored, all the way to its target: the check   *)
(* of the generation stands in for a second look at the receipts.           *)
RepairsAreNews ==
  \A d \in Demands :
    plan[d].phase = "queued" /\ plan[d].gen = generation =>
      (plan[d].target .. plan[d].end - 1) \cap admitted = {}
============================================================================
