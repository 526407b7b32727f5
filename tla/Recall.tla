------------------------------- MODULE Recall -------------------------------
(***************************************************************************)
(* What is gathered for a prompt: retrieve_cross_corpus of                 *)
(* memory/cross_corpus.py, which asks all corpora at once, and then        *)
(* build_context_summary (and prioritise_memory, the same loop without a   *)
(* profile) of memory/context_budget.py, which fills a budget of tokens.   *)
(* format_for_prompt of memory/memory_bank.py is that loop once more, with *)
(* memories of different lengths.                                          *)
(***************************************************************************)
EXTENDS Naturals, SequencesExt, FiniteSets, Listing

CONSTANTS
  Corpora,    \* a sequence of corpora, in the order of the argument
  Texts,      \* what chunks say
  MaxScore,   \* bound: scores are 0 .. MaxScore
  MaxHits,    \* bound: chunks one corpus returns
  TopK,       \* top_k
  MaxCost,    \* bound: the cost of a profile or an item
  MaxBudget   \* bound: the budget

ASSUME RecallAssumption ==
  /\ Corpora \in Seq(STRING)
  /\ MaxScore \in Nat /\ MaxHits \in Nat /\ TopK \in Nat
  /\ MaxCost \in Nat \ {0} /\ MaxBudget \in Nat

Chunks == [text : Texts, score : 0 .. MaxScore, at : DOMAIN Corpora]
NoProfile == 0

VARIABLES
  hits,        \* hits[c]: what corpus c returned
  awaited,     \* the corpora whose thread has not returned
  context,     \* what retrieve_cross_corpus returned
  profileCost, \* the cost of the user's profile, NoProfile without one
  costs,       \* what the items after it would cost
  budget, left,
  taken,       \* what is in the summary: 0 for the profile, the numbers of items
  next,        \* the item the loop is at
  stage        \* "query", "profile", "items" or "done"

queryVars == <<hits, awaited, context>>
budgetVars == <<profileCost, costs, budget, left, taken, next>>
recallVars == <<queryVars, budgetVars, stage>>

RecallInit ==
  /\ hits = [c \in DOMAIN Corpora |-> <<>>]
  /\ awaited = DOMAIN Corpora
  /\ context = <<>>
  /\ profileCost = NoProfile /\ costs = <<>> /\ budget = 0 /\ left = 0
  /\ taken = <<>> /\ next = 1
  /\ stage = "query"

-----------------------------------------------------------------------------
(* _query_corpus in its thread; a failure returns no chunk.                *)
Answers(c) ==
  /\ stage = "query" /\ c \in awaited
  /\ \E found \in BoundedSeq({k \in Chunks : k.at = c}, MaxHits) :
       hits' = [hits EXCEPT ![c] = found]
  /\ awaited' = awaited \ {c}
  /\ UNCHANGED <<context, budgetVars, stage>>

(* gather keeps the order of the corpora.                                  *)
Gathered == FlattenSeq(hits)

(* Highest score first; equal scores stay in order.                        *)
Ahead(s) ==
  {p \in (DOMAIN s) \X (DOMAIN s) :
     \/ s[p[1]].score > s[p[2]].score
     \/ s[p[1]].score = s[p[2]].score /\ p[1] < p[2]}

Sorted(s) == LET ranked == InOrder(DOMAIN s, Ahead(s)) IN [n \in DOMAIN s |-> s[ranked[n]]]

(* _deduplicate: the first chunk of a text stays.                          *)
TextsOf(s) == [n \in DOMAIN s |-> s[n].text]
Deduplicated(s) == Kept(s, Firsts(TextsOf(s)))

(* Mutant: the cut comes before the duplicates go.                         *)
MergedCut == Deduplicated(FirstOf(Sorted(Gathered), TopK))

Merged == FirstOf(Deduplicated(Sorted(Gathered)), TopK)

(* All threads have returned.  What the context goes into next is told     *)
(* apart by its costs only.                                                *)
MergeHits ==
  /\ stage = "query" /\ awaited = {}
  /\ context' = Merged
  /\ profileCost' \in 0 .. MaxCost
  /\ costs' \in [1 .. Len(Merged) -> 1 .. MaxCost]
  /\ budget' \in 0 .. MaxBudget /\ left' = budget'
  /\ stage' = "profile"
  /\ UNCHANGED <<hits, awaited, taken, next>>

-----------------------------------------------------------------------------
(* Mutant: a profile that is too long uses the budget up.                  *)
TakeProfileCut ==
  /\ stage = "profile"
  /\ IF profileCost # NoProfile
       THEN taken' = Append(taken, 0) /\ left' = IF profileCost <= left THEN left - profileCost ELSE 0
       ELSE UNCHANGED <<taken, left>>
  /\ stage' = "items"
  /\ UNCHANGED <<queryVars, profileCost, costs, budget, next>>

(* Tier 1: a profile that is too long is skipped, not cut.                 *)
TakeProfile ==
  /\ stage = "profile"
  /\ IF profileCost # NoProfile /\ profileCost <= left
       THEN taken' = Append(taken, 0) /\ left' = left - profileCost
       ELSE UNCHANGED <<taken, left>>
  /\ stage' = "items"
  /\ UNCHANGED <<queryVars, profileCost, costs, budget, next>>

(* Tier 2: items in their order until one does not fit.                    *)
TakeItem ==
  /\ stage = "items" /\ next <= Len(costs) /\ costs[next] <= left
  /\ taken' = Append(taken, next)
  /\ left' = left - costs[next]
  /\ next' = next + 1
  /\ UNCHANGED <<queryVars, profileCost, costs, budget, stage>>

StopTaking ==
  /\ stage = "items"
  /\ next <= Len(costs) => costs[next] > left
  /\ stage' = "done"
  /\ UNCHANGED <<queryVars, budgetVars>>

RecallNext ==
  \/ \E c \in DOMAIN Corpora : Answers(c)
  \/ MergeHits \/ TakeProfile \/ TakeItem \/ StopTaking

RecallSpec == RecallInit /\ [][RecallNext]_recallVars

-----------------------------------------------------------------------------
All == UNION {Range(hits[c]) : c \in DOMAIN Corpora}
Best(t) == CHOOSE n \in 0 .. MaxScore :
  /\ \E k \in All : k.text = t /\ k.score = n
  /\ \A k \in All : k.text = t => k.score <= n

(* The result is the reference answer whichever corpus answered first and  *)
(* whichever failed: as many texts as there are, up to TopK, none twice,   *)
(* each with its best score over all corpora, best first, and none left    *)
(* out for a worse one.                                                    *)
ContextIsBest ==
  stage # "query" =>
    LET texts == {k.text : k \in All}
        shown == {k.text : k \in Range(context)}
        size == IF Cardinality(texts) < TopK THEN Cardinality(texts) ELSE TopK
    IN  /\ Len(context) = size /\ Cardinality(shown) = size /\ shown \subseteq texts
        /\ \A i \in DOMAIN context : context[i].score = Best(context[i].text)
        /\ \A i, j \in DOMAIN context : i < j => context[i].score >= context[j].score
        /\ \A t \in texts \ shown, u \in shown : Best(t) <= Best(u)

Tier1 == IF profileCost <= budget THEN profileCost ELSE 0
Fits(n) == SumTo(costs, n) + Tier1 <= budget

(* The summary never costs more than the budget, has the profile first and *)
(* then items in their order without a gap, as many as fit beside it.  The *)
(* profile is "always included" by the module's own words; the code leaves *)
(* one out that is longer than the budget, and the items get all of it.    *)
SummaryFillsBudget ==
  stage = "done" =>
    \E n \in 0 .. Len(costs) :
      /\ taken = (IF Tier1 > 0 THEN <<0>> ELSE <<>>) \o [i \in 1 .. n |-> i]
      /\ Fits(n)
      /\ n < Len(costs) => ~Fits(n + 1)

(* The prompt gets the best context, as much of it as fits.                *)
RecallIsBest == ContextIsBest /\ SummaryFillsBudget
=============================================================================
