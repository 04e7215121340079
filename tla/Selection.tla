----------------------------- MODULE Selection -----------------------------
(***************************************************************************)
(* Which text a job returns: humanize (engine/pipeline.py).  It rewrites   *)
(* the text by several plans, keeps the candidates that pass every check,  *)
(* adds two plans if none of them is as similar to the original as its     *)
(* tier wants, ranks them, and takes the best of the first three that      *)
(* parses.  A text that is human already gets one gentle pass or none, one *)
(* whose candidates all fail gets its grammar repaired only.               *)
(*                                                                         *)
(* A candidate is a text, which semantic_check of Semantics compares with  *)
(* the original, and what the measures say of it.  The code rounds         *)
(* similarity and distance to thousandths and scores to tenths: these are  *)
(* integers here, and so is the rank, in ten-thousandths.                  *)
(***************************************************************************)
EXTENDS Semantics, Integers, TLC

CONSTANTS
  Originals,    \* texts to rewrite
  Intensities,  \* that requests ask for
  Baselines,    \* overall_score of the original
  Threshold,    \* settings.human_score_threshold
  Rewritings    \* of each original: texts and their measures

ASSUME SelectionAssumption ==
  /\ Intensities \subseteq Int
  /\ Baselines \subseteq Nat
  /\ Threshold \in Nat
  /\ Originals \subseteq Texts
  /\ DOMAIN Rewritings = Originals
  /\ \A c \in UNION Range(Rewritings) :
       /\ c.text \in Texts
       /\ c.wording \in Nat        \* problems of grammar_check and the diversity check
       /\ c.score \in 0..1000 /\ c.similarity \in 0..1000 /\ c.distance \in 0..1000
       /\ c.parses \in BOOLEAN     \* no pos_issues

VARIABLES
  text,       \* the original
  intensity,  \* max(0, min(100, intensity))
  short,      \* len(text) < 600
  baseline,
  phase,      \* what comes next
  records,    \* the candidates, in the order they were made
  answer      \* the text that is returned and what its meta says

selectionVars == <<text, intensity, short, baseline, phase, records, answer>>

Repaired == 0        \* repair_only(text), other answers are numbers of records
NoAnswer == [choice |-> Repaired, verdict |-> "none", human |-> FALSE]

SelectionTypeOK ==
  /\ text \in Originals
  /\ intensity \in 0..100
  /\ short \in BOOLEAN
  /\ baseline \in Baselines
  /\ phase \in {"gate", "gentle", "plans", "extras", "choose", "done"}
  /\ \E n \in 0..7 :
       /\ Len(records) = n
       /\ \A i \in 1..n : /\ records[i].candidate \in Rewritings[text]
                          /\ records[i].level \in 5..100
                          /\ records[i].structural \in BOOLEAN
  /\ answer \in [choice : 0..Len(records), verdict : {"none", "passed", "rejected"},
                 human : BOOLEAN]

-----------------------------------------------------------------------------
(* The plans. *)

AtLeast(n, m) == Max({n, m})
AtMost(n, m)  == Min({n, m})

\* min(95, ...), of the plans that go deeper than asked for.
Capped(n) == AtMost(95, n)

Tier == CASE intensity <= 33         -> "low"
          [] intensity \in 34..66    -> "medium"
          [] intensity >= 67         -> "high"

Plan(level, structural) == [level |-> level, structural |-> structural]

Base ==
  << Plan(intensity, FALSE),
     Plan(AtLeast(35, intensity - 15), TRUE),
     Plan(Capped(intensity + 12), TRUE),
     Plan(AtLeast(25, intensity - 30), FALSE),
     Plan(AtLeast(20, intensity - 50), FALSE) >>

\* int(it * 0.75), for short texts.
Softened(p) == Plan(AtLeast(20, (p.level * 3) \div 4), p.structural)

Plans ==
  IF Tier = "low" THEN SubSeq(Base, 1, 2)
  ELSE IF short THEN [i \in 1..5 |-> Softened(Base[i])]
  ELSE Base

\* A gentler and a deeper one, which are not softened.
Extras ==
  << Plan(AtLeast(20, (intensity * 35) \div 100), FALSE),
     Plan(Capped((intensity * 115) \div 100), TRUE) >>

-----------------------------------------------------------------------------
(* The candidates. *)

\* Variant: problems = lexical_diversity_regression(...), the others forgotten.
LastCheckOnly(r) == r.candidate.wording

\* len(r["problems"]).
Problems(r) == r.claims + r.candidate.wording

Eligible == {i \in DOMAIN records : Problems(records[i]) = 0}

\* TARGET_SIM and MIN_DISTANCE.
Window ==
  CASE Tier = "low"    -> [lo |-> 880, hi |-> 990]
    [] Tier = "medium" -> [lo |-> 800, hi |-> 950]
    [] Tier = "high"   -> [lo |-> 720, hi |-> 930]

Floor == CASE Tier = "low" -> 30 [] Tier = "medium" -> 80 [] Tier = "high" -> 140

InWindow(i) == records[i].candidate.similarity \in Window.lo..Window.hi

\* sim_pen + dist_pen + score * 0.25.
Rank(c) ==
  LET off  == Max({0, Window.lo - c.similarity, c.similarity - Window.hi})
      near == AtLeast(0, Floor - c.distance)
  IN 35 * off + 18 * near + 250 * c.score

Better(i, j) ==
  LET a == Rank(records[i].candidate)
      b == Rank(records[j].candidate)
  IN a < b \/ (a = b /\ i < j)

\* The head of the candidates of S in the order of eligible.sort(key=rank), which
\* is stable.
Best(S) == CHOOSE i \in S : \A j \in S \ {i} : Better(i, j)

\* eligible[:3]
WithNext(S) == IF S = Eligible THEN S ELSE S \cup {Best(Eligible \ S)}
Leaders     == WithNext(WithNext(WithNext({})))

Parsing == {i \in Leaders : records[i].candidate.parses}

\* Variant: break is missing, the last one that parses is taken.
LastThatParses ==
  IF Parsing = {} THEN Best(Eligible)
  ELSE CHOOSE i \in Parsing : \A j \in Parsing \ {i} : Better(j, i)

\* The first of eligible[:3] without pos_issues, eligible[0] if there is none.
FirstThatParses == Best(IF Parsing = {} THEN Eligible ELSE Parsing)

-----------------------------------------------------------------------------
(* The steps of humanize. *)

SelectionInit ==
  /\ text \in Originals
  /\ \E n \in Intensities : intensity = AtLeast(0, AtMost(100, n))
  /\ short \in BOOLEAN
  /\ baseline \in Baselines
  /\ phase = "gate"
  /\ records = <<>>
  /\ answer = NoAnswer

Return(choice, verdict) ==
  /\ phase' = "done"
  /\ answer' = [choice |-> choice, verdict |-> verdict, human |-> baseline < Threshold]

\* _minimal(reason).
Minimal(reasons) == Return(Repaired, IF reasons > 0 THEN "rejected" ELSE "passed")

\* A text that is clearly human is repaired, one that is human gets one pass.
Gate ==
  /\ phase = "gate"
  /\ \/ /\ baseline * 10 < Threshold * 6
        /\ Minimal(0)
     \/ /\ baseline < Threshold
        /\ baseline * 10 >= Threshold * 6
        /\ phase' = "gentle"
        /\ UNCHANGED answer
     \/ /\ baseline >= Threshold
        /\ phase' = "plans"
        /\ UNCHANGED answer
  /\ UNCHANGED <<text, intensity, short, baseline, records>>

\* len(analysis_pre_check(text, candidate))
PreCheck == [o \in Originals |->
              [c \in Rewritings[o] |-> Cardinality(SemanticCheck(o, c.text))]]

\* _run_pass, the checks and the measures.
Pass(plan) ==
  \E c \in Rewritings[text] :
    records' = Append(records,
      [candidate |-> c, claims |-> PreCheck[text][c],
       level |-> AtLeast(5, plan.level), structural |-> plan.structural])

\* if not problems, of semantic_check alone.
KeepsClaims(r) == r.claims = 0

\* A pass of level 12.
Gentle ==
  /\ phase = "gentle"
  /\ Pass(Plan(12, FALSE))
  /\ LET r == records'[1]
     IN IF KeepsClaims(r) THEN Return(1, "passed") ELSE Minimal(r.claims)
  /\ UNCHANGED <<text, intensity, short, baseline>>

\* One plan after the other, then two more if the tier's window is missed.
Attempt ==
  /\ phase = "plans"
  /\ Pass(Plans[Len(records) + 1])
  /\ phase' = IF Len(records') < Len(Plans) THEN "plans" ELSE "extras"
  /\ UNCHANGED <<text, intensity, short, baseline, answer>>

Replan == Tier # "low" /\ Eligible # {} /\ ~\E i \in Eligible : InWindow(i)

Extra ==
  /\ phase = "extras"
  /\ IF Len(records) = Len(Plans) /\ ~Replan
     THEN phase' = "choose" /\ UNCHANGED records
     ELSE LET k == Len(records) - Len(Plans) + 1
          IN Pass(Extras[k]) /\ phase' = IF k = 2 THEN "choose" ELSE "extras"
  /\ UNCHANGED <<text, intensity, short, baseline, answer>>

Choose ==
  /\ phase = "choose"
  /\ IF Eligible # {}
     THEN Return(FirstThatParses, "passed")
     ELSE Minimal(Min({Problems(records[i]) : i \in DOMAIN records}))
  /\ UNCHANGED <<text, intensity, short, baseline, records>>

Done == phase = "done" /\ UNCHANGED selectionVars

SelectionNext == Gate \/ Gentle \/ Attempt \/ Extra \/ Choose \/ Done

SelectionSpec == SelectionInit /\ [][SelectionNext]_selectionVars

-----------------------------------------------------------------------------
(* Properties. *)

Returned == records[answer.choice].candidate

\* What a reader would count: the numbers, and the words that say no, each as
\* often as before; every other word of the original that no transform may
\* remove at least as often; and nothing new that no transform may add.
SaysTheSame(original, rewritten) ==
  LET o   == ExpandedText(original)
      n   == ExpandedText(rewritten)
      was == Counted(Words(o), DOMAIN o)
      is  == Counted(Words(n), DOMAIN n)
  IN /\ NegationsOf(original) = NegationsOf(rewritten)
     /\ \A t \in Range(o \o n) :
          LET more == Copies(t.word, is) - Copies(t.word, was)
          IN IF t.form = "number" THEN more = 0
             ELSE \/ t.word \in Stopwords
                  \/ more = 0
                  \/ more < 0 /\ t.word \in Droppable
                  \/ more > 0 /\ t.word \in Allowlist

\* docs/engine.md, hard guarantee 1: a rewritten text that is returned has kept
\* numbers, negations and claims, on whichever way it was returned, and a text
\* that was not human before has passed the checks of its wording too.
MeaningKept ==
  phase = "done" /\ answer.choice # Repaired =>
    SaysTheSame(text, Returned.text) /\ (answer.human \/ Returned.wording = 0)

\* A text that is humanized again, as test_double_pass_does_not_destroy_prose
\* does, has kept the claims of the first one, though the second check has only
\* seen what the first left: what passes twice would have passed at once, but
\* for the comparison by sentences.
KeptTwice ==
  phase = "gate" =>
    \A c, d \in {e.text : e \in Rewritings[text]} :
      SemanticCheck(text, c) = {} /\ SemanticCheck(c, d) = {} =>
        SemanticCheck(text, d) \subseteq {<<"sentence", k>> : k \in DOMAIN text}

\* Whatever the order of the attempts: the returned text is one that parses, is
\* among the three best of those that passed, and no better one parses; or none
\* of the three parses and it is the best.
BestThatParses ==
  phase = "done" /\ answer.choice # Repaired /\ ~answer.human =>
    LET r == answer.choice
        Ahead(i) == {j \in Eligible : Better(j, i)}
        Near == {i \in Eligible : Cardinality(Ahead(i)) < 3}
        Parses(i) == records[i].candidate.parses
    IN IF Parses(r)
       THEN r \in Near /\ \A i \in Ahead(r) : ~Parses(i)
       ELSE Ahead(r) = {} /\ \A i \in Near : ~Parses(i)
=============================================================================
