------------------------------ MODULE Semantics ------------------------------
(***************************************************************************)
(* semantic_check of engine/semantics.py: what a rewritten text must have  *)
(* kept of the original to be a candidate at all.                          *)
(*                                                                         *)
(* A text is a sequence of sentences, which are sequences of tokens: a     *)
(* word in lower case with the form it was written in, or a number.  How   *)
(* the regular expressions find them is left out; a possessive stands for  *)
(* its word.                                                               *)
(***************************************************************************)
EXTENDS Naturals, Sequences, FiniteSets, SequencesExt

CONSTANTS
  Contractions,  \* REVERSE_CONTRACTIONS, from a word to its words
  Stopwords,     \* STOPWORDS, and the words of one or two letters
  Allowlist,     \* what a transform may add
  Droppable,     \* what a transform may remove
  Numerals       \* what NUMBER_RE finds, and WORD_RE does not

Forms  == {"lower", "title", "upper", "number"}
Tokens == {t \in [word : STRING, form : Forms] : t.form = "number" <=> t.word \in Numerals}
Texts  == Seq(Seq(Tokens))

ASSUME SemanticsAssumption ==
  \A w \in DOMAIN Contractions :
    w \notin Numerals /\ Contractions[w] \in Seq(STRING \ Numerals)

Lower(w) == [word |-> w, form |-> "lower"]

Negations   == {"not", "never", "no", "without", "nothing", "nor", "cannot"}
Rhetorical  == {"just", "only", "merely"}

\* Counter(...) of the words at some places of a sequence.
Counted(ws, places) ==
  [w \in {ws[i] : i \in places} |-> Cardinality({i \in places : ws[i] = w})]

Copies(w, count) == IF w \in DOMAIN count THEN count[w] ELSE 0

\* o - n of two counters, as the set of the words that are left.
Surplus(o, n) == {w \in DOMAIN o : o[w] > Copies(w, n)}

Words(s) == [i \in DOMAIN s |-> s[i].word]

Whole(text) == FlattenSeq(text)

\* _expand_contractions
Expanded(s) ==
  FlattenSeq([i \in DOMAIN s |->
    IF s[i].word \in DOMAIN Contractions
    THEN [k \in DOMAIN Contractions[s[i].word] |-> Lower(Contractions[s[i].word][k])]
    ELSE <<s[i]>>])

ExpandedText(text) == FlattenSeq([k \in DOMAIN text |-> Expanded(text[k])])

\* _numbers
Numbers(text) ==
  LET s == Whole(text)
  IN Counted(Words(s), {i \in DOMAIN s : s[i].form = "number"})

\* What NEGATION_RE sees, of one text: "not just", "not only" and "not merely"
\* are blanked.
Plain(text) ==
  LET Sentence(s) ==
        LET ws == Words(Expanded(s))
            IsRhetorical(i) == ws[i] = "not" /\ i < Len(ws) /\ ws[i + 1] \in Rhetorical
        IN [i \in DOMAIN ws |-> IF IsRhetorical(i) THEN "" ELSE ws[i]]
  IN FlattenSeq([k \in DOMAIN text |-> Sentence(text[k])])

NegationsOf(text) ==
  LET ws == Plain(text)
  IN Counted(ws, {i \in DOMAIN ws : ws[i] \in Negations})

\* _proper_nouns: capitals throughout.  What is written with one capital is
\* always skipped, as SENT_BOUNDARY_RE matches at the start of any string.
ProperNouns(text) == {t.word : t \in {u \in Range(Whole(text)) : u.form = "upper"}}

\* _content_words, as their places in a sequence of tokens.
ContentWords(s) == {i \in DOMAIN s : s[i].form # "number" /\ s[i].word \notin Stopwords}

Content(text) ==
  LET s == ExpandedText(text)
  IN Counted(Words(s), ContentWords(s))

\* Variant: one occurrence less is not missed.
MissesMany(o, n) == {w \in Surplus(o, n) : o[w] > Copies(w, n) + 1} \ Droppable

Missing(o, n)  == Surplus(o, n) \ Droppable
Invented(o, n) == Surplus(n, o) \ (Allowlist \cup Stopwords)

\* _sentence_claim_alignment: the original sentences of which no rewritten one
\* keeps half of the words.
Unaligned(original, rewritten) ==
  LET Claims(text) == {k \in DOMAIN text : Cardinality(ContentWords(Expanded(text[k]))) >= 4}
      Said(s)      == {Expanded(s)[i].word : i \in ContentWords(Expanded(s))}
      Kept(k)      == Said(original[k]) \ Droppable
      Shares(k, j) == 2 * Cardinality(Kept(k) \cap Said(rewritten[j])) >= Cardinality(Kept(k))
  IN IF Cardinality(Claims(original)) < 3 \/ Claims(rewritten) = {}
     THEN {}
     ELSE {k \in Claims(original) :
             Cardinality(Kept(k)) >= 3 /\ ~\E j \in Claims(rewritten) : Shares(k, j)}

\* semantic_check, as the set of the problems in its list.
SemanticCheck(original, rewritten) ==
  LET o == Content(original)
      n == Content(rewritten)
      Problem(name, is) == IF is THEN {<<name>>} ELSE {}
  IN Problem("numbers", Numbers(original) # Numbers(rewritten))
     \cup Problem("negations", NegationsOf(original) # NegationsOf(rewritten))
     \cup Problem("nouns", ProperNouns(original) \ ProperNouns(rewritten) # {})
     \cup Problem("dropped", Missing(o, n) # {})
     \cup Problem("added", Invented(o, n) # {})
     \cup {<<"sentence", k>> : k \in Unaligned(original, rewritten)}
=============================================================================
