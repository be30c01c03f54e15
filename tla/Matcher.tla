------------------------------ MODULE Matcher ------------------------------
(***************************************************************************)
(* The search itself, matching/matcher.py: score every candidate by the    *)
(* words it shares with the post, and keep the best in a heap of bounded   *)
(* size.  Matching.tla leaves open what this computes; here it is computed *)
(* as the code does and compared with what "best" means, over all small    *)
(* inputs.                                                                 *)
(*                                                                         *)
(* Its two loops are recursive functions, so that what they compute can be *)
(* proved for inputs of any length.                                        *)
(*                                                                         *)
(* A heap is the set of its entries, whose least one heapq knows.  Scores  *)
(* count hundredths.  The code adds floats, whose sum does not depend on   *)
(* the order up to five words in common; after that its last bit may.      *)
(***************************************************************************)
EXTENDS Integers, Sequences, FiniteSets, SequencesExt

CONSTANTS
    HeapSizes,   \* sizes the heap is tried with
    Vocabulary,  \* the words of descriptions, without COMMON_WORDS
    MaxWords,    \* bound: words of the post that is searched for
    MaxPosts     \* bound: candidates

\* ItemMatcher refuses another size.
ASSUME MatcherAssumption ==
    /\ HeapSizes \subseteq Nat \ {0}
    /\ MaxWords \in Nat /\ MaxPosts \in Nat

\* calculate_match_score, one word: a repeated one counts less.
AddWord(candidate, state, w) ==
    IF w \notin candidate THEN state
    ELSE IF w \in state.matched THEN [state EXCEPT !.score = @ + 10]
    ELSE [score |-> state.score + 25, matched |-> state.matched \cup {w}]

\* Its loop: the score and the words met after n words of the post.
Tally(words, candidate) ==
    LET state[n \in 0 .. Len(words)] ==
            IF n = 0 THEN [score |-> 0, matched |-> {}]
            ELSE AddWord(candidate, state[n - 1], words[n])
    IN  state

Score(words, candidate) == Tally(words, candidate)[Len(words)].score

\* Tuples compare by score, then by count.
Before(a, b) ==
    \/ a.score < b.score
    \/ a.score = b.score /\ a.count < b.count
Least(heap) == CHOOSE a \in heap : \A b \in heap \ {a} : Before(a, b)

\* Mutant: a tie does not replace.
AddStrictly(size, heap, entry) ==
    IF Cardinality(heap) < size THEN heap \cup {entry}
    ELSE IF entry.score > Least(heap).score
    THEN (heap \ {Least(heap)}) \cup {entry}
    ELSE heap

\* ItemMatcher.add: a newer one that ties replaces.
Add(size, heap, entry) ==
    IF Cardinality(heap) < size THEN heap \cup {entry}
    ELSE IF entry.score >= Least(heap).score
    THEN (heap \ {Least(heap)}) \cup {entry}
    ELSE heap

\* get_potential_matches, one candidate: those with no words in common are left out.
\* The candidate's place in the order of the database stands for the counter.
See(size, words, candidates, heap, n) ==
    LET score == Score(words, candidates[n]) IN
    IF score > 0 THEN Add(size, heap, [score |-> score, count |-> n]) ELSE heap

\* Its loop: the heap after n candidates, each the set of its words.
Heaps(size, words, candidates) ==
    LET heap[n \in 0 .. Len(candidates)] ==
            IF n = 0 THEN {} ELSE See(size, words, candidates, heap[n - 1], n)
    IN  heap

Search(size, words, candidates) ==
    {entry.count : entry \in Heaps(size, words, candidates)[Len(candidates)]}

-----------------------------------------------------------------------------
(* What it is meant to compute: WALKTHROUGH.md, "A suggestion is a           *)
(* lost/found pair with a score."                                            *)

Shared(words, candidate) == {n \in DOMAIN words : words[n] \in candidate}
Distinct(words, candidate) == {words[n] : n \in Shared(words, candidate)}

\* A quarter for each distinct word in common, a tenth for each repetition.
Worth(words, candidate) ==
    15 * Cardinality(Distinct(words, candidate)) + 10 * Cardinality(Shared(words, candidate))

\* The candidates that share a word, best first, the newer first of two equal ones.
Better(words, candidates, m, n) ==
    \/ Worth(words, candidates[m]) > Worth(words, candidates[n])
    \/ Worth(words, candidates[m]) = Worth(words, candidates[n]) /\ m > n

BestOf(size, words, candidates) ==
    {n \in DOMAIN candidates :
        /\ Distinct(words, candidates[n]) # {}
        /\ Cardinality({m \in DOMAIN candidates :
                            Better(words, candidates, m, n)}) < size}

\* Whatever the order in which the candidates are read, the heap at its limit ends
\* up with the best ones; that is what lets Matching.tla speak of pairs that
\* were outranked, and of all the others as kept.
SearchKeepsTheBest ==
    \A size \in HeapSizes, words \in BoundedSeq(Vocabulary, MaxWords),
       candidates \in BoundedSeq(SUBSET Vocabulary, MaxPosts) :
           Search(size, words, candidates) = BestOf(size, words, candidates)

=============================================================================
