---------------------------- MODULE Suggestions -----------------------------
(***************************************************************************)
(* The worker of Matching.tla with the search of Matcher.tla in it: what   *)
(* ReadCandidates leaves open is what get_potential_matches computes from  *)
(* the same rows.                                                          *)
(***************************************************************************)
EXTENDS Matching, Matcher

\* The posts in the database are finitely many.
ASSUME SuggestionsAssumption == IsFiniteSet(LostItems) /\ IsFiniteSet(FoundItems)

\* The rows of the search's query.
OpenOthers == {i \in OtherType(Job) : status[i] = "open"}

\* What the search computes from these words of the post and this order of the rows.
Suggested(words, order) ==
    {Pair(Job, order[n]) :
        n \in Search(MaxSuggestions, words, [n \in DOMAIN order |-> text[order[n]]])}

\* What ItemMatcher keeps is one of the choices that ReadCandidates has, in whatever
\* order the database returns the posts and however often the description says a
\* word (matcher.py:110); and of all those choices it is the best one.
WorkerKeepsTheBest ==
    worker.at = "readCandidates" =>
        /\ SearchKeepsTheBest
        /\ \A order \in SetToSeqs(OpenOthers),
              words \in BoundedSeq(worker.text, MaxWords) :
                 {words[k] : k \in DOMAIN words} = worker.text =>
                     Suggested(words, order) \in Best({Pair(Job, i) : i \in Candidates})

=============================================================================
