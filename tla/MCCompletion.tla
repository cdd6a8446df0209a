---------------------------- MODULE MCCompletion ----------------------------
(* Instances of Completion for model checking. *)
EXTENDS Completion

\* Below the minimum score, and two above it that are a consensus apart.
MCScores == {40, 55, 61}

MCVoices == {"branch", "rollout", "subtask", "baseline", "planner", "researcher"}
MCWorkers == <<"planner", "researcher">>

\* Nothing to parse, a repeated and a blank item, more items than the cap.
MCPlans == {<<>>, <<"a", "", "a", "b">>, <<"a", "b", "c", "d">>}

\* Every text of up to four bytes alone; three documents, one of them blank, of
\* which the first or the first two may be asked for; and two long ones.
Texts == UNION {[1..n -> {"x", ".", " "}] : n \in 0..4}
Long == [i \in 1..5 |-> "x"]
MCInputs == {<<>>} \cup {<<t>> : t \in Texts}
            \cup {<<<<"x", "x">>, <<" ">>, <<"x", " ", "x">>>>, <<<<"x">>, <<"x", ".">>, <<"x">>>>,
                  <<Long, Long>>}

=============================================================================
