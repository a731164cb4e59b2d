------------------------------ MODULE MCPapers ------------------------------
(***************************************************************************)
(* The papers that MCAttempts marks: every item that can be made of texts   *)
(* up to two words, blank, punctuation alone, one word, that word with a    *)
(* stray full stop, two words; papers of three items; and papers of one to  *)
(* forty numbers.                                                           *)
(***************************************************************************)
EXTENDS Naturals, Sequences, TLC

\* The norms: nothing, one word, two words.
WordsIn == ("" :> 0) @@ ("a" :> 1) @@ ("a b" :> 2)

Texts ==
    {[norm |-> "", words |-> 0], [norm |-> "", words |-> 1], [norm |-> "a", words |-> 1],
     [norm |-> "a", words |-> 2], [norm |-> "a b", words |-> 2]}

Choice == [required |-> 1, rubric |-> FALSE, takesLimit |-> FALSE]
Letters == [required |-> 2, rubric |-> FALSE, takesLimit |-> FALSE]
Completion == [required |-> 1, rubric |-> FALSE, takesLimit |-> TRUE]
Essay == [required |-> 1, rubric |-> TRUE, takesLimit |-> FALSE]

UpTo(n) == UNION {[1 .. k -> Texts] : k \in 0 .. n}

Items(types, limits, responses) ==
    [type: types, limit: limits, span: {1, 2}, answers: UpTo(2), response: responses]

\* Each item on a paper of its own; papers of three items; a paper with nothing
\* right for every length up to forty numbers.
OneItem ==
    {<<i>> : i \in Items({Choice, Completion}, {0, 1}, UpTo(1))
                       \cup Items({Letters}, {0, 1}, UpTo(3))}

Right(n) == [type |-> Choice, limit |-> 0, span |-> n, answers |-> <<[norm |-> "a", words |-> 1]>>,
             response |-> <<[norm |-> "a", words |-> 2]>>]

Wrong(n) == [Right(n) EXCEPT !.response = <<>>]

ThreeItems == [1 .. 3 -> {Right(1), Right(2), Wrong(1), Wrong(2)}]

Lengths == {[i \in 1 .. n |-> Wrong(1)] : n \in 1 .. 40}

AllPapers ==
    [kind: {"reading"}, module: {"academic"}, items: OneItem]
        \cup [kind: {"reading"}, module: {"academic", "general"}, items: ThreeItems \cup Lengths]
        \cup [kind: {"listening"}, module: {"both"}, items: ThreeItems \cup Lengths]
        \cup [kind: {"writing"}, module: {"academic"},
              items: {<<[Right(1) EXCEPT !.type = Essay]>>}]

=============================================================================
