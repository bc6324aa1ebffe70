-------------------------- MODULE HaikunetLanguage --------------------------
(***************************************************************************)
(* The language of Haikunet programs, without reference to how they are    *)
(* parsed: sets of sequences of keywords, from which the ends of lines are *)
(* left out.  ELEMENT stands for HOST, LINK, DEVICE and FLOW, whose        *)
(* productions in lib/parser.rb are the same.                              *)
(***************************************************************************)
EXTENDS Integers, SequencesExt

Marks    == {"ASSIGN", "EQUAL_PARAMETERS", "LEFT_PARENTHESIS", "RIGHT_PARENTHESIS",
             "DOUBLE_QUOTE", "LEFT_BRACE", "RIGHT_BRACE", "COMMA"}
Elements == {"ELEMENT", "ACTION", "CONDITION"}
Symbol   == Marks \cup Elements \cup {"STRING", "INTENT", "SELECT", "IDENTIFIER"}

Before(s, i) == SubSeq(s, 1, i)
After(s, i)  == SubSeq(s, i + 1, Len(s))

(* The word w in front of a member of A, and a member of A in front of w.  *)
Led(w, A) ==
    {s \in Seq(Symbol) : Len(w) <= Len(s) /\ Before(s, Len(w)) = w /\ After(s, Len(w)) \in A}

Followed(A, w) ==
    {s \in Seq(Symbol) :
        LET rest == Len(s) - Len(w) IN rest >= 0 /\ After(s, rest) = w /\ Before(s, rest) \in A}

(* Any number of items, which are not empty, and then a member of last.    *)
Repeated(item, last) ==
    LET repeated[s \in Seq(Symbol)] ==
            s \in last \/ \E i \in DOMAIN s : Before(s, i) \in item /\ repeated[After(s, i)]
    IN  {s \in Seq(Symbol) : repeated[s]}

Quoted == {<<"DOUBLE_QUOTE", "STRING", "DOUBLE_QUOTE">>}
Elem   == {<<"IDENTIFIER">>} \cup Quoted
Elems  == Repeated(Followed(Elem, <<"COMMA">>), Elem)
Array  == Led(<<"LEFT_BRACE">>, Followed(Elems, <<"RIGHT_BRACE">>))
Param  == Led(<<"IDENTIFIER", "EQUAL_PARAMETERS">>, Elem \cup Array)

(* The last parameter may have a comma behind it.                          *)
Params == Repeated(Followed(Param, <<"COMMA">>), Param \cup {<<>>})

Value  == Led(<<"LEFT_PARENTHESIS">>, Followed(Params, <<"RIGHT_PARENTHESIS">>))

Definition ==
    Led(<<"IDENTIFIER", "ASSIGN">>, Led(<<"ELEMENT">>, Value) \cup Led(<<"ACTION">>, Value) \cup Led(<<"CONDITION">>, Value))

Intent ==
    LET plain  == <<"INTENT", "IDENTIFIER", "SELECT", "IDENTIFIER">>
        action == plain \o <<"ACTION", "IDENTIFIER">>
    IN  {plain, action, action \o <<"CONDITION", "IDENTIFIER">>}

Program == Repeated(Definition \cup Intent, {<<>>})

(* Continuations, one of which completes any beginning of a program.       *)
Closings ==
    LET array == <<"RIGHT_BRACE", "RIGHT_PARENTHESIS">>
        definition == <<"ASSIGN", "ELEMENT", "LEFT_PARENTHESIS", "RIGHT_PARENTHESIS">>
        param == <<"EQUAL_PARAMETERS", "DOUBLE_QUOTE", "STRING", "DOUBLE_QUOTE", "RIGHT_PARENTHESIS">>
        intent == <<"IDENTIFIER", "SELECT", "IDENTIFIER">>
        tails(s) == {SubSeq(s, i, Len(s)) : i \in 1 .. Len(s) + 1}
    IN  UNION {tails(s) : s \in {definition, param, intent, <<"STRING", "DOUBLE_QUOTE">> \o array,
                                 <<"IDENTIFIER">> \o array}}
=============================================================================
