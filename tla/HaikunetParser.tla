--------------------------- MODULE HaikunetParser ---------------------------
(***************************************************************************)
(* The parser of Haikunet programs (lib/parser.rb): recursive descent with *)
(* one token of lookahead, which resolves references to identifiers while  *)
(* it parses.  Its call stack is the sequence of terminals to match,       *)
(* procedures to call and context operations still to do.                  *)
(*                                                                         *)
(* The program is arbitrary and becomes known token by token.  Of the      *)
(* lexer (lib/lexer.rb) the model keeps what the parser depends on: every  *)
(* line ends with END_OF_LINE, a STRING follows a DOUBLE_QUOTE and an      *)
(* IDENTIFIER does not.  ELEMENT stands for HOST, LINK, DEVICE and FLOW,   *)
(* whose productions are the same.  Characters and messages are left out.  *)
(***************************************************************************)
EXTENDS HaikunetLanguage

CONSTANTS Name,        \* names of identifiers
          MaxTokens,   \* bound on the tokens of a program, its last end of line left out
          MaxLines     \* bound on its lines

(* No name: the value of a token without one, a local variable not assigned *)
(* yet, and the role of an identifier that no procedure asks for.          *)
NoName == ""

Keyword == Marks \cup Elements \cup {"STRING", "INTENT", "SELECT", "END_OF_LINE"}

Word(keyword)    == [keyword |-> keyword, value |-> NoName]
Identifier(name) == [keyword |-> "IDENTIFIER", value |-> name]
Token  == {Word(k) : k \in Keyword} \cup {Identifier(n) : n \in Name}
Nil    == [keyword |-> "nil", value |-> NoName]
Unread == [keyword |-> "unread", value |-> NoName]

VARIABLES
    tokens,        \* the tokens of the program that the parser has looked at
    lookahead,     \* the token at @index_actual_token
    stack,         \* what remains to be done in the current initial_symbol
    held,          \* names in local variables: "def", "select" and "ref"
    identifiers,   \* @identifiers, by name
    references,    \* history: the names resolved and the tokens matched by then
    status         \* "parsing", "accepted", or the class of the exception

parserVars == <<tokens, lookahead, stack, held, identifiers, references, status>>

ParserInit ==
    /\ tokens = <<>>
    /\ lookahead = Unread
    /\ stack = <<>>
    /\ held = [role \in {"def", "select", "ref"} |-> NoName]
    /\ identifiers = <<>>
    /\ references = {}
    /\ status = "parsing"

-----------------------------------------------------------------------------
LastKeyword == IF tokens = <<>> THEN "END_OF_LINE" ELSE Last(tokens).keyword

(* Lexer::get_next_token.                                                  *)
CanFollow(token) ==
    CASE token = Nil -> LastKeyword = "END_OF_LINE"
      [] token.keyword = "STRING" -> LastKeyword = "DOUBLE_QUOTE"
      [] token.keyword = "IDENTIFIER" -> LastKeyword # "DOUBLE_QUOTE"
      [] OTHER -> TRUE

(* The loop at the end of match skips the ends of lines behind the token   *)
(* it matched; nothing skips those in front of the first.                  *)
Skipped(token) == token.keyword = "END_OF_LINE" /\ \E i \in DOMAIN tokens : tokens[i].keyword # "END_OF_LINE"

Lines == Cardinality({i \in DOMAIN tokens : tokens[i].keyword = "END_OF_LINE"})

WithinBounds(token) ==
    token = Nil \/ (Lines < MaxLines /\ (token.keyword = "END_OF_LINE" \/ Len(tokens) < MaxTokens))

(* The next token of the program becomes known.                            *)
Read(token) ==
    /\ status = "parsing"
    /\ lookahead = Unread
    /\ CanFollow(token)
    /\ WithinBounds(token)
    /\ tokens' = IF token = Nil THEN tokens ELSE Append(tokens, token)
    /\ lookahead' = IF Skipped(token) THEN Unread ELSE token
    /\ UNCHANGED <<stack, held, identifiers, references, status>>

Ready == status = "parsing" /\ lookahead # Unread

Fail(exception) ==
    /\ status' = exception
    /\ UNCHANGED <<tokens, lookahead, stack, held, identifiers, references>>

-----------------------------------------------------------------------------
(* Entries of the stack.                                                   *)
T(keyword)    == [do |-> "match", what |-> keyword, role |-> NoName]
Id(role)      == [do |-> "match", what |-> "IDENTIFIER", role |-> role]
Call(name)    == [do |-> "call", what |-> name, role |-> NoName]
Push          == [do |-> "push", what |-> "def", role |-> NoName]
Resolve(role) == [do |-> "resolve", what |-> role, role |-> NoName]

QuotedString == <<T("DOUBLE_QUOTE"), T("STRING"), T("DOUBLE_QUOTE")>>
Lambda == <<>>
Error  == <<T("error")>>

(* Parser#params: an empty list is allowed, also behind a comma.           *)
params(k) ==
    IF k = "IDENTIFIER" THEN <<Id(NoName), T("EQUAL_PARAMETERS"), Call("second_part_equal")>> ELSE Lambda

second_part_equal(k) ==
    CASE k = "DOUBLE_QUOTE" -> QuotedString \o <<Call("add_more_parameters")>>
      [] k = "IDENTIFIER"   -> <<Id("ref"), Resolve("ref"), Call("add_more_parameters")>>
      [] k = "LEFT_BRACE"   -> <<T(k), Call("elems_of_array"), T("RIGHT_BRACE"), Call("add_more_parameters")>>
      [] OTHER -> Error

add_more_parameters_NotMatched(k) == IF k = "COMMA" THEN <<Call("add_more_parameters")>> ELSE Lambda

add_more_parameters(k) == IF k = "COMMA" THEN <<T(k), Call("params")>> ELSE Lambda

elems_of_array(k) ==
    CASE k = "IDENTIFIER"   -> <<Id("ref"), Resolve("ref"), Call("add_more_elements_to_array")>>
      [] k = "DOUBLE_QUOTE" -> QuotedString \o <<Call("add_more_elements_to_array")>>
      [] OTHER -> Error

add_more_elements_to_array_Trailing(k) ==
    IF k = "COMMA" THEN <<T(k), Call("add_more_elements_to_array")>> ELSE Lambda

add_more_elements_to_array(k) == IF k = "COMMA" THEN <<T(k), Call("elems_of_array")>> ELSE Lambda

network_elem_definition(k) ==
    IF k \in Elements THEN <<T(k), T("LEFT_PARENTHESIS"), Call("params"), T("RIGHT_PARENTHESIS")>> ELSE Error

intent_production_with_condition(k) == IF k = "CONDITION" THEN <<T(k), Id(NoName)>> ELSE Lambda

intent_production_with_action(k) ==
    IF k = "ACTION" THEN <<T(k), Id(NoName), Call("intent_production_with_condition")>> ELSE Lambda

initial_symbol(k) ==
    CASE k = "IDENTIFIER" -> <<Id("def"), T("ASSIGN"), Push, Call("network_elem_definition")>>
      [] k = "INTENT" -> <<T(k), Id(NoName), T("SELECT"), Id("select"),
                           Call("intent_production_with_action"), Resolve("select")>>
      [] OTHER -> Error

Body(procedure, k) ==
    CASE procedure = "params" -> params(k)
      [] procedure = "second_part_equal" -> second_part_equal(k)
      [] procedure = "add_more_parameters" -> add_more_parameters(k)
      [] procedure = "elems_of_array" -> elems_of_array(k)
      [] procedure = "add_more_elements_to_array" -> add_more_elements_to_array(k)
      [] procedure = "network_elem_definition" -> network_elem_definition(k)
      [] procedure = "intent_production_with_condition" -> intent_production_with_condition(k)
      [] procedure = "intent_production_with_action" -> intent_production_with_action(k)
      [] procedure = "initial_symbol" -> initial_symbol(k)

(* What a procedure does on a lookahead; all return when there is none.    *)
Production(procedure, k) == IF k = "nil" THEN Lambda ELSE Body(procedure, k)

-----------------------------------------------------------------------------
Doing(what) == Ready /\ stack # <<>> /\ Head(stack).do = what

(* A procedure keeps the index of a token, whose value it asks for later.  *)
Remembered(role) == IF role = NoName THEN held ELSE [held EXCEPT ![role] = lookahead.value]

(* Parser#match.  Behind the last token it calls a method of nil.          *)
match ==
    /\ Doing("match")
    /\ IF lookahead = Nil THEN Fail("NoMethodError")
       ELSE IF lookahead.keyword # Head(stack).what THEN Fail("SyntacticalError")
       ELSE /\ lookahead' = Unread
            /\ stack' = Tail(stack)
            /\ held' = Remembered(Head(stack).role)
            /\ UNCHANGED <<tokens, identifiers, references, status>>

(* A procedure looks at the lookahead.                                     *)
call ==
    /\ Doing("call")
    /\ LET body == Production(Head(stack).what, lookahead.keyword)
       IN  IF body = Error THEN Fail("SyntacticalError")
           ELSE /\ stack' = body \o Tail(stack)
                /\ UNCHANGED <<tokens, lookahead, held, identifiers, references, status>>

(* The identifier joins @identifiers before its value is parsed.           *)
PushIdentifier ==
    /\ Doing("push")
    /\ identifiers' = Append(identifiers, held["def"])
    /\ stack' = Tail(stack)
    /\ UNCHANGED <<tokens, lookahead, held, references, status>>

Found_First(name) ==
    LET all == {i \in DOMAIN identifiers : identifiers[i] = name}
    IN  IF all = {} THEN {} ELSE {CHOOSE i \in all : \A j \in all : i <= j}

(* The selection in Parser#get_identifier, which must have one element.    *)
Found(name) == {i \in DOMAIN identifiers : identifiers[i] = name}

(* The tokens in front of the lookahead.                                   *)
Matched == IF lookahead = Nil THEN Len(tokens) ELSE Len(tokens) - 1

get_identifier ==
    /\ Doing("resolve")
    /\ LET found == Found(held[Head(stack).what])
       IN  IF Cardinality(found) # 1 THEN Fail("SemanticalError")
           ELSE /\ references' = references \cup {[at |-> Matched, name |-> held[Head(stack).what]]}
                /\ stack' = Tail(stack)
                /\ UNCHANGED <<tokens, lookahead, held, identifiers, status>>

(* The loop of Parser#parse.                                               *)
parse ==
    /\ Ready
    /\ stack = <<>>
    /\ IF lookahead = Nil
       THEN status' = "accepted" /\ UNCHANGED stack
       ELSE stack' = <<Call("initial_symbol")>> /\ UNCHANGED status
    /\ UNCHANGED <<tokens, lookahead, held, identifiers, references>>

Parser == match \/ call \/ PushIdentifier \/ get_identifier \/ parse

ParserNext == (\E token \in Token \cup {Nil} : Read(token)) \/ Parser

ParserSpec == ParserInit /\ [][ParserNext]_parserVars

(* The parser runs to its end.                                             *)
FairSpec == ParserSpec /\ WF_parserVars(ParserNext)

-----------------------------------------------------------------------------
(* The keywords of tokens, ends of lines left out.                         *)
Significant(s) ==
    FlattenSeq([i \in DOMAIN s |-> IF s[i].keyword = "END_OF_LINE" THEN <<>> ELSE <<s[i].keyword>>])

ParserTypeOK ==
    /\ tokens \in Seq(Token)
    /\ lookahead \in Token \cup {Nil, Unread}
    /\ held \in [{"def", "select", "ref"} -> Name \cup {NoName}]
    /\ identifiers \in Seq(Name)
    /\ references \subseteq [at : Nat, name : Name]
    /\ status \in {"parsing", "accepted", "SyntacticalError", "SemanticalError", "NoMethodError"}

(* Whatever the one token of lookahead, the empty productions and the      *)
(* skipped ends of lines let through is a program of the language, with    *)
(* one exception: network_elem_definition returns when there is no token,  *)
(* so a last definition without value is accepted.                         *)
AcceptsOnlyPrograms ==
    status = "accepted" =>
        \/ Significant(tokens) \in Program
        \/ Significant(tokens) \in Followed(Program, <<"IDENTIFIER", "ASSIGN">>)

(* A SyntacticalError is raised at a token with which no program could     *)
(* continue, with one exception: a program that starts with an empty line  *)
(* is rejected.                                                            *)
RejectsOnlyErrors ==
    status = "SyntacticalError" =>
        \/ tokens = <<Word("END_OF_LINE")>>
        \/ \A closing \in Closings : Significant(tokens) \o closing \notin Program

(* The program ends inside of a definition or an intent, and nowhere else, *)
(* when match finds no token: a complete program never raises that.        *)
CrashesOnlyTruncated == status = "NoMethodError" => Significant(tokens) \notin Program

(* Where the tokens define a name: an IDENTIFIER followed by ASSIGN, with  *)
(* nothing but ends of lines between them.                                 *)
Definitions(name, upto) ==
    {i \in 1 .. upto :
        /\ tokens[i] = Identifier(name)
        /\ \E j \in i + 1 .. upto : /\ tokens[j].keyword = "ASSIGN"
                                    /\ \A k \in i + 1 .. j - 1 : tokens[k].keyword = "END_OF_LINE"}

(* A reference that is accepted has one meaning: the tokens up to it       *)
(* define its name exactly once.  (The definition it stands in counts, so  *)
(* that a definition may refer to itself, although its value is not known  *)
(* by then.)                                                               *)
ReferencesUnique == \A r \in references : Cardinality(Definitions(r.name, r.at)) = 1

(* The parser comes to a decision about every program.                     *)
EventuallyDecided == <>(status # "parsing")

(* The parser's verdict is right about every program: what it accepts is   *)
(* one, what it rejects cannot become one, and it fails on nil only at a   *)
(* truncated one, with the exceptions that the three parts name.           *)
DecidesRightly == AcceptsOnlyPrograms /\ RejectsOnlyErrors /\ CrashesOnlyTruncated

(* The names the parser holds while later tokens are unknown are names of  *)
(* the program, and the references it accepts have one meaning.            *)
ReferencesInv == ParserTypeOK /\ ReferencesUnique
=============================================================================
