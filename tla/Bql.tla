-------------------------------- MODULE Bql --------------------------------
(***************************************************************************)
(* BQL: the lexer and the parser that turn the lines of a script into the  *)
(* sentences a client applies, and the answer of the route.  The parser    *)
(* reads tokens, the lexer makes them of characters; each is checked over  *)
(* inputs of its own.  A text is the sequence of its words, so that quoted *)
(* and bare texts are told apart by the token only; case is left out.      *)
(***************************************************************************)
EXTENDS Integers, Sequences, FiniteSets, SequencesExt

CONSTANT MaxLine         \* bound on the characters of a line

ASSUME LineAssumption == MaxLine \in Nat

VARIABLES bcase, bout
bqlVars == <<bcase, bout>>

Unparsed == [status |-> 0]

W(w) == [type |-> "Word", text |-> <<w>>]
S(words) == [type |-> "String", text |-> words]
P(mark) == [type |-> "Punct", text |-> <<mark>>]
Joined(tokens) == FlattenSeq([i \in DOMAIN tokens |-> tokens[i].text])

(***************************************************************************)
(* The cursor.  A step returns the position it stops at and what it read.  *)
(***************************************************************************)
Fail == [ok |-> FALSE]
Read(v, at) == [ok |-> TRUE, v |-> v, at |-> at]
Then(step, next(_)) == IF step.ok THEN next(step) ELSE Fail
NonEmpty(step) == IF step.v = <<>> THEN Fail ELSE step

isWord(ts, i, w) == i <= Len(ts) /\ ts[i] = W(w)
isComma(ts, i) == i <= Len(ts) /\ ts[i] = P(",")
IsBare(ts, i) == i <= Len(ts) /\ ts[i].type = "Word"
IsQuoted(ts, i) == i <= Len(ts) /\ ts[i].type = "String"
skipArticle(ts, i) == IF isWord(ts, i, "a") \/ isWord(ts, i, "an") THEN i + 1 ELSE i

consumeWordsUntil(ts, i, stopWords) ==
    LET end == CHOOSE j \in i..(Len(ts) + 1) :
                 /\ \A k \in i..(j - 1) : IsBare(ts, k) /\ ts[k].text[1] \notin stopWords
                 /\ ~IsBare(ts, j) \/ ts[j].text[1] \in stopWords
    IN IF i > Len(ts) THEN Read(<<>>, i) ELSE Read(Joined(SubSeq(ts, i, end - 1)), end)

consumeSeparator(ts, i) ==
    LET j == IF isComma(ts, i) THEN i + 1 ELSE i IN IF isWord(ts, j, "and") THEN j + 1 ELSE j

(* Wrong: a bare value runs on to the next mark.                           *)
parseValueToMark(ts, i) ==
    IF IsQuoted(ts, i) THEN Read(ts[i].text, i + 1) ELSE NonEmpty(consumeWordsUntil(ts, i, {}))

parseValue(ts, i) ==
    IF IsQuoted(ts, i) THEN Read(ts[i].text, i + 1) ELSE NonEmpty(consumeWordsUntil(ts, i, {"and"}))

parseAttrItem(ts, i) ==
    Then(NonEmpty(consumeWordsUntil(ts, skipArticle(ts, i), {"of"})), LAMBDA key :
        IF ~isWord(ts, key.at, "of") THEN Fail
        ELSE Then(parseValue(ts, key.at + 1), LAMBDA value : Read([key |-> key.v, value |-> value.v], value.at)))

parseAttrList(ts, i) ==
    LET from[j \in 1..(Len(ts) + 3)] ==
          Then(parseAttrItem(ts, j), LAMBDA item :
              LET more == consumeSeparator(ts, item.at) IN
              IF more = item.at THEN Read(<<item.v>>, item.at)
              ELSE Then(from[more], LAMBDA rest : Read(<<item.v>> \o rest.v, rest.at)))
    IN from[i]

(* [with attributes]: none is an empty list.                               *)
WithAttrs(ts, i) == IF isWord(ts, i, "with") THEN parseAttrList(ts, i + 1) ELSE Read(<<>>, i)

parseAddClause(ts, i) ==
    Then(NonEmpty(consumeWordsUntil(ts, skipArticle(ts, i), {"called", "that", "with"})), LAMBDA name :
        LET called == isWord(ts, name.at, "called")
            says == IF called THEN name.at + 2 ELSE name.at
            that == isWord(ts, says, "that")
        IN IF \/ called /\ ~IsBare(ts, name.at + 1)
              \/ that /\ (~isWord(ts, says + 1, "says") \/ ~IsQuoted(ts, says + 2))
           THEN Fail
           ELSE Then(WithAttrs(ts, IF that THEN says + 3 ELSE says), LAMBDA attrs :
                    Read([blockName |-> name.v, alias |-> IF called THEN ts[name.at + 1].text ELSE <<>>,
                          text |-> IF that THEN <<ts[says + 2].text>> ELSE <<>>, attrs |-> attrs.v], attrs.at)))

parseNameList(ts, i) ==
    LET from[j \in 1..(Len(ts) + 3)] ==
          LET more == consumeSeparator(ts, j + 1) IN
          IF ~IsQuoted(ts, j) THEN Read(<<>>, j)
          ELSE IF more = j + 1 THEN Read(<<ts[j].text>>, more)
          ELSE Read(<<ts[j].text>> \o from[more].v, from[more].at)
    IN from[i]

(***************************************************************************)
(* Sentences.  Optional parts are sequences of at most one.                *)
(***************************************************************************)
BqlSentence ==
    [kind |-> "add", blockName |-> <<>>, text |-> <<>>, alias |-> <<>>, parentAlias |-> <<>>, attrs |-> <<>>,
     name |-> <<>>, names |-> <<>>, path |-> <<>>, stepName |-> <<>>, event |-> "", form |-> <<>>]

addResult(added, parentAlias) ==
    Then(added, LAMBDA clause :
        Read([BqlSentence EXCEPT !.blockName = clause.v.blockName, !.alias = clause.v.alias,
                                 !.text = clause.v.text, !.attrs = clause.v.attrs, !.parentAlias = parentAlias],
             clause.at))

parseAdd(ts) == addResult(parseAddClause(ts, 2), <<>>)

parseInsideAdd(ts) ==
    LET i == IF isComma(ts, 3) THEN 4 ELSE 3 IN
    IF ~IsBare(ts, 2) \/ ~isWord(ts, i, "add") THEN Fail
    ELSE addResult(parseAddClause(ts, i + 1), ts[2].text)

parseGive(ts) ==
    IF ~IsBare(ts, 2) THEN Fail
    ELSE Then(parseAttrList(ts, 3), LAMBDA attrs :
             Read([BqlSentence EXCEPT !.kind = "give", !.alias = ts[2].text, !.attrs = attrs.v], attrs.at))

parseStyle(ts) ==
    LET i == skipArticle(ts, 2) IN
    IF ~isWord(ts, i, "style") \/ ~isWord(ts, i + 1, "called") \/ ~IsQuoted(ts, i + 2) THEN Fail
    ELSE Then(WithAttrs(ts, i + 3), LAMBDA attrs :
             Read([BqlSentence EXCEPT !.kind = "style", !.name = ts[i + 2].text, !.attrs = attrs.v], attrs.at))

parseApply(ts) ==
    Then(NonEmpty(parseNameList(ts, 2)), LAMBDA names :
        IF ~isWord(ts, names.at, "to") \/ ~IsBare(ts, names.at + 1) THEN Fail
        ELSE Read([BqlSentence EXCEPT !.kind = "class", !.names = names.v, !.alias = ts[names.at + 1].text],
                  names.at + 2))

parsePublish(ts) ==
    LET i == IF isWord(ts, 2, "this") THEN 3 ELSE 2
        as == isWord(ts, i, "as")
        at == IF as THEN i + 2 ELSE i
    IN IF isWord(ts, 2, "the")
       THEN IF isWord(ts, 3, "workflow") THEN Read([BqlSentence EXCEPT !.kind = "publishWorkflow"], 4) ELSE Fail
       ELSE IF \/ as /\ ~IsQuoted(ts, i + 1)
               \/ ~isWord(ts, at, "at") \/ ~(IsBare(ts, at + 1) \/ IsQuoted(ts, at + 1))
       THEN Fail
       ELSE Read([BqlSentence EXCEPT !.kind = "publish", !.name = IF as THEN ts[i + 1].text ELSE <<>>,
                                     !.path = ts[at + 1].text], at + 2)

parseWorkflowStart(ts, i) ==
    IF ~isWord(ts, i + 1, "called") \/ ~IsQuoted(ts, i + 2) THEN Fail
    ELSE Read([BqlSentence EXCEPT !.kind = "workflow", !.name = ts[i + 2].text], i + 3)

parseClear(ts) ==
    LET i == skipArticle(ts, 2) IN
    IF ~isWord(ts, i, "new") THEN Fail
    ELSE IF isWord(ts, i + 1, "workflow") THEN parseWorkflowStart(ts, i + 1)
    ELSE IF isWord(ts, i + 1, "page") THEN Read([BqlSentence EXCEPT !.kind = "clear"], i + 2) ELSE Fail

parseRunWhen(ts) ==
    LET i == (IF isWord(ts, 2, "it") THEN 3 ELSE 2) + 1
        phrase == consumeWordsUntil(ts, i, {})
        trigger(event, form, at) == Read([BqlSentence EXCEPT !.kind = "trigger", !.event = event, !.form = form], at)
    IN IF ~isWord(ts, i - 1, "when") THEN Fail
       ELSE IF isWord(ts, i, "someone") /\ isWord(ts, i + 1, "submits") /\ isWord(ts, i + 2, "the")
       THEN IF IsQuoted(ts, i + 3) /\ isWord(ts, i + 4, "form")
            THEN trigger("FormSubmission.created", ts[i + 3].text, i + 5) ELSE Fail
       ELSE IF phrase.v \in {<<"someone", "submits", "a", "form">>, <<"a", "form", "is", "submitted">>}
       THEN trigger("FormSubmission.created", <<>>, phrase.at)
       ELSE IF phrase.v \in {<<"someone", "joins">>, <<"someone", "signs", "up">>}
       THEN trigger("User.created", <<>>, phrase.at) ELSE Fail

(* A step keeps the name and the attributes of the clause only.            *)
parseThen(ts) ==
    Then(parseAddClause(ts, 2), LAMBDA clause :
        Read([BqlSentence EXCEPT !.kind = "step", !.stepName = clause.v.blockName, !.attrs = clause.v.attrs], clause.at))

stripTerminator(ts) == IF ts # <<>> /\ Last(ts) = P(".") THEN Front(ts) ELSE ts

ByFirstWord(ts) ==
    CASE isWord(ts, 1, "start") -> parseClear(ts)
      [] isWord(ts, 1, "publish") -> parsePublish(ts)
      [] isWord(ts, 1, "apply") -> parseApply(ts)
      [] isWord(ts, 1, "make") -> parseStyle(ts)
      [] isWord(ts, 1, "give") -> parseGive(ts)
      [] isWord(ts, 1, "inside") -> parseInsideAdd(ts)
      [] isWord(ts, 1, "add") -> parseAdd(ts)
      [] isWord(ts, 1, "run") -> parseRunWhen(ts)
      [] isWord(ts, 1, "then") -> parseThen(ts)
      [] OTHER -> Fail

(* Anything left over fails the line.                                      *)
Whole(ts, result) == IF result.ok /\ result.at <= Len(ts) THEN Fail ELSE result
ParseTokens(ts) == Whole(ts, ByFirstWord(ts))
parseSentence(line) == ParseTokens(stripTerminator(line))

(* The sentence a client is sent: the fields of its kind.                  *)
toJson(s) ==
    LET fields ==
          CASE s.kind = "add" -> {"blockName", "attrs", "text", "alias", "parentAlias"}
            [] s.kind = "give" -> {"alias", "attrs"}
            [] s.kind = "style" -> {"name", "attrs"}
            [] s.kind = "class" -> {"names", "alias"}
            [] s.kind = "workflow" -> {"name"}
            [] s.kind = "trigger" -> {"event", "form"}
            [] s.kind = "step" -> {"stepName", "attrs"}
            [] s.kind = "publish" -> {"path", "name"}
            [] OTHER -> {}
    IN [f \in fields \cup {"kind"} |-> s[f]]

(***************************************************************************)
(* Scripts.  A line that is blank or a comment is NoLine.                  *)
(***************************************************************************)
NoLine == <<>>
Script(lines, parsed) ==
    LET read == SelectSeq([i \in DOMAIN lines |-> i], LAMBDA i : lines[i] # NoLine)
        bad == SelectSeq(read, LAMBDA i : ~parsed[i].ok)
    IN [ok |-> bad = <<>>, errors |-> bad,
        sentences |-> IF bad # <<>> THEN <<>>
                      ELSE [j \in DOMAIN read |-> [line |-> read[j], said |-> toJson(parsed[read[j]].v)]]]

parseScript(lines) == Script(lines, [i \in DOMAIN lines |-> parseSentence(lines[i])])

(* BqlRouteHandler::handle, for a body with a script that is not too long. *)
ScriptAnswer(result) == [status |-> IF result.ok THEN 200 ELSE 422, result |-> result]
handleScript(lines) == ScriptAnswer(parseScript(lines))

(***************************************************************************)
(* The lexer: "w" is a character of a word, "-" any other that has no      *)
(* meaning of its own.                                                     *)
(***************************************************************************)
Chars == {"w", "-", " ", "\"", ",", "."}
isWordChar(line, i) == i <= Len(line) /\ line[i] = "w"
FullStop(line, i) == line[i] = "." /\ ~isWordChar(line, i + 1)
First(line, i, Ends(_)) ==
    CHOOSE j \in i..(Len(line) + 1) : (j = Len(line) + 1 \/ Ends(j)) /\ \A k \in i..(j - 1) : ~Ends(k)

tokenize(line) ==
    LET from[i \in 1..(Len(line) + 2)] ==
          LET close == First(line, i + 1, LAMBDA j : line[j] = "\"")
              end == First(line, i, LAMBDA j : line[j] \in {" ", "\"", ","} \/ FullStop(line, j))
          IN IF i > Len(line) THEN <<>>
             ELSE IF line[i] = " " THEN from[i + 1]
             ELSE IF line[i] = "\"" THEN <<S(SubSeq(line, i + 1, close - 1))>> \o from[close + 1]
             ELSE IF line[i] = "," \/ FullStop(line, i) THEN <<P(line[i])>> \o from[i + 1]
             ELSE <<[type |-> "Word", text |-> SubSeq(line, i, end - 1)]>> \o from[end]
    IN from[1]

(***************************************************************************)
(* Inputs: every kind of sentence as a writer would spell it, with bare    *)
(* and with quoted values, each of them with one token dropped, inserted   *)
(* or changed; short scripts of such lines; and every short line.          *)
(***************************************************************************)
Attrs ==
    LET attr(key, value) == [key |-> key, value |-> value] IN
    {<<>>, <<attr(<<"size">>, <<"10">>)>>, <<attr(<<"font", "size">>, <<"dark", "red">>), attr(<<"ink">>, <<"x">>)>>,
     <<attr(<<"and">>, <<"x">>), attr(<<"size">>, <<"10">>)>>}
AddSentences ==
    [kind : {"add"}, blockName : {<<"box">>, <<"bed", "and", "box">>}, text : {<<>>, <<<<"hi", "and">>>>},
     alias : {<<>>, <<"x">>}, parentAlias : {<<>>, <<"y">>}, attrs : Attrs]
OtherSentences ==
    [kind : {"give"}, alias : {<<"x">>}, attrs : Attrs \ {<<>>}]
    \cup [kind : {"style"}, name : {<<"big">>}, attrs : Attrs]
    \cup [kind : {"class"}, names : {<<<<"big">>>>, <<<<"big">>, <<"red">>>>}, alias : {<<"x">>}]
    \cup [kind : {"workflow"}, name : {<<"log", "it">>}]
    \cup [kind : {"trigger"}, event : {"FormSubmission.created"}, form : {<<>>, <<"book">>}]
    \cup [kind : {"trigger"}, event : {"User.created"}, form : {<<>>}]
    \cup [kind : {"step"}, stepName : {<<"write", "a", "note">>}, attrs : Attrs]
    \cup [kind : {"publish"}, path : {<<"/about">>}, name : {<<>>, <<"about">>}]
    \cup [kind : {"clear", "publishWorkflow"}]

Words(words) == [i \in DOMAIN words |-> W(words[i])]
SpellAttr(a, bare) == Words(a.key) \o <<W("of")>> \o (IF bare THEN Words(a.value) ELSE <<S(a.value)>>)
SpellAttrs(attrs, bare) ==
    FlattenSeq([i \in DOMAIN attrs |-> (IF i = 1 THEN <<>> ELSE <<W("and")>>) \o SpellAttr(attrs[i], bare)])
With(attrs, bare) == IF attrs = <<>> THEN <<>> ELSE <<W("with")>> \o SpellAttrs(attrs, bare)

Spell(s, bare) ==
    CASE s.kind = "add" ->
           (IF s.parentAlias = <<>> THEN <<>> ELSE <<W("inside")>> \o Words(s.parentAlias))
           \o <<W("add"), W("a")>> \o Words(s.blockName)
           \o (IF s.alias = <<>> THEN <<>> ELSE <<W("called")>> \o Words(s.alias))
           \o (IF s.text = <<>> THEN <<>> ELSE <<W("that"), W("says"), S(s.text[1])>>)
           \o With(s.attrs, bare)
      [] s.kind = "give" -> <<W("give")>> \o Words(s.alias) \o SpellAttrs(s.attrs, bare)
      [] s.kind = "style" -> Words(<<"make", "a", "style", "called">>) \o <<S(s.name)>> \o With(s.attrs, bare)
      [] s.kind = "class" ->
           <<W("apply")>> \o FlattenSeq([i \in DOMAIN s.names |-> (IF i = 1 THEN <<>> ELSE <<P(",")>>) \o <<S(s.names[i])>>])
           \o <<W("to")>> \o Words(s.alias)
      [] s.kind = "workflow" -> Words(<<"start", "a", "new", "workflow", "called">>) \o <<S(s.name)>>
      [] s.kind = "trigger" ->
           Words(<<"run", "it", "when", "someone">>)
           \o (IF s.event = "User.created" THEN <<W("joins")>>
               ELSE IF s.form = <<>> THEN Words(<<"submits", "a", "form">>)
               ELSE <<W("submits"), W("the"), S(s.form), W("form")>>)
      [] s.kind = "step" -> <<W("then")>> \o Words(s.stepName) \o With(s.attrs, bare)
      [] s.kind = "publish" ->
           <<W("publish"), W("this")>> \o (IF s.name = <<>> THEN <<>> ELSE <<W("as"), S(s.name)>>)
           \o <<W("at")>> \o Words(s.path)
      [] s.kind = "clear" -> Words(<<"start", "a", "new", "page">>)
      [] OTHER -> Words(<<"publish", "the", "workflow">>)

Slips == {W(w) : w \in {"a", "add", "called", "that", "says", "with", "of", "and", "at", "as", "the", "to", "x"}}
         \cup {S(<<"hi">>), P(","), P(".")}
Slipped(ts) ==
    {RemoveAt(ts, i) : i \in 1..Len(ts)} \cup {InsertAt(ts, i, t) : i \in 1..(Len(ts) + 1), t \in Slips}
    \cup {ReplaceAt(ts, i, t) : i \in 1..Len(ts), t \in Slips}

Lines == {Spell(s, FALSE) : s \in AddSentences \cup OtherSentences}
ScriptLines == {NoLine, Words(<<"start", "a", "new", "page">>), Words(<<"add", "box">>), Words(<<"add">>)}

(* A correctly spelled line, one with a slip, a script, a line of          *)
(* characters.                                                             *)
InitBql ==
    /\ bout = Unparsed
    /\ \/ \E s \in AddSentences \cup OtherSentences, bare, dot \in BOOLEAN :
            bcase = [kind |-> "said", of |-> s, line |-> Spell(s, bare) \o (IF dot THEN <<P(".")>> ELSE <<>>)]
       \/ \E l \in Lines : bcase \in [kind : {"slip"}, line : Slipped(l)]
       \/ bcase \in [kind : {"script"}, lines : SeqOf(ScriptLines, 4)]
       \/ bcase \in [kind : {"chars"}, line : SeqOf(Chars, MaxLine)]

Parsed(r) == [status |-> 1, ok |-> r.ok, said |-> IF r.ok THEN toJson(r.v) ELSE BqlSentence]
Parse ==
    /\ bcase.kind \in {"said", "slip"}
    /\ bout' = Parsed(parseSentence(bcase.line))
ParseScript == bcase.kind = "script" /\ bout' = handleScript(bcase.lines)
Tokenize == bcase.kind = "chars" /\ bout' = [status |-> 1, tokens |-> tokenize(bcase.line)]

NextBql == bout = Unparsed /\ (Parse \/ ParseScript \/ Tokenize) /\ UNCHANGED bcase
SpecBql == InitBql /\ [][NextBql]_bqlVars

-----------------------------------------------------------------------------
(* What a writer says is what the client is told, with bare or quoted      *)
(* values, with or without a full stop, and with keywords in the places    *)
(* where they are content (a name with an "and", a text that ends in one). *)
SaidIsUnderstood ==
    bcase.kind = "said" /\ bout # Unparsed => bout.ok /\ bout.said = bcase.of

Fillers == {"a", "an", "this", "it", "and", ",", "."}
Bare(ts) == SelectSeq(Joined(ts), LAMBDA w : w \notin Fillers)

(* Nothing of an accepted line is ignored (bql_parser.cpp:502-506): the    *)
(* sentence spells the same words, fillers and separators apart.  A step   *)
(* drops a "called" and a "that says" it is given, and the phrases that    *)
(* set a workflow going have synonyms.                                     *)
AcceptedWhole ==
    bcase.kind = "slip" /\ bout # Unparsed /\ bout.ok =>
        \/ Bare(Spell(bout.said, FALSE)) = Bare(bcase.line)
        \/ bout.said.kind = "step" /\ \E w \in {"called", "that"} : W(w) \in ToSet(bcase.line)
        \/ bout.said.kind = "trigger" /\ bout.said.form = <<>>

(* A script is taken whole or not at all (bql_parser.hpp:83-86): every bad *)
(* line is named and none of the others is returned, or each sentence has  *)
(* the number of its line.                                                 *)
ScriptIsWhole ==
    bcase.kind = "script" /\ bout # Unparsed =>
        LET bad == {i \in DOMAIN bcase.lines : bcase.lines[i] = Words(<<"add">>)}
            said == bout.result.sentences
        IN /\ ToSet(bout.result.errors) = bad
           /\ bout.status = IF bad = {} THEN 200 ELSE 422
           /\ bad # {} => said = <<>>
           /\ bad = {} => {said[j].line : j \in DOMAIN said} = {i \in DOMAIN bcase.lines : bcase.lines[i] # NoLine}

Kept(line) ==
    LET inside(i) == Cardinality({j \in 1..(i - 1) : line[j] = "\""}) % 2 = 1 IN
    SelectSeq([i \in DOMAIN line |-> IF line[i] = "\"" \/ (line[i] = " " /\ ~inside(i)) THEN "" ELSE line[i]],
              LAMBDA ch : ch # "")

(* The lexer loses no text: the tokens hold every character but spaces     *)
(* between tokens and quotes, in order.                                    *)
TextIsKept ==
    bcase.kind = "chars" /\ bout # Unparsed => Joined(bout.tokens) = Kept(bcase.line)

(* A correctly spelled BQL sentence is read as it was meant, nothing of an *)
(* accepted line is ignored, a script with one bad line hands out none,    *)
(* and the lexer loses no text. AcceptedWhole names the exceptions.        *)
ScriptsAreUnderstood ==
    /\ SaidIsUnderstood
    /\ AcceptedWhole
    /\ ScriptIsWhole
    /\ TextIsKept
=============================================================================
