------------------------------- MODULE JsonScan -------------------------------
(***************************************************************************)
(* The scan SessionTokenVerifier makes over a token's header and payload   *)
(* before QJsonDocument parses them: no object at any depth may name a     *)
(* member twice.  QJsonDocument keeps one of two members of a name, so     *)
(* what was signed and what is read could otherwise differ.                *)
(*                                                                         *)
(* Texts are made by rendering JSON values, so that what a text means is   *)
(* known without the scanner; a value is a record with its kind and its    *)
(* parts.  Characters: "{ } [ ] : , q" (the quotation mark), "s" (white    *)
(* space), "e" (the escape character), "c" (a control character), letters  *)
(* and "n" (any run of a number or literal).                               *)
(***************************************************************************)
EXTENDS Naturals, Sequences

CONSTANTS
    MaxDepth,       \* 64 in the code
    Nesting         \* how deep the rendered values are nested

VARIABLES
    value,          \* the value that was rendered
    text,           \* its text, or what is left of it
    damage

vars == <<value, text, damage>>

Reject == 0
At(s, p) == IF p <= Len(s) THEN s[p] ELSE "end"

-----------------------------------------------------------------------------
(* The scanner.  Each operator returns the position after what it read, or *)
(* Reject.                                                                 *)

RECURSIVE skipWhitespace(_, _)
skipWhitespace(s, p) == IF At(s, p) = "s" THEN skipWhitespace(s, p + 1) ELSE p

\* The position after the closing quotation mark of a string whose text starts
\* at p.
RECURSIVE StringEnd(_, _)
StringEnd(s, p) ==
    CASE At(s, p) = "q" -> p + 1
      [] At(s, p) = "e" -> IF At(s, p + 1) = "end" THEN Reject ELSE StringEnd(s, p + 2)
      [] At(s, p) \in {"end", "c"} -> Reject
      [] OTHER -> StringEnd(s, p + 1)

consumeString(s, p) == IF At(s, p) = "q" THEN StringEnd(s, p + 1) ELSE Reject

\* Mutant: names are compared as they are written.
Written(s, from, to) == SubSeq(s, from, to)

\* The name a string denotes: QJsonDocument resolves its escapes, and "e"
\* before a letter is that letter written as a code point.
Decoded(s, from, to) ==
    SelectSeq(SubSeq(s, from + 1, to - 2), LAMBDA c : c # "e")

RECURSIVE scanJsonValue(_, _, _), Members(_, _, _, _), Elements(_, _, _)
\* The loop over the members of an object, from the quotation mark of a name.
Members(s, p, depth, seen) ==
    LET end == consumeString(s, p)
        name == Decoded(s, p, end)
        colon == skipWhitespace(s, end)
        after == scanJsonValue(s, colon + 1, depth + 1)
        next == skipWhitespace(s, after)
    IN  IF end = Reject THEN Reject
        ELSE IF name \in seen \/ At(s, colon) # ":" THEN Reject
        ELSE IF after = Reject THEN Reject
        ELSE CASE At(s, next) = "}" -> next + 1
               [] At(s, next) = "," ->
                     Members(s, skipWhitespace(s, next + 1), depth, seen \cup {name})
               [] OTHER -> Reject

Elements(s, p, depth) ==
    LET after == scanJsonValue(s, p, depth + 1)
        next == skipWhitespace(s, after)
    IN  IF after = Reject THEN Reject
        ELSE CASE At(s, next) = "]" -> next + 1
               [] At(s, next) = "," -> Elements(s, skipWhitespace(s, next + 1), depth)
               [] OTHER -> Reject

\* A number or literal: whatever stands before the next delimiter.
RECURSIVE ScalarEnd(_, _)
ScalarEnd(s, p) ==
    IF At(s, p) \in {",", "}", "]", "s", "end"} THEN p ELSE ScalarEnd(s, p + 1)

scanJsonValue(s, start, depth) ==
    LET p == skipWhitespace(s, start)
        inner == skipWhitespace(s, p + 1)
    IN  IF depth > MaxDepth THEN Reject
        ELSE CASE At(s, p) = "end" -> Reject
               [] At(s, p) = "{" -> IF At(s, inner) = "}" THEN inner + 1
                                    ELSE Members(s, inner, depth, {})
               [] At(s, p) = "[" -> IF At(s, inner) = "]" THEN inner + 1
                                    ELSE Elements(s, inner, depth)
               [] At(s, p) = "q" -> consumeString(s, p)
               [] OTHER -> IF ScalarEnd(s, p) > p THEN ScalarEnd(s, p) ELSE Reject

hasUniqueJsonMembers(s) ==
    LET end == scanJsonValue(s, 1, 0)
    IN  end # Reject /\ skipWhitespace(s, end) = Len(s) + 1

-----------------------------------------------------------------------------
(* The values, their text and what the scan is for.                        *)

Scalar == [kind |-> "scalar"]
Names == {<<"a">>, <<"b">>, <<"e", "a">>}
StringOf(name) == [kind |-> "string", name |-> name]
ObjectOf(members) == [kind |-> "object", members |-> members]
ArrayOf(elements) == [kind |-> "array", elements |-> elements]

UpTo2(S) == {<<>>} \cup {<<x>> : x \in S} \cup {<<x, y>> : x, y \in S}

RECURSIVE Values(_)
Values(level) ==
    LET inner == IF level = 0 THEN {Scalar} ELSE Values(level - 1)
    IN  {Scalar, StringOf(<<"a">>), StringOf(<<"e", "q">>)}
        \cup {ArrayOf(es) : es \in UpTo2(inner)}
        \cup {ObjectOf(ms) : ms \in UpTo2([name : Names, value : inner])}

RECURSIVE Render(_, _), RenderList(_, _, _)
Render(v, w) ==
    CASE v.kind = "scalar" -> w \o <<"n">> \o w
      [] v.kind = "string" -> w \o <<"q">> \o v.name \o <<"q">> \o w
      [] v.kind = "array" -> w \o <<"[">> \o w \o RenderList(v.elements, w, FALSE) \o <<"]">> \o w
      [] v.kind = "object" -> w \o <<"{">> \o w \o RenderList(v.members, w, TRUE) \o <<"}">> \o w

RenderList(list, w, named) ==
    IF list = <<>> THEN <<>>
    ELSE (IF named
          THEN w \o <<"q">> \o Head(list).name \o <<"q">> \o w \o <<":">> \o Render(Head(list).value, w)
          ELSE Render(Head(list), w))
         \o (IF Len(list) > 1 THEN <<",">> \o w ELSE <<>>)
         \o RenderList(Tail(list), w, named)

Plain(name) == SelectSeq(name, LAMBDA c : c # "e")

RECURSIVE Unique(_), Depth(_)
Unique(v) ==
    CASE v.kind = "object" ->
            /\ \A i, j \in DOMAIN v.members :
                  i # j => Plain(v.members[i].name) # Plain(v.members[j].name)
            /\ \A i \in DOMAIN v.members : Unique(v.members[i].value)
      [] v.kind = "array" -> \A i \in DOMAIN v.elements : Unique(v.elements[i])
      [] OTHER -> TRUE

Depth(v) ==
    LET parts == CASE v.kind = "object" -> {v.members[i].value : i \in DOMAIN v.members}
                   [] v.kind = "array" -> {v.elements[i] : i \in DOMAIN v.elements}
                   [] OTHER -> {}
    IN  IF parts = {} THEN 0
        ELSE 1 + (CHOOSE d \in {Depth(u) : u \in parts} : \A u \in parts : d >= Depth(u))

-----------------------------------------------------------------------------
\* The text of a value, without white space after it.
TextOf(v, w) == LET t == Render(v, w) IN SubSeq(t, 1, Len(t) - Len(w))

Init ==
    /\ value \in Values(Nesting)
    /\ \E w \in {<<>>, <<"s">>} : text = TextOf(value, w)
    /\ damage = "none"

\* The text loses its end, one character at a time.
Truncate ==
    /\ damage # "trailing" /\ text # <<>>
    /\ text' = SubSeq(text, 1, Len(text) - 1)
    /\ damage' = "truncated"
    /\ UNCHANGED value

\* Something follows the value.
Trail ==
    /\ damage = "none"
    /\ \E c \in {"}", "n", ","} : text' = Append(text, c)
    /\ damage' = "trailing"
    /\ UNCHANGED value

Spec == Init /\ [][Truncate \/ Trail]_vars

-----------------------------------------------------------------------------
\* A well-formed text is accepted exactly when no object in it, at any depth,
\* names a member twice, however the names are written, and it is not nested
\* deeper than the limit; no object or array that lost its end, or is followed
\* by something, passes.
AcceptsUniqueOnly ==
    /\ damage = "none" =>
          (hasUniqueJsonMembers(text) <=> Unique(value) /\ Depth(value) <= MaxDepth)
    /\ damage # "none" /\ value.kind \in {"object", "array"} =>
          ~hasUniqueJsonMembers(text)
=============================================================================
