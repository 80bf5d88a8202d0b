------------------------------ MODULE SqlSplit ------------------------------
(* split_statements of the migrate command: a SQL file, as a sequence of     *)
(* characters, cut at the semicolons outside literals and comments.          *)
EXTENDS Naturals, Sequences, FiniteSets, SequencesExt, FiniteSetsExt

FirstOf(S, default) == IF S = {} THEN default ELSE CHOOSE x \in S : \A y \in S : x <= y

At(s, p, w) == p + Len(w) - 1 <= Len(s) /\ SubSeq(s, p, p + Len(w) - 1) = w
TagChars == {"a", "1"}

(* Where the lexeme that begins at p ends: the position after it.            *)
LineEnd(s, p) == FirstOf({j \in (p + 2)..Len(s) : s[j] = "\n"}, Len(s) + 1)
\* Left open, a comment ends at the last character.
BlockEnd(s, p) ==
    LET close == FirstOf({j \in (p + 2)..Len(s) : At(s, j, <<"*", "/">>)}, 0)
    IN  IF close > 0 THEN close + 2 ELSE Max({p + 2, Len(s)})
\* A doubled quote is none: the literal begins at p, and from there on quotes
\* come in pairs until one stands alone.
QuoteEnd(s, p) ==
    LET Quotes(j) == Cardinality({i \in p..j : s[i] = s[p]})
    IN  FirstOf({j \in (p + 1)..Len(s) : s[j] = s[p] /\ Quotes(j) % 2 = 0 /\ ~At(s, j, <<s[p], s[p]>>)}, Len(s)) + 1
DollarEnd(s, p) ==
    LET e == FirstOf({j \in (p + 1)..Len(s) : s[j] \notin TagChars}, Len(s) + 1)
        tag == SubSeq(s, p, e)
        close == FirstOf({j \in (e + 1)..Len(s) : At(s, j, tag)}, 0)
    IN  IF e > Len(s) \/ s[e] # "$" THEN e
        ELSE IF close > 0 THEN close + Len(tag) ELSE Max({e + 1, Len(s) - Len(tag) + 2})

\* Mutant: a dollar sign opens nothing.
LexemeEndNoDollar(s, p) ==
    CASE At(s, p, <<"-", "-">>) -> LineEnd(s, p)
      [] At(s, p, <<"/", "*">>) -> BlockEnd(s, p)
      [] s[p] \in {"'", "\""}   -> QuoteEnd(s, p)
      [] OTHER -> p + 1
LexemeEnd(s, p) ==
    CASE At(s, p, <<"-", "-">>) -> LineEnd(s, p)
      [] At(s, p, <<"/", "*">>) -> BlockEnd(s, p)
      [] s[p] \in {"'", "\""}   -> QuoteEnd(s, p)
      [] s[p] = "$"             -> DollarEnd(s, p)
      [] OTHER -> p + 1

Trim(s) ==
    LET ink == {i \in 1..Len(s) : s[i] \notin {" ", "\n"}}
    IN  IF ink = {} THEN <<>> ELSE SubSeq(s, Min(ink), Max(ink))
Statement(s) == IF Trim(s) = <<>> THEN <<>> ELSE <<Trim(s)>>

\* The scan: where the statement begins and the next lexeme, and what is out.
SplitStatements(s) ==
    LET upTo[p \in 0..Len(s)] ==
            IF p = 0 THEN [start |-> 1, next |-> 1, out |-> <<>>]
            ELSE LET c == upTo[p - 1]
                 IN  IF p < c.next THEN c
                     ELSE IF s[p] = ";" THEN [start |-> p + 1, next |-> p + 1, out |-> c.out \o Statement(SubSeq(s, c.start, p - 1))]
                     ELSE [c EXCEPT !.next = LexemeEnd(s, p)]
    IN  upTo[Len(s)].out \o Statement(SubSeq(s, upTo[Len(s)].start, Len(s)))

----------------------------------------------------------------------------
(* Files made of whole lexemes, semicolons in all that may hold them.        *)
SqlPieces ==
    { <<";">>, <<"a">>, <<" ">>, <<"-", " ">>, <<"/", "a">>,
      <<"'", ";", "'">>, <<"'", "'", "'", ";", "'">>, <<"\"", ";", "'", "\"">>,
      <<"-", "-", ";", "'", "\n">>, <<"/", "*", ";", "$", "$", "*", "/">>,
      <<"$", "$", ";", "'", "$", "$">>, <<"$", "a", "$", ";", "$", "$", ";", "$", "a", "$">>,
      <<"$", "1", " ">> }
SqlFiles == UNION {[1..n -> SqlPieces] : n \in 0..3}

PieceStatements(ps) ==
    LET ends == {0, Len(ps) + 1} \cup {i \in DOMAIN ps : ps[i] = <<";">>}
        cuts == SetToSortSeq(ends, <)
    IN  FlattenSeq([k \in 1..(Len(cuts) - 1) |-> Statement(FlattenSeq(SubSeq(ps, cuts[k] + 1, cuts[k + 1] - 1)))])

(* A file is cut at the semicolons that stand alone and at no other.         *)
SplitsAtSemicolons(ps) == SplitStatements(FlattenSeq(ps)) = PieceStatements(ps)
=============================================================================
