------------------------------- MODULE SdsText -------------------------------
(***************************************************************************)
(* Taking strings apart and putting them together (redis/hiredis/sds.c):   *)
(* sdssplitargs reads the arguments of a line, which sdscatrepr can write, *)
(* and sdssplitlen parts a text that sdsjoin can join. Characters are by   *)
(* name: "dq", "sq" the quotes, "bs" the backslash, "sp" a space, "nl" a   *)
(* newline, "bin" a byte that prints as \xff, others themselves.           *)
(***************************************************************************)
EXTENDS Naturals, Sequences, SequencesExt

CONSTANTS
  Char,          \* characters of the arguments
  MaxChars,      \* the length of an argument
  Separator      \* names of the separators of sdssplitlen: "one", "two"

VARIABLES
  job,           \* "args", "cut" or "split"
  parts,         \* the strings that were written or joined
  line,          \* the text that is read
  p_at,          \* p, of sdssplitlen j
  quote,         \* inq, insq: "none", "dq", "sq"; "blank" between tokens
  current_tok,
  vector,        \* the tokens so far
  split_start,   \* start, of sdssplitlen
  text_pc        \* "read", "done", "null"

vars == <<job, parts, line, p_at, quote, current_tok, vector, split_start, text_pc>>

Texts == UNION {[1..n -> Char] : n \in 0..MaxChars}

\* sdscatrepr
Escaped(c) == CASE c \in {"bs", "dq"} -> <<"bs", c>>
                [] c = "nl"  -> <<"bs", "n">>
                [] c = "bin" -> <<"bs", "x", "f", "f">>
                [] OTHER     -> <<c>>
Repr(s) == <<"dq">> \o FlattenSeq([j \in DOMAIN s |-> Escaped(s[j])]) \o <<"dq">>
\* by hand: in single quotes, and bare
Single(s) == <<"sq">> \o FlattenSeq([j \in DOMAIN s |->
                IF s[j] = "sq" THEN <<"bs", "sq">> ELSE <<s[j]>>]) \o <<"sq">>
Plain == {"a", "n", "x", "f", "bs", "bin"}
Ways(s) == {Repr(s)} \cup (IF "bs" \in ToSet(s) THEN {} ELSE {Single(s)})
                     \cup (IF s # <<>> /\ ToSet(s) \subseteq Plain THEN {s} ELSE {})

\* the separators: of one character and of two
Sep == IF split_start.sep = "one" THEN <<"a">> ELSE <<"a", "n">>
\* sdsjoin, sdsjoinsds
Join(ss, sep) == FlattenSeq([j \in DOMAIN ss |->
                               IF j < Len(ss) THEN ss[j] \o sep ELSE ss[j]])

ArgsInit ==
  /\ job = "args" /\ split_start = [at |-> 0, sep |-> "one"]
  /\ \E s, t \in Texts, blank \in {<<"sp">>, <<"nl", "sp">>} :
       \E ws \in Ways(s), wt \in Ways(t) :
         /\ Len(t) <= 1 /\ parts = <<s, t>> /\ line = blank \o ws \o blank \o wt
  /\ quote = "blank"
\* a line whose last quote is missing
CutInit ==
  /\ job = "cut" /\ split_start = [at |-> 0, sep |-> "one"] /\ quote = "blank"
  /\ \E s \in Texts : parts = <<s>> /\ line = Front(Repr(s))
SplitInit ==
  /\ job = "split" /\ quote = "none"
  /\ \E s, t \in Texts, sep \in Separator :
       /\ split_start = [at |-> 1, sep |-> sep]
       /\ "a" \notin ToSet(s) \cup ToSet(t)
       /\ parts = <<s, t>> /\ line = Join(<<s, t>>, Sep)
Init == /\ ArgsInit \/ CutInit \/ SplitInit
        /\ p_at = 1 /\ current_tok = <<>> /\ vector = <<>> /\ text_pc = "read"
----------------------------------------------------------------------------
At(j) == IF j <= Len(line) THEN line[j] ELSE "end"
IsSpace(c) == c \in {"sp", "nl"}
Fixed == UNCHANGED <<job, parts, line, split_start>>
Step(n) == p_at' = p_at + n
Take(s, n) == /\ current_tok' = current_tok \o s /\ Step(n)
              /\ UNCHANGED <<quote, vector, text_pc>> /\ Fixed
TokenDone(n) == /\ vector' = Append(vector, current_tok) /\ current_tok' = <<>>
                /\ quote' = "blank" /\ Step(n) /\ UNCHANGED text_pc /\ Fixed
Refuse == /\ text_pc' = "null" /\ vector' = <<>>
          /\ UNCHANGED <<quote, current_tok, p_at>> /\ Fixed

ReadingArgs == text_pc = "read" /\ job \in {"args", "cut"}

SkipBlank ==
  /\ ReadingArgs /\ quote = "blank"
  /\ IF IsSpace(At(p_at)) THEN Step(1) /\ UNCHANGED <<quote, text_pc>>
     ELSE IF At(p_at) = "end" THEN text_pc' = "done" /\ UNCHANGED <<p_at, quote>>
     ELSE quote' = "none" /\ UNCHANGED <<p_at, text_pc>>
  /\ UNCHANGED <<current_tok, vector>> /\ Fixed

\* a closing quote must be followed by a space or nothing at all
CloseQuote == IF IsSpace(At(p_at + 1)) \/ At(p_at + 1) = "end" THEN TokenDone(1) ELSE Refuse

UnescapeAsIs(c) == c
Unescape(c) == IF c = "n" THEN "nl" ELSE c
HexPair(j) == At(j) = "f" /\ At(j + 1) = "f"
InDoubleQuotes ==
  /\ ReadingArgs /\ quote = "dq"
  /\ CASE At(p_at) = "bs" /\ At(p_at + 1) = "x" /\ HexPair(p_at + 2) -> Take(<<"bin">>, 4)
       [] At(p_at) = "bs" /\ At(p_at + 1) # "end"
            /\ ~(At(p_at + 1) = "x" /\ HexPair(p_at + 2)) -> Take(<<Unescape(At(p_at + 1))>>, 2)
       [] At(p_at) = "dq" -> CloseQuote
       [] At(p_at) = "end" -> Refuse
       [] OTHER -> Take(<<At(p_at)>>, 1)

InSingleQuotes ==
  /\ ReadingArgs /\ quote = "sq"
  /\ CASE At(p_at) = "bs" /\ At(p_at + 1) = "sq" -> Take(<<"sq">>, 2)
       [] At(p_at) = "sq" -> CloseQuote
       [] At(p_at) = "end" -> Refuse
       [] OTHER -> Take(<<At(p_at)>>, 1)

Bare ==
  /\ ReadingArgs /\ quote = "none"
  /\ CASE IsSpace(At(p_at)) -> TokenDone(1)
       [] At(p_at) = "end" -> TokenDone(0)
       [] At(p_at) \in {"dq", "sq"} ->
            quote' = At(p_at) /\ Step(1) /\ UNCHANGED <<current_tok, vector, text_pc>> /\ Fixed
       [] OTHER -> Take(<<At(p_at)>>, 1)

\* sdssplitlen: the loop over the places where the separator fits, then the rest
SplitStep ==
  /\ text_pc = "read" /\ job = "split" /\ line # <<>>
  /\ LET from == split_start.at
     IN IF p_at <= Len(line) - (Len(Sep) - 1)
        THEN IF SubSeq(line, p_at, p_at + Len(Sep) - 1) = Sep
             THEN /\ vector' = Append(vector, SubSeq(line, from, p_at - 1))
                  /\ split_start' = [split_start EXCEPT !.at = p_at + Len(Sep)]
                  /\ Step(Len(Sep)) /\ UNCHANGED text_pc
             ELSE Step(1) /\ UNCHANGED <<vector, split_start, text_pc>>
        ELSE /\ vector' = Append(vector, SubSeq(line, from, Len(line)))
             /\ text_pc' = "done" /\ UNCHANGED <<p_at, split_start>>
  /\ UNCHANGED <<job, parts, line, quote, current_tok>>

Next == SkipBlank \/ InDoubleQuotes \/ InSingleQuotes \/ Bare \/ SplitStep
Spec == Init /\ [][Next]_vars
----------------------------------------------------------------------------
\* Reading gives back what was written: sdssplitargs the strings that sdscatrepr
\* wrote (the comment of sdssplitargs says that it can), whatever quotes,
\* backslashes, escapes or bytes are in them, and those in single quotes or bare
\* ones; sdssplitlen the strings that sdsjoin joined. A line that ends within
\* quotes is refused.
ReadsBack ==
  IF job = "cut" THEN text_pc # "done"
  ELSE text_pc # "null" /\ (text_pc = "done" => vector = parts)
=============================================================================
