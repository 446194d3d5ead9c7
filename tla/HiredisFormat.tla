---------------------------- MODULE HiredisFormat ----------------------------
(***************************************************************************)
(* redisvFormatCommand and redisFormatCommandArgv of hiredis.c: from a     *)
(* printf-like format to a command of the Redis protocol. A format is a    *)
(* sequence of items, each a character or a conversion with its argument;  *)
(* a text is a sequence of characters, and only lengths of it matter for   *)
(* the protocol. The command is the counts and texts in protocol order.    *)
(***************************************************************************)
EXTENDS Naturals, Sequences, SequencesExt, FiniteSets

CONSTANTS
  Items,        \* names of items, see Text
  MaxItems      \* the length of a format

VARIABLES
  format,       \* the format
  at_item,      \* c
  curarg, touched,
  argv,         \* curargv
  totlen,
  format_pc,    \* "scan", "done", "invalid"
  command       \* the result: [argc, args, pos]

vars == <<format, at_item, curarg, touched, argv, totlen, format_pc, command>>

\* What an item adds to an argument. "s" and "b" interpolate a text, which may
\* have spaces or be empty, "d" prints an integer. "wide" is an integer
\* conversion of 14 characters or more, which _format cannot hold: the two first
\* characters are passed over and the others are text. "long" is a text at whose
\* length the number of digits of the length grows.
Text(item) ==
  CASE item = "char"    -> <<"x">>
    [] item = "s"       -> <<"s", " ", "t">>
    [] item = "s_empty" -> <<>>
    [] item = "b"       -> <<"b", "0">>
    [] item = "b_long"  -> [j \in 1..10 |-> "b"]
    [] item = "percent" -> <<"%">>
    [] item = "d"       -> <<"7">>
    [] item = "wide"    -> <<"0", "d">>
    [] item = "end"     -> <<"%">>

Init ==
  /\ format \in UNION {[1..n -> Items] : n \in 0..MaxItems}
  \* a percent sign without a conversion can only be the last character
  /\ \A j \in DOMAIN format : format[j] = "end" => j = Len(format)
  /\ at_item = 1 /\ curarg = <<>> /\ touched = FALSE /\ argv = <<>> /\ totlen = 0
  /\ format_pc = "scan" /\ command = [argc |-> 0, args |-> <<>>, pos |-> 0]

\* countDigits takes four digits at a time; the number of digits sprintf prints
DigitsUpTo4(v) == IF v < 10 THEN 1 ELSE IF v < 100 THEN 2 ELSE IF v < 1000 THEN 3 ELSE 4
CountDigits(v) == IF v < 10000 THEN DigitsUpTo4(v) ELSE 4 + DigitsUpTo4(v \div 10000)
Printed(v) == CHOOSE n \in 1..8 : v < 10 ^ n /\ (n > 1 => v >= 10 ^ (n - 1))
BulkLenBare(len) == 1 + CountDigits(len) + 2 + len
BulkLen(len) == 1 + CountDigits(len) + 2 + len + 2

\* curarg is put in argv
Store ==
  /\ argv' = Append(argv, curarg) /\ totlen' = totlen + BulkLen(Len(curarg))
  /\ curarg' = <<>> /\ touched' = FALSE

Scan ==
  /\ format_pc = "scan" /\ at_item <= Len(format)
  /\ LET item == format[at_item]
     IN IF item = "space"
        THEN /\ IF touched THEN Store ELSE UNCHANGED <<argv, totlen, curarg, touched>>
             /\ UNCHANGED format_pc
        ELSE IF item = "unknown"
        THEN format_pc' = "invalid" /\ UNCHANGED <<argv, totlen, curarg, touched>>
        ELSE /\ curarg' = curarg \o Text(item) /\ touched' = TRUE
             /\ UNCHANGED <<argv, totlen, format_pc>>
  /\ at_item' = at_item + 1
  /\ UNCHANGED <<format, command>>

\* the last argument, and the count
LastArgument ==
  /\ format_pc = "scan" /\ at_item > Len(format) /\ touched
  /\ Store /\ UNCHANGED <<format, at_item, format_pc, command>>

\* building the command: pos counts what sprintf and memcpy write
Written(args) == FoldSeq(LAMBDA a, n : n + 1 + Printed(Len(a)) + 2 + Len(a) + 2,
                         1 + Printed(Len(args)) + 2, args)
Build ==
  /\ format_pc = "scan" /\ at_item > Len(format) /\ ~touched
  /\ totlen' = totlen + 1 + CountDigits(Len(argv)) + 2
  /\ command' = [argc |-> Len(argv), args |-> argv, pos |-> Written(argv)]
  /\ format_pc' = "done"
  /\ UNCHANGED <<format, at_item, curarg, touched, argv>>

Next == Scan \/ LastArgument \/ Build
Spec == Init /\ [][Next]_vars
----------------------------------------------------------------------------
\* the words of a format: what spaces of the format itself part
Breaks == {j \in DOMAIN format : format[j] = "space"} \cup {0, Len(format) + 1}
NextBreak(b) == CHOOSE e \in Breaks : e > b /\ \A x \in Breaks : x > b => x >= e
WordAfter(b) == SubSeq(format, b + 1, NextBreak(b) - 1)
Words == LET starts == SetToSortSeq({b \in Breaks : b <= Len(format) /\ WordAfter(b) # <<>>},
                                    LAMBDA x, y : x < y)
         IN [j \in DOMAIN starts |->
               FlattenSeq([k \in DOMAIN WordAfter(starts[j]) |-> Text(WordAfter(starts[j])[k])])]

DigitBoundaries == {0, 9, 10, 99, 100, 999, 1000, 9999, 10000, 99999, 100000}

\* The command has the words of the format as its arguments, with the texts put
\* in whole: one that is empty or has spaces is one argument still
\* (redisvFormatCommand). The length computed beforehand is the one written,
\* which the code asserts, also where the length of a length changes. A format
\* with an unknown conversion has no command.
CommandOfWords ==
  /\ \A v \in DigitBoundaries : CountDigits(v) = Printed(v)
  /\ IF \E j \in DOMAIN format : format[j] = "unknown"
     THEN format_pc # "done"
     ELSE format_pc = "done" =>
         /\ command.args = Words /\ command.argc = Len(Words)
         /\ totlen = command.pos
=============================================================================
