---------------------------- MODULE CommandLine ----------------------------
(***************************************************************************)
(* parse_args and parse_generate_args over every short command line: which *)
(* word is an option and which one the value of the option before it.      *)
(* --private-key stands for --domain and --selector too.                   *)
(***************************************************************************)
EXTENDS Naturals, Sequences, SequencesExt, FiniteSetsExt

VARIABLE args  \* the words after the program's name

Flag == "--check-config"
Required == {"--private-key"}
Options == Required \cup {"--bits", "--require-fips"}
Words == Options \cup {Flag, "--config", "--help", "--version", "generate-key", "2048", "true"}

Rejected == [command |-> "error"]
Help == [command |-> "help"]
Version == [command |-> "version"]
Unset == "none"

(* A value that parses: an integer for --bits, a truth value for            *)
(* --require-fips, anything for the others                                  *)
Parses(option, value) == CASE option = "--bits" -> value = "2048"
                           [] option = "--require-fips" -> value = "true"
                           [] OTHER -> TRUE

-----------------------------------------------------------------------------
(* Loops end with the first error; pending is the option whose value is the *)
(* next word *)

ServeWord(s, word) ==
    IF s.done THEN s
    ELSE IF s.pending THEN [s EXCEPT !.config = word, !.pending = FALSE]
    ELSE IF word = Flag /\ ~s.check THEN [s EXCEPT !.check = TRUE]
    ELSE IF word = "--config" /\ s.config = Unset THEN [s EXCEPT !.pending = TRUE]
    ELSE [s EXCEPT !.done = TRUE]

ParseServe(words) ==
    LET s == FoldLeft(ServeWord, [done |-> FALSE, pending |-> FALSE, config |-> Unset,
                                  check |-> FALSE], words)
    IN  IF words = <<"--version">> THEN Version
        ELSE IF words = <<"--help">> THEN Help
        ELSE IF s.done \/ s.pending THEN Rejected
        ELSE [command |-> "serve", config |-> s.config, check |-> s.check]

(* MUTANT of GenerateWord: the last of several values counts *)
GenerateLast(s, word) ==
    IF s.result # Unset THEN s
    ELSE IF s.pending # Unset
    THEN IF s.pending \in Options /\ Parses(s.pending, word)
         THEN [s EXCEPT !.given[s.pending] = word, !.pending = Unset]
         ELSE [s EXCEPT !.result = "error"]
    ELSE IF word = "--help" THEN [s EXCEPT !.result = "help"]
    ELSE [s EXCEPT !.pending = word]

(* The option is only looked at once its value is there *)
GenerateWord(s, word) ==
    IF s.result # Unset THEN s
    ELSE IF s.pending # Unset
    THEN IF s.pending \in Options /\ s.given[s.pending] = Unset /\ Parses(s.pending, word)
         THEN [s EXCEPT !.given[s.pending] = word, !.pending = Unset]
         ELSE [s EXCEPT !.result = "error"]
    ELSE IF word = "--help" THEN [s EXCEPT !.result = "help"]
    ELSE [s EXCEPT !.pending = word]

ParseGenerate(words) ==
    LET s == FoldLeft(GenerateWord, [result |-> Unset, pending |-> Unset,
                                     given |-> [option \in Options |-> Unset]], words)
    IN  IF s.result = "help" THEN Help
        ELSE IF \/ s.result = "error" \/ s.pending # Unset
                \/ \E option \in Required : s.given[option] = Unset
        THEN Rejected
        ELSE [command |-> "generate-key", given |-> s.given]

Parse == IF args # <<>> /\ Head(args) = "generate-key"
         THEN ParseGenerate(Tail(args)) ELSE ParseServe(args)

-----------------------------------------------------------------------------
(* A generate-key command is a sequence of pairs, no option twice, in any   *)
(* order; it has the values of its pairs and nothing else.  A help option   *)
(* counts in the place of an option, unless something was wrong before it.  *)
Pairs == {k \in 1..(Len(args) \div 2) : 2 * k + 1 <= Len(args)}
Option(k) == args[2 * k]
Value(k) == args[2 * k + 1]
GoodUpTo(n) == \A k \in 1..n : /\ Option(k) \in Options /\ Parses(Option(k), Value(k))
                               /\ \A j \in 1..(k - 1) : Option(j) # Option(k)
HelpAsked == \E k \in 1..(Len(args) \div 2) : Option(k) = "--help" /\ GoodUpTo(k - 1)

GenerateKeepsItsPairs ==
    args # <<>> /\ Head(args) = "generate-key" =>
        /\ Parse = Help <=> HelpAsked
        /\ Parse.command = "generate-key" <=>
               /\ Len(args) % 2 = 1 /\ GoodUpTo(Cardinality(Pairs))
               /\ \A option \in Required : \E k \in Pairs : Option(k) = option
        /\ Parse.command = "generate-key" =>
               \A option \in Options :
                   {Parse.given[option]} \ {Unset} = {Value(k) : k \in {j \in Pairs : Option(j) = option}}

(* A daemon is started for the five forms of its command line and no other: *)
(* --config and its value are together, and a word is used once.            *)
ServeForms ==
    {[words |-> <<>>, config |-> Unset, check |-> FALSE],
     [words |-> <<Flag>>, config |-> Unset, check |-> TRUE]}
    \cup UNION {{[words |-> <<"--config", word>>, config |-> word, check |-> FALSE],
                 [words |-> <<Flag, "--config", word>>, config |-> word, check |-> TRUE],
                 [words |-> <<"--config", word, Flag>>, config |-> word, check |-> TRUE]} :
                    word \in Words}

ServesOnlyItsForms ==
    {[words |-> args, config |-> p.config, check |-> p.check] :
        p \in {q \in {Parse} : q.command = "serve"}}
    = {form \in ServeForms : form.words = args}

(* No value is taken for an option or the reverse, nothing is given twice,  *)
(* and neither command is started by words that are not one of its forms.   *)
ParsesItsForms == GenerateKeepsItsPairs /\ ServesOnlyItsForms
=============================================================================
