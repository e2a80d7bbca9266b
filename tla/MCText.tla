------------------------------- MODULE MCText -------------------------------
(***************************************************************************)
(* The texts dkim-lite reads and writes, for TLC: in one behaviour either  *)
(* a body arrives, or a command line, the lines of a file or a DNS name    *)
(* grow, or a header value grows, a From value after the name of a domain. *)
(***************************************************************************)
EXTENDS BodyCanon, OwnDomain, CommandLine

CONSTANTS
    MaxWords,   \* bound on the words of a command line
    MaxLines,   \* bound on the lines of a file
    MaxName,    \* bound on the bytes of a name
    MaxOwn,     \* bound on the bytes of a name, followed by a From value
    SenderForms \* the values of From that follow a name

settingVars == <<args, lines, name>>
vars == <<bodyVars, valueVars, settingVars>>

NoValue == [start |-> <<>>, bytes |-> {}, length |-> 0]

Init == BodyInit /\ ValueInit /\ args = <<>> /\ lines = <<>> /\ name = <<>>

NoSettings == args = <<>> /\ lines = <<>> /\ name = <<>>

(* What grows is the only one to do so, a value and its domain apart *)
Alone == form = NoValue /\ body = <<>>

TypeWord == /\ Alone /\ lines = <<>> /\ name = <<>> /\ Len(args) < MaxWords
            /\ \E word \in Words : args' = Append(args, word)
            /\ UNCHANGED <<bodyVars, valueVars, lines, name>>

(* The lines that end the loop over them by themselves; the second of them  *)
(* would not be reached, so a file has one at most                          *)
WrongLines == {line \in Lines \ {Blank} : line.name \notin Names \/ ~Accepted(line.name, line.value)}

AddLine == /\ Alone /\ args = <<>> /\ name = <<>> /\ Len(lines) < MaxLines
           /\ \E line \in IF WrongLines \cap Range(lines) = {} THEN Lines ELSE Lines \ WrongLines :
                 lines' = Append(lines, line)
           /\ UNCHANGED <<bodyVars, valueVars, args, name>>

LongestName == IF Alone THEN MaxName ELSE IF form \in SenderForms THEN MaxOwn ELSE 0

AddByte == /\ args = <<>> /\ lines = <<>> /\ value = form.start /\ Len(name) < LongestName
           /\ \E byte \in {"a", "A", "-", ".", "!"} : name' = Append(name, byte)
           /\ UNCHANGED <<bodyVars, valueVars, args, lines>>

Complete == /\ \/ form # NoValue /\ Len(value) = form.length
               \/ Len(args) = MaxWords
               \/ Len(lines) = MaxLines
               \/ Len(name) = MaxName
            /\ UNCHANGED vars

Next == \/ form = NoValue /\ NoSettings /\ BodyNext /\ UNCHANGED <<valueVars, settingVars>>
        \/ TypeWord \/ AddLine \/ AddByte
        \/ Grow /\ UNCHANGED <<bodyVars, settingVars>>
        \/ Complete

Spec == Init /\ [][Next]_vars

(* A few families of values for each part of the syntax of From, one of any *)
(* content and white space, and those with the domains of senders          *)
From(start, bytes, length) == [start |-> start, bytes |-> bytes, length |-> length]
Solid == {"a", "!", "@", ".", ",", "<", ">", "(", ")", Quote, Escape, SP}

MCSenderForms == {
    From(<<"a", "@">>, {"a", "A", "-", "."}, 6),
    From(<<"<", "a", "@", "A">>, {"a", ".", ">"}, 7)}

MCForms == MCSenderForms \cup {
    NoValue,
    From(<<>>, {"a"} \cup White, 7),
    From(<<>>, {"a", "@", ".", "<", ">"}, 6),
    From(<<>>, {"a", "@", ","}, 7),
    From(<<>>, {"a", "A", "-", "!", "@", ".", "ctl"}, 5),
    From(<<>>, {"a", "@", "(", ")"}, 7),
    From(<<>>, {"a", "@", "(", Escape}, 6),
    From(<<"(">>, {"a", "@", ")", Escape}, 7),
    From(<<>>, {"a", "@", Quote, Escape}, 7),
    From(<<Quote>>, {"a", "@", Quote, "<", ">"}, 7),
    From(<<>>, {"a", "@", SP, CR, LF}, 6),
    From(<<Quote, Escape, TAB, Quote, "<">>, {"a", "@", ">", TAB}, 9),
    From(<<"a", "<", "a", "@", "a", ">">>, Solid, 9),
    From(<<"a", "@", "a">>, Solid \cup {"A", "-"}, 6)}
=============================================================================
