------------------------------ MODULE Settings ------------------------------
(***************************************************************************)
(* The syntax of the configuration file (RuntimeConfig::load) and of the   *)
(* DNS names in it (validate_dns_name).                                    *)
(*                                                                         *)
(* A line is a setting, named "#" for a blank line or a comment and "junk" *)
(* for a line without "=".  Values of settings are classes.  The bytes of  *)
(* a name are "A" for capitals, "a" for small letters and digits, "-", "." *)
(* and "!" for any other.                                                  *)
(***************************************************************************)
EXTENDS AsciiText, SequencesExt

CONSTANTS
    MaxDns,    \* 253: bytes of a DNS name
    MaxLabel   \* 63: bytes of a label

ASSUME SettingsAssumption == MaxDns \in Nat /\ MaxLabel \in Nat

VARIABLES
    lines,  \* of the file
    name    \* as written for domain or selector

Names == {"domain", "selector", "private_key", "listen", "require_fips"}
Mandatory == Names \ {"require_fips"}
Setting(n, v) == [name |-> n, value |-> v]

(* Values that are accepted for each name, and each way to be wrong *)
Blank == Setting("#", "empty")
Lines == {Blank, Setting("junk", "empty"), Setting("unknown", "good"),
          Setting("domain", "empty"), Setting("domain", "bad"),
          Setting("private_key", "relative")}
         \cup {Setting(n, "good") : n \in {"domain", "selector", "private_key"}}
         \cup {Setting("listen", v) :
                 v \in {"unix:/path", "unix:path", "tcp:loopback", "tcp:elsewhere"}}
         \cup {Setting("require_fips", v) : v \in {"true", "false", "bad"}}

None == "none"
Error == [n \in Names |-> "error"]
Invalid == <<"invalid">>

-----------------------------------------------------------------------------
(* parse_listen: an absolute path or an address of this host *)
ParsesListen(value) == value \in {"unix:/path", "tcp:loopback"}

(* A value is parsed with its line, save that a relative key path is only   *)
(* found at the end *)
Accepted(n, value) ==
    CASE n = "listen" -> ParsesListen(value)
      [] n = "require_fips" -> value \in {"true", "false"}
      [] n = "private_key" -> value # "empty"
      [] OTHER -> value = "good"

(* MUTANT of ReadLine: the last of several settings of a name counts *)
ReadLineLast(s, line) ==
    IF s = Error \/ line = Blank THEN s
    ELSE IF line.name \in Names /\ Accepted(line.name, line.value)
    THEN [s EXCEPT ![line.name] = line.value]
    ELSE Error

(* Errors end the loop; a name may be set once *)
ReadLine(s, line) ==
    IF s = Error \/ line = Blank THEN s
    ELSE IF /\ line.name \in Names /\ s[line.name] = None
            /\ Accepted(line.name, line.value)
    THEN [s EXCEPT ![line.name] = line.value]
    ELSE Error

Load(file) ==
    LET s == FoldLeft(ReadLine, [n \in Names |-> None], file)
    IN  IF \/ s = Error
           \/ \E n \in Mandatory : s[n] = None
           \/ s["private_key"] = "relative"
        THEN Error
        ELSE [s EXCEPT !["require_fips"] = IF @ = None THEN "true" ELSE @]

(* value.split('.') *)
SplitDots(labels, byte) ==
    IF byte = "." THEN Append(labels, <<>>)
    ELSE [labels EXCEPT ![Len(labels)] = Append(@, byte)]
Labels(v) == FoldLeft(SplitDots, <<(<<>>)>>, v)

(* MUTANT of ValidateDnsName: hyphens are only refused in front *)
ValidateFronts(v) ==
    LET value == Lower(StripDots(v))
    IN  IF /\ Len(value) \in 1..MaxDns
           /\ \A label \in Range(Labels(value)) :
                 /\ Len(label) \in 1..MaxLabel
                 /\ label[1] # "-"
                 /\ Range(label) \subseteq {"a", "-"}
        THEN value ELSE Invalid

ValidateDnsName(v) ==
    LET value == Lower(StripDots(v))
    IN  IF /\ Len(value) \in 1..MaxDns
           /\ \A label \in Range(Labels(value)) :
                 /\ Len(label) \in 1..MaxLabel
                 /\ "-" \notin {label[1], label[Len(label)]}
                 /\ Range(label) \subseteq {"a", "-"}
        THEN value ELSE Invalid

-----------------------------------------------------------------------------
(* A file is accepted as a set of settings: whatever the order of its       *)
(* lines, each name has the value of its one line, and a name set twice,    *)
(* even alike, or a line that is wrong is never overlooked.  FIPS mode is   *)
(* required unless a line says that it is not.                              *)
LoadIsStrict ==
    LET set == {i \in DOMAIN lines : lines[i] # Blank}
    IN  /\ Load(lines) # Error <=>
              /\ \A i \in set : /\ lines[i].name \in Names
                                 /\ lines[i].value \notin {"empty", "bad", "relative", "unix:path",
                                                         "tcp:elsewhere"}
              /\ \A i, j \in set : lines[i].name = lines[j].name => i = j
              /\ Mandatory \subseteq {lines[i].name : i \in set}
        /\ Load(lines) # Error =>
              /\ \A i \in set : Load(lines)[lines[i].name] = lines[i].value
              /\ Load(lines)["require_fips"] = "false" =>
                    Setting("require_fips", "false") \in {lines[i] : i \in set}

(* The names accepted are those of DNS in any case, with dots at the end or *)
(* without, by the places of their dots.  What is kept of one is the same   *)
(* name, spelled in the one way that would be kept again as it is.          *)
NamesAreDnsNames ==
    LET bare == StripDots(name)
        dots == {0, Len(bare) + 1} \cup {i \in DOMAIN bare : bare[i] = "."}
        kept == ValidateDnsName(name)
    IN  /\ kept # Invalid <=>
              /\ bare # <<>> /\ Len(bare) <= MaxDns
              /\ \A i \in DOMAIN bare : bare[i] # "!"
              /\ \A i, j \in dots : i < j /\ (\A k \in dots : k <= i \/ k >= j) =>
                    /\ j - i \in 2..(MaxLabel + 1)
                    /\ "-" \notin {bare[i + 1], bare[j - 1]}
        /\ kept # Invalid => SameName(kept, name) /\ ValidateDnsName(kept) = kept
=============================================================================
