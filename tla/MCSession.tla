----------------------------- MODULE MCSession -----------------------------
(* Small instances of MilterSession for TLC *)
EXTENDS MilterSession

From(d) == [name |-> "from", form |-> "good", domain |-> d, size |-> 1]
Other(form, size) == [name |-> "other", form |-> form, domain |-> "none", size |-> size]

MCDomains == {"d1", "d2", "none"}

(* The reload changes the signing domain *)
MCDomainOf == [v \in 0..1 |-> IF v = 0 THEN "d1" ELSE "d2"]

OneDomain == [v \in 0..0 |-> "d1"]

(* Both domains, an ordinary header, and one of each malformation *)
MCHeaders == {From("d1"), From("d2"), Other("good", 2), Other("unframed", 1),
              Other("badname", 1)}

FewHeaders == {From("d1"), Other("unframed", 1)}

(* An MTA too old for no-reply, a current one that waives everything the   *)
(* daemon supports and something else, one that grants nothing useful      *)
MCOffers == {[version |-> 2, actions |-> {"add"}, protocol |-> {"L", "B"}],
             [version |-> 6, actions |-> {"add", "change", "other"},
              protocol |-> {"M", "L", "B", "other"}],
             [version |-> 6, actions |-> {"other"}, protocol |-> {"L"}]}

FewOffers == {[version |-> 2, actions |-> {"add"}, protocol |-> {"L", "B"}],
              [version |-> 6, actions |-> {"add", "change", "other"},
               protocol |-> {"M", "L", "B", "other"}]}

MCRepertoire == {"O", "M", "L", "B", "E", "A", "N", "D", "?"}

FullRepertoire == MCRepertoire \cup {"Q", "R"}
=============================================================================
