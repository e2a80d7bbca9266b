----------------------------- MODULE OwnDomain -----------------------------
(***************************************************************************)
(* How sign compares the domain that from_domain finds in the From field   *)
(* with the one that validate_dns_name made of the configuration file.     *)
(***************************************************************************)
EXTENDS FromDomain, Settings

(* eq_ignore_ascii_case *)
Recognized(from, domain) ==
    DomainOf(from) # Refused /\ Lower(DomainOf(from)) = Lower(domain)

(* Mail is signed for the configured domain exactly when its From field is  *)
(* a single mailbox of that domain, however either is spelled: the two      *)
(* normalizations, of dkim.rs and of config.rs, go together.                *)
OwnDomainIsRecognized ==
    LET domain == ValidateDnsName(name)
    IN  domain # Invalid =>
            (Recognized(value, domain) <=> \E own \in Mailboxes : SameName(own, name))
=============================================================================
