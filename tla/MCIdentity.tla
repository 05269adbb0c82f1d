---------------------------- MODULE MCIdentity -----------------------------
(* Model-checking instance of Identity.  The words are strings, since dots *)
(* and dashes are.  Domains have two words: enough to tell a dot from a    *)
(* dash.                                                                   *)
EXTENDS Identity

CONSTANT Services   \* last words of service account names

MCDomains ==
  {<<w, separator, x>> : w \in Words \ Services, separator \in {".", "-"}, x \in Words \ Services}

(* One for each domain.                                                    *)
MCNamespaces == {getDashedDomain(d) : d \in MCDomains}

MCServiceAccounts ==
  {<<s>> : s \in Services} \cup {Join(d, <<s>>) : d \in MCDomains, s \in Services}

MCFlags ==
  LET given == [trustDomain |-> "ours", issuer |-> "issuer"]
  IN {<<>>, given, [duration |-> "2h"] @@ given, [duration |-> "0s"] @@ given}

=============================================================================
