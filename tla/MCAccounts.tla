----------------------------- MODULE MCAccounts -----------------------------
(* Accounts with a password, sign-in by mail and sign-in through a         *)
(* provider.  The three share no row of the database that their properties *)
(* tell apart, so a behaviour exercises one of them, the part it starts    *)
(* with; links of invitations occur with both mail tokens and providers,   *)
(* renewed ones with mail tokens.  Where registration is open, providers   *)
(* are used without invitations, and they get another slug and are deleted.*)
EXTENDS UserAccounts, ExternalSignIn, TLC

VARIABLE part

vars == <<uvars, evars, part>>

(* Users and Emails are the same values, and so are Handlers and Callers.  *)
MCSymmetry == Permutations(Users) \cup Permutations(Handlers) \cup Permutations(Slugs)

MCInit ==
    /\ part \in {"password", "mail", "provider", "slugs"}
    /\ AccountsInit
    /\ ExternalInit
    /\ part \in {"password", "provider"} => mode = "invite_only"
    /\ part = "slugs" => mode = "open"

MCNext ==
    /\ UNCHANGED part
    /\ CASE part = "password" -> AccountsNext /\ UNCHANGED evars
         [] part = "mail"     -> ExternalNext /\ UNCHANGED <<uvars, flow, provider>>
         [] part = "provider" ->
                /\ ExternalNext
                /\ \A v \in MailInvites : invite'[v] # Nobody => invite'[v].serial = 0
                /\ \A p \in Providers : provider[p] # Nobody =>
                      provider'[p] # Nobody /\ provider'[p].slug = provider[p].slug
                /\ UNCHANGED <<uvars, token>>
         [] part = "slugs"    ->
                /\ ExternalNext
                /\ \A f \in Flows : flow'[f] # Nobody => flow'[f].inv = Nobody
                /\ UNCHANGED <<uvars, token, invite>>

MCSpec == MCInit /\ [][MCNext]_vars
=============================================================================
