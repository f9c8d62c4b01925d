--------------------------- MODULE ExternalSignIn ---------------------------
(***************************************************************************)
(* Sign-in by e-mail and by external providers (OAuth2 and OpenID          *)
(* Connect).  An account is known by its e-mail address, which stays taken *)
(* when the account is deleted.  Who may join is decided by the            *)
(* registration mode and by invitations sent by mail.  Each request takes  *)
(* several statements, with a round trip to the provider in between, while *)
(* other requests and the administrator change accounts, invitations and   *)
(* providers.  Sessions, and accounts that are disabled, are the subject   *)
(* of UserAccounts; here it counts which credential opened a session.      *)
(***************************************************************************)
EXTENDS Naturals, FiniteSets

CONSTANTS Emails,        \* addresses, each of one account at most
          Modes,         \* registration modes the administrator may have set
          Domain,        \* addresses of an allowed domain
          MailInvites,   \* rows of email_invitations
          MailTokens,    \* rows of email_login_tokens
          Flows,         \* rows of user_auth_flows
          Providers,     \* ids of auth_providers
          Slugs,         \* their slugs, which user_identities refers to
          Subjects,      \* who a provider says the caller is
          Callers,       \* requests under way
          Nobody

VARIABLES mode,          \* registration.mode, left alone meanwhile
          account,       \* users by e-mail
          invite, token, flow, provider,
          identity,      \* user_identities: whose subject of which provider
          call,          \* the requests
          joined,        \* accounts that made themselves (history)
          opened         \* sessions a login token opened (history)

evars == <<mode, account, invite, token, flow, provider, identity, call, joined, opened>>

ASSUME SignInAssumption ==
    /\ Modes \subseteq {"open", "domain_allowlist", "invite_only", "disabled"}
    /\ Domain \subseteq Emails

Link == [invite : MailInvites, serial : 0..1]     \* the token in an invitation mail
Quiet == [pc |-> "idle", email |-> Nobody, inv |-> Nobody, tok |-> Nobody,
          prov |-> Nobody, subj |-> Nobody]

MailInviteRow == [email : Emails, serial : 0..1,
                  status : {"pending", "accepted", "revoked", "expired"}]
MailTokenRow == [email : Emails, inv : MailInvites \cup {Nobody}, live : BOOLEAN]
ProviderRow == [slug : Slugs, enabled : BOOLEAN]
FlowRow == [prov : Providers, slug : Slugs, link : Emails \cup {Nobody}, inv : Link \cup {Nobody}]

ASSUME NobodyAssumption ==
    Nobody \notin MailInvites \cup MailTokens \cup MailInviteRow \cup MailTokenRow \cup ProviderRow

ExternalTypeOK ==
    /\ mode \in Modes
    /\ account \in [Emails -> {"none", "there", "deleted"}]
    /\ invite \in [MailInvites -> MailInviteRow \cup {Nobody}]
    /\ token \in [MailTokens -> MailTokenRow \cup {Nobody}]
    /\ flow \in [Flows -> FlowRow \cup {Nobody}]
    /\ provider \in [Providers -> ProviderRow \cup {Nobody}]
    /\ identity \in [Slugs \X Subjects -> Emails \cup {Nobody}]
    /\ \A c \in Callers : /\ call[c].email \in Emails \cup {Nobody}
                          /\ call[c].subj \in Subjects \cup {Nobody}
    /\ opened \in [MailTokens -> Nat]

ExternalInit ==
    /\ mode \in Modes
    /\ account = [e \in Emails |-> "none"]
    /\ invite = [v \in MailInvites |-> Nobody]
    /\ token = [k \in MailTokens |-> Nobody]
    /\ flow = [f \in Flows |-> Nobody]
    /\ provider = [p \in Providers |-> Nobody]
    /\ identity = [x \in Slugs \X Subjects |-> Nobody]
    /\ call = [c \in Callers |-> Quiet]
    /\ joined = {}
    /\ opened = [k \in MailTokens |-> 0]

Exists(e) == account[e] = "there"                       \* user_by_email
Go(c, pc) == call' = [call EXCEPT ![c].pc = pc]
GoOpen(c, e) == call' = [call EXCEPT ![c] = [Quiet EXCEPT !.pc = "session", !.email = e, !.tok = call[c].tok]]
Hang(c) == call' = [call EXCEPT ![c] = Quiet]
Arrive(c, entry) == call[c] = Quiet /\ call' = [call EXCEPT ![c] = entry]
history == <<joined, opened>>

(* valid_invitation *)
ValidInvitation(e, l) ==
    /\ l # Nobody /\ invite[l.invite] # Nobody
    /\ invite[l.invite].email = e
    /\ invite[l.invite].serial = l.serial
    /\ invite[l.invite].status = "pending"

(* registration_allowed, and its copy in request_email_login *)
NeedsNoInvitation(e) == mode = "open" \/ (mode = "domain_allowlist" /\ e \in Domain)

-----------------------------------------------------------------------------
(* Mail: invitations and login tokens *)

MailInvite(v, e) ==
    /\ invite[v] = Nobody
    /\ invite' = [invite EXCEPT ![v] = [email |-> e, serial |-> 0, status |-> "pending"]]
    /\ UNCHANGED <<mode, account, token, flow, provider, identity, call, history>>

(* The status column says pending until it is accepted or revoked, also    *)
(* when the time is over.                                                  *)
Pending(v) == invite[v].status \in {"pending", "expired"}

(* resend_invitation renews the token and the time: the link sent before   *)
(* is void.                                                                *)
ResendInvite(v) ==
    /\ invite[v] # Nobody /\ Pending(v) /\ invite[v].serial = 0
    /\ invite' = [invite EXCEPT ![v].serial = 1, ![v].status = "pending"]
    /\ UNCHANGED <<mode, account, token, flow, provider, identity, call, history>>

(* The administrator revokes it, or it expires. *)
VoidInvite(v, status) ==
    /\ invite[v] # Nobody
    /\ IF status = "revoked" THEN Pending(v) ELSE invite[v].status = "pending"
    /\ invite' = [invite EXCEPT ![v].status = status]
    /\ UNCHANGED <<mode, account, token, flow, provider, identity, call, history>>

(* request_email_login: who may not join gets the same answer and no mail. *)
RequestLogin(c, e, l) ==
    /\ \/ /\ l = Nobody /\ (Exists(e) \/ NeedsNoInvitation(e))
          /\ Arrive(c, [Quiet EXCEPT !.pc = "retire", !.email = e])
       \/ /\ ~Exists(e) /\ mode = "invite_only" /\ ValidInvitation(e, l)
          /\ Arrive(c, [Quiet EXCEPT !.pc = "retire", !.email = e, !.inv = l.invite])
    /\ UNCHANGED <<mode, account, invite, token, flow, provider, identity, history>>

(* store_email_login_token retires the tokens of the address and inserts   *)
(* one, in two statements.                                                 *)
RetireTokens(c) ==
    /\ call[c].pc = "retire"
    /\ token' = [k \in MailTokens |->
                    IF token[k] # Nobody /\ token[k].email = call[c].email
                    THEN [token[k] EXCEPT !.live = FALSE] ELSE token[k]]
    /\ Go(c, "store")
    /\ UNCHANGED <<mode, account, invite, flow, provider, identity, history>>

StoreToken(c, k) ==
    /\ call[c].pc = "store" /\ token[k] = Nobody
    /\ token' = [token EXCEPT ![k] = [email |-> call[c].email, inv |-> call[c].inv,
                                      live |-> TRUE]]
    /\ Hang(c)
    /\ UNCHANGED <<mode, account, invite, flow, provider, identity, history>>

Consumable(k) == token[k] # Nobody /\ token[k].live

\* Mutant: a token is not marked as used.
ConsumeTokenKept(c, k) ==
    /\ Consumable(k)
    /\ Arrive(c, [Quiet EXCEPT !.pc = "user", !.email = token[k].email,
                               !.inv = token[k].inv, !.tok = k])
    /\ UNCHANGED <<mode, account, invite, token, flow, provider, identity, history>>

(* consume_email_login_token with the link or the right code. *)
ConsumeToken(c, k) ==
    /\ Consumable(k)
    /\ token' = [token EXCEPT ![k].live = FALSE]
    /\ Arrive(c, [Quiet EXCEPT !.pc = "user", !.email = token[k].email,
                               !.inv = token[k].inv, !.tok = k])
    /\ UNCHANGED <<mode, account, invite, flow, provider, identity, history>>

(* Wrong codes use up the attempts of a token, or it expires: either way   *)
(* it is as good as used.                                                  *)
TokenEnds(k) ==
    /\ Consumable(k)
    /\ token' = [token EXCEPT ![k].live = FALSE]
    /\ UNCHANGED <<mode, account, invite, flow, provider, identity, call, history>>

(* The link of an invitation signs in by itself. *)
UseInvitation(c, l) ==
    /\ \E e \in Emails :
          /\ ValidInvitation(e, l)
          /\ Arrive(c, [Quiet EXCEPT !.pc = "user", !.email = e, !.inv = l.invite])
    /\ UNCHANGED <<mode, account, invite, token, flow, provider, identity, history>>

(* verify_email_login once the credential is good: the account, or the     *)
(* invitation it may be made with.                                         *)
FindUser(c) ==
    LET e == call[c].email
        v == call[c].inv
    IN  /\ call[c].pc = "user"
        /\ CASE Exists(e) -> Go(c, "accept")
             [] ~Exists(e) /\ (v = Nobody \/ (invite[v].email = e /\ invite[v].status = "pending"))
                  -> Go(c, "create")
             [] OTHER -> Hang(c)
        /\ UNCHANGED <<mode, account, invite, token, flow, provider, identity, history>>

(* create_user ignores an address that is taken; then the account is       *)
(* looked up again.                                                        *)
CreateByMail(c) ==
    LET e == call[c].email
    IN  /\ call[c].pc = "create"
        /\ IF account[e] = "none"
           THEN account' = [account EXCEPT ![e] = "there"] /\ joined' = joined \cup {e}
           ELSE UNCHANGED <<account, joined>>
        /\ IF account[e] = "deleted" THEN Hang(c) ELSE Go(c, "accept")
        /\ UNCHANGED <<mode, invite, token, flow, provider, identity, opened>>

AcceptInvite(c) ==
    LET v == call[c].inv
    IN  /\ call[c].pc = "accept"
        /\ invite' = IF v # Nobody /\ Pending(v)
                     THEN [invite EXCEPT ![v].status = "accepted"] ELSE invite
        /\ GoOpen(c, call[c].email)
        /\ UNCHANGED <<mode, account, token, flow, provider, identity, history>>

(* create_user_session; an account that is disabled is refused (CallEnds). *)
OpenSession(c) ==
    LET k == call[c].tok
    IN  /\ call[c].pc = "session"
        /\ opened' = IF k # Nobody /\ Exists(call[c].email)
                     THEN [opened EXCEPT ![k] = @ + 1] ELSE opened
        /\ Hang(c)
        /\ UNCHANGED <<mode, account, invite, token, flow, provider, identity, joined>>

-----------------------------------------------------------------------------
(* External providers *)

Enabled(p) == provider[p] # Nobody /\ provider[p].enabled

(* start_flow, for a sign-in or to link a provider to an account: the      *)
(* address to come back to has the provider's slug in it.                  *)
StartFlow(f, p, e, l) ==
    /\ Enabled(p) /\ flow[f] = Nobody
    /\ e # Nobody => (Exists(e) /\ l = Nobody)
    /\ flow' = [flow EXCEPT ![f] = [prov |-> p, slug |-> provider[p].slug, link |-> e, inv |-> l]]
    /\ UNCHANGED <<mode, account, invite, token, provider, identity, call, history>>

FlowExpires(f) ==
    /\ flow[f] # Nobody
    /\ flow' = [flow EXCEPT ![f] = Nobody]
    /\ UNCHANGED <<mode, account, invite, token, provider, identity, call, history>>

(* callback takes the flow, reads the provider, which must still have that *)
(* slug, and asks it who the caller is.                                    *)
Callback(c, f) ==
    /\ flow[f] # Nobody
    /\ flow' = [flow EXCEPT ![f] = Nobody]
    /\ IF Enabled(flow[f].prov) /\ provider[flow[f].prov].slug = flow[f].slug
       THEN Arrive(c, [Quiet EXCEPT !.pc = "claims", !.email = flow[f].link,
                                    !.inv = flow[f].inv, !.prov = flow[f].slug])
       ELSE call[c] = Quiet /\ UNCHANGED call
    /\ UNCHANGED <<mode, account, invite, token, provider, identity, history>>

(* complete_identity with the subject s, and its verified address e if it  *)
(* has one, up to the statement that writes; where nothing is possible the *)
(* request ends (CallEnds).                                                *)
Claims(c, s, e) ==
    LET k == call[c]
        owner == identity[<<k.prov, s>>]
        to(pc, who, v) == call' = [call EXCEPT ![c].pc = pc, ![c].email = who,
                                               ![c].subj = s, ![c].inv = v]
    IN  /\ k.pc = "claims"
        /\ IF k.email # Nobody
           THEN /\ Exists(k.email)
                /\ to("link", k.email, Nobody)
           ELSE IF owner # Nobody /\ Exists(owner)
           THEN GoOpen(c, owner)
           ELSE /\ e # Nobody
                /\ \/ Exists(e) /\ to("bind", e, Nobody)
                   \/ ~Exists(e) /\ NeedsNoInvitation(e) /\ to("join", e, Nobody)
                   \/ /\ ~Exists(e) /\ mode = "invite_only" /\ ValidInvitation(e, k.inv)
                      /\ to("join", e, k.inv.invite)
        /\ UNCHANGED <<mode, account, invite, token, flow, provider, identity, history>>

\* Mutant: the identity is replaced, not ignored.
BoundOver(x, e) == [identity EXCEPT ![x] = e]

(* INSERT OR IGNORE *)
Bound(x, e) == [identity EXCEPT ![x] = IF @ = Nobody THEN e ELSE @]

(* bind_external_identity: an identity of somebody else stays theirs. *)
BindIdentity(c) ==
    LET k == call[c]
        x == <<k.prov, k.subj>>
    IN  /\ k.pc \in {"link", "bind"}
        /\ identity' = Bound(x, k.email)
        /\ IF k.pc = "bind" /\ identity'[x] = k.email THEN GoOpen(c, k.email) ELSE Hang(c)
        /\ UNCHANGED <<mode, account, invite, token, flow, provider, history>>

\* Mutant: an invitation that is no longer pending does not roll back.
JoinRegardless(c) ==
    LET k == call[c]
        x == <<k.prov, k.subj>>
        free == account[k.email] = "none" /\ identity[x] = Nobody
    IN  /\ k.pc = "join"
        /\ account' = IF free THEN [account EXCEPT ![k.email] = "there"] ELSE account
        /\ joined' = IF free THEN joined \cup {k.email} ELSE joined
        /\ identity' = IF free THEN [identity EXCEPT ![x] = k.email] ELSE identity
        /\ invite' = IF k.inv = Nobody THEN invite
                     ELSE [invite EXCEPT ![k.inv].status = "accepted"]
        /\ IF free THEN GoOpen(c, k.email) ELSE Hang(c)
        /\ UNCHANGED <<mode, token, flow, provider, opened>>

(* create_user_with_external_identity: the account, its identity and the   *)
(* acceptance of the invitation, or nothing.                               *)
Join(c) ==
    LET k == call[c]
        x == <<k.prov, k.subj>>
    IN  /\ k.pc = "join"
        /\ IF /\ account[k.email] = "none" /\ identity[x] = Nobody
              /\ k.inv # Nobody => /\ invite[k.inv].status = "pending"
                                   /\ invite[k.inv].email = k.email
           THEN /\ account' = [account EXCEPT ![k.email] = "there"]
                /\ joined' = joined \cup {k.email}
                /\ identity' = [identity EXCEPT ![x] = k.email]
                /\ invite' = IF k.inv = Nobody THEN invite
                             ELSE [invite EXCEPT ![k.inv].status = "accepted"]
                /\ GoOpen(c, k.email)
           ELSE Hang(c) /\ UNCHANGED <<account, joined, identity, invite>>
        /\ UNCHANGED <<mode, token, flow, provider, opened>>

(* A refusal, a failing query or a client that is gone ends a request. *)
CallEnds(c) ==
    /\ call[c] # Quiet
    /\ Hang(c)
    /\ UNCHANGED <<mode, account, invite, token, flow, provider, identity, history>>

IdentitiesOf(e) == {x \in DOMAIN identity : identity[x] = e}

(* unlink_identity: the last one stays unless mail is set up; the count is *)
(* read before the row is deleted.                                         *)
UnlinkRead(c, e, smtp) ==
    /\ Exists(e)
    /\ Cardinality(IdentitiesOf(e)) > 1 \/ smtp
    /\ Arrive(c, [Quiet EXCEPT !.pc = "unlink", !.email = e])
    /\ UNCHANGED <<mode, account, invite, token, flow, provider, identity, history>>

Unlink(c, x) ==
    /\ call[c].pc = "unlink"
    /\ identity' = [identity EXCEPT ![x] = IF @ = call[c].email THEN Nobody ELSE @]
    /\ Hang(c)
    /\ UNCHANGED <<mode, account, invite, token, flow, provider, history>>

-----------------------------------------------------------------------------
(* The administrator *)

AdminUnlink(x) ==
    /\ identity[x] # Nobody
    /\ identity' = [identity EXCEPT ![x] = Nobody]
    /\ UNCHANGED <<mode, account, invite, token, flow, provider, call, history>>

Movable(old, new) ==
    \A s \in Subjects : identity[<<old, s>>] = Nobody \/ identity[<<new, s>>] = Nobody

(* A new slug: the identities under the old one follow it. *)
Renamed(old, new) ==
    [x \in Slugs \X Subjects |->
        IF x[1] = old THEN Nobody
        ELSE IF x[1] = new /\ identity[<<old, x[2]>>] # Nobody THEN identity[<<old, x[2]>>]
        ELSE identity[x]]

(* save_auth_provider: a provider is created, turned off or on, or given   *)
(* another slug, all in one transaction; slugs are unique, and so are the  *)
(* subjects under one.                                                     *)
SaveProvider(p, g, on) ==
    /\ \A q \in Providers \ {p} : provider[q] = Nobody \/ provider[q].slug # g
    /\ provider' = [provider EXCEPT ![p] = [slug |-> g, enabled |-> on]]
    /\ IF provider[p] = Nobody \/ provider[p].slug = g THEN UNCHANGED identity
       ELSE Movable(provider[p].slug, g) /\ identity' = Renamed(provider[p].slug, g)
    /\ UNCHANGED <<mode, account, invite, token, flow, call, history>>

(* delete_auth_provider: only without identities; its flows go with it. *)
DeleteProvider(p) ==
    /\ provider[p] # Nobody
    /\ \A s \in Subjects : identity[<<provider[p].slug, s>>] = Nobody
    /\ provider' = [provider EXCEPT ![p] = Nobody]
    /\ flow' = [f \in Flows |-> IF flow[f] # Nobody /\ flow[f].prov = p THEN Nobody ELSE flow[f]]
    /\ UNCHANGED <<mode, account, invite, token, identity, call, history>>

(* create_user and soft_delete_user *)
SetAccount(e, state) ==
    /\ IF state = "there" THEN account[e] = "none" ELSE Exists(e)
    /\ account' = [account EXCEPT ![e] = state]
    /\ UNCHANGED <<mode, invite, token, flow, provider, identity, call, history>>

ExternalNext ==
    \/ \E e \in Emails, s \in {"there", "deleted"} : SetAccount(e, s)
    \/ \E v \in MailInvites :
          \/ ResendInvite(v)
          \/ \E e \in Emails : MailInvite(v, e)
          \/ \E s \in {"revoked", "expired"} : VoidInvite(v, s)
    \/ \E p \in Providers :
          DeleteProvider(p) \/ (\E g \in Slugs, on \in BOOLEAN : SaveProvider(p, g, on))
    \/ \E k \in MailTokens : TokenEnds(k)
    \/ \E x \in DOMAIN identity : AdminUnlink(x)
    \/ \E f \in Flows :
          \/ FlowExpires(f)
          \/ \E p \in Providers, e \in Emails \cup {Nobody}, l \in Link \cup {Nobody} :
                StartFlow(f, p, e, l)
    \/ \E c \in Callers :
          \/ \E e \in Emails, l \in Link \cup {Nobody} : RequestLogin(c, e, l)
          \/ RetireTokens(c) \/ FindUser(c) \/ CreateByMail(c) \/ AcceptInvite(c)
          \/ OpenSession(c) \/ BindIdentity(c) \/ Join(c) \/ CallEnds(c)
          \/ \E k \in MailTokens : StoreToken(c, k) \/ ConsumeToken(c, k)
          \/ \E l \in Link : UseInvitation(c, l)
          \/ \E f \in Flows : Callback(c, f)
          \/ \E s \in Subjects, e \in Emails \cup {Nobody} : Claims(c, s, e)
          \/ \E e \in Emails, smtp \in BOOLEAN : UnlinkRead(c, e, smtp)
          \/ \E x \in DOMAIN identity : Unlink(c, x)

ExternalSpec == ExternalInit /\ [][ExternalNext]_evars

-----------------------------------------------------------------------------
(* Properties *)

(* Invitations and accounts go together, though an invitation is checked   *)
(* long before the account is made, by mail and through a provider at the  *)
(* same time: an accepted invitation has an account with its address       *)
(* (deleted later, perhaps), and when registration is by invitation,       *)
(* whoever joined was invited under that address.                          *)
InvitedAndJoined ==
    /\ \A v \in MailInvites :
          (invite[v] # Nobody /\ invite[v].status = "accepted") => account[invite[v].email] # "none"
    /\ mode = "invite_only" => \A e \in joined : \E v \in MailInvites :
          invite[v] # Nobody /\ invite[v].email = e

(* A login token opens one session, however often its link and code are    *)
(* used and whatever else signs in.                                        *)
TokenOpensOnce == \A k \in MailTokens : opened[k] <= 1

Owner(p, s) == IF provider[p] = Nobody THEN Nobody ELSE identity[<<provider[p].slug, s>>]

(* An identity of a provider never passes from one account to another: it  *)
(* is unlinked first.  A change of the provider itself, its slug included, *)
(* leaves every identity with its account, although rows refer to slugs    *)
(* and requests under way still bind to the slug they read.                *)
IdentityStays ==
    [][/\ \A x \in DOMAIN identity : identity[x] # Nobody => identity'[x] \in {identity[x], Nobody}
       /\ \A p \in Providers, s \in Subjects :
             provider'[p] # provider[p] /\ Owner(p, s) # Nobody => Owner(p, s)' = Owner(p, s)]_evars
=============================================================================
