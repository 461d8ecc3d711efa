------------------------------ MODULE Accounts ------------------------------
(***************************************************************************)
(* Accounts of the dashboard: registration with a mailed verification      *)
(* link, password login, OAuth login and OAuth account linking, the        *)
(* personal organization every account needs, and sessions.                *)
(*                                                                         *)
(* What is kept and what is abstracted:                                    *)
(*  - One statement or transaction on the database, and one call of the    *)
(*    session store or the OAuth state store, is one step; requests        *)
(*    interleave between them and may be dropped between any two.          *)
(*  - There is one OAuth provider and one browser with two cookies: the    *)
(*    session id and the nonce of the last OAuth flow it began.            *)
(*  - A user name is as unique as its email.  NoEmail is the empty string  *)
(*    an OAuth user without an email gets, unique like any other.          *)
(*  - The slug of an organization is left out: a collision is retried with *)
(*    a random suffix.  Organizations do not disappear with their creator. *)
(***************************************************************************)
EXTENDS Naturals, Sequences

CONSTANTS
  AcRequests,     \* slots for concurrent requests, numbers
  AcMaxUid,       \* bound on users ever created
  AcEmails,       \* addresses, numbers above 0
  AcIds,          \* identities at the provider
  AcClaims,       \* what the provider may say: [id, email, verified]
  AcMaxSessions, AcMaxFlows, AcMaxBegun,  \* bounds on sessions, OAuth flows
                  \* and requests ever begun
  AcMaxFaults     \* bound on dropped requests, failed mails, deactivations

NoEmail == 0
NoAccount == 0
AcUids == 1 .. AcMaxUid

ASSUME AcAssumption ==
  /\ AcMaxUid \in Nat \ {0} /\ AcMaxSessions \in Nat /\ AcMaxFlows \in Nat
  /\ AcMaxBegun \in Nat /\ AcMaxFaults \in Nat
  /\ AcEmails \subseteq Nat \ {NoEmail}
  /\ AcClaims \subseteq
       [id : AcIds, email : AcEmails \cup {NoEmail}, verified : BOOLEAN]

VARIABLES
  acUsers,     \* the user rows, with their personal organization
  acLinks,     \* by identity: the user of its SocialAccount row, or NoAccount
  acMailed,    \* users whose verification link has been received
  acSessions,  \* the session store: the user of each session, NoAccount once
               \* it has ended
  acFlows,     \* the OAuth state store
  acJar, acNonce, \* the browser's cookies: session id and flow, 0 for none
  acReq,       \* the requests
  acBegun, acFaults

acRows == <<acUsers, acLinks>>
acStores == <<acSessions, acFlows>>
acCookies == <<acJar, acNonce>>
acCounts == <<acBegun, acFaults>>
acVars == <<acRows, acMailed, acStores, acCookies, acReq, acCounts>>

AcUsers == [state : {"none", "inactive", "active", "gone"},
            password : BOOLEAN, email : AcEmails \cup {NoEmail},
            org : BOOLEAN]
Flows == [open : BOOLEAN, link : BOOLEAN, sid : 0 .. AcMaxSessions,
          user : AcUids \cup {NoAccount}]
AcPcs == {"idle", "mail", "rollback", "activate", "ensure", "consume",
          "reload", "find", "create", "link", "token", "session"}
AcKinds == {"none", "register", "verify", "login", "oauth"}
NoClaims == [id |-> 0, email |-> NoEmail, verified |-> FALSE]
NoRequest == [pc |-> "idle", kind |-> "none", user |-> NoAccount, sid |-> 0,
         nonce |-> 0, flow |-> 0, claims |-> NoClaims, linked |-> FALSE]
Requests ==
  [pc : AcPcs, kind : AcKinds, user : AcUids \cup {NoAccount},
   sid : 0 .. AcMaxSessions, nonce : 0 .. AcMaxFlows, flow : 0 .. AcMaxFlows,
   claims : AcClaims \cup {NoClaims}, linked : BOOLEAN]

AcTypeOK ==
  /\ acUsers \in [AcUids -> AcUsers]
  /\ acLinks \in [AcIds -> AcUids \cup {NoAccount}]
  /\ acMailed \subseteq AcUids
  /\ acSessions \in Seq(AcUids \cup {NoAccount})
  /\ Len(acSessions) <= AcMaxSessions
  /\ acFlows \in Seq(Flows) /\ Len(acFlows) <= AcMaxFlows
  /\ acJar \in 0 .. Len(acSessions) /\ acNonce \in 0 .. Len(acFlows)
  /\ acReq \in [AcRequests -> Requests]
  /\ acBegun \in 0 .. AcMaxBegun /\ acFaults \in 0 .. AcMaxFaults

AcInit ==
  /\ acUsers = [u \in AcUids |-> [state |-> "none", password |-> FALSE,
                                  email |-> NoEmail, org |-> FALSE]]
  /\ acLinks = [i \in AcIds |-> NoAccount]
  /\ acMailed = {}
  /\ acSessions = <<>> /\ acFlows = <<>>
  /\ acJar = 0 /\ acNonce = 0
  /\ acReq = [r \in AcRequests |-> NoRequest]
  /\ acBegun = 0 /\ acFaults = 0

AcFault == acFaults < AcMaxFaults /\ acFaults' = acFaults + 1

-----------------------------------------------------------------------------
(* Rows and stores *)

HasRow(u) == u # NoAccount /\ acUsers[u].state \in {"inactive", "active"}
IsActive(u) == u # NoAccount /\ acUsers[u].state = "active"
EmailTaken(e) == \E u \in AcUids : HasRow(u) /\ acUsers[u].email = e
UnusedUids == {u \in AcUids : acUsers[u].state = "none"}

\* Inserts a user row; the email is unique.
InsertUser(u, state, password, e) ==
  /\ u \in UnusedUids /\ \A v \in UnusedUids : u <= v
  /\ ~EmailTaken(e)
  /\ acUsers' = [acUsers EXCEPT ![u] = [state |-> state, email |-> e,
                                        password |-> password, org |-> FALSE]]

SessionUser(sid) ==
  IF sid = 0 THEN NoAccount ELSE acSessions[sid]

\* A request takes the first free slot: slots are only names.
Begins(r, req) ==
  /\ acReq[r] = NoRequest /\ \A s \in AcRequests : s < r => acReq[s] # NoRequest
  /\ acBegun < AcMaxBegun
  /\ acBegun' = acBegun + 1 /\ UNCHANGED acFaults
  /\ acReq' = [acReq EXCEPT ![r] = req]

At(r, pc) == acReq[r].pc = pc
GoesTo(r, pc) == acReq' = [acReq EXCEPT ![r].pc = pc]
Finish(r) == acReq' = [acReq EXCEPT ![r] = NoRequest]

\* A request is dropped, its replica crashes or its next statement fails:
\* what it did stays done.
Drop(r) ==
  /\ acReq[r] # NoRequest /\ AcFault
  /\ Finish(r)
  /\ UNCHANGED <<acRows, acMailed, acStores, acCookies, acBegun>>

-----------------------------------------------------------------------------
(* Registration and verification *)

\* register_inactive_user up to the insert.  A taken email changes nothing.
RegisterInactiveUser(r) ==
  /\ \E u \in AcUids, e \in AcEmails :
       /\ InsertUser(u, "inactive", TRUE, e)
       /\ Begins(r, [NoRequest EXCEPT !.pc = "mail", !.kind = "register", !.user = u])
  /\ UNCHANGED <<acLinks, acMailed, acStores, acCookies>>

SendVerificationEmail(r) ==
  /\ At(r, "mail")
  /\ acMailed' = acMailed \cup {acReq[r].user}
  /\ Finish(r)
  /\ UNCHANGED <<acRows, acStores, acCookies, acCounts>>

\* The mailer reports a failure, also of a mail that was delivered.
SendVerificationEmailFails(r) ==
  /\ At(r, "mail") /\ AcFault
  /\ acMailed' \in {acMailed, acMailed \cup {acReq[r].user}}
  /\ GoesTo(r, "rollback")
  /\ UNCHANGED <<acRows, acStores, acCookies, acBegun>>

\* The row is deleted, its links and its membership with it.
RollBackUser(r) ==
  /\ At(r, "rollback")
  /\ LET u == acReq[r].user
     IN  /\ acUsers' = [acUsers EXCEPT ![u].state = "gone", ![u].org = FALSE]
         /\ acLinks' = [i \in AcIds |->
                          IF acLinks[i] = u THEN NoAccount ELSE acLinks[i]]
  /\ Finish(r)
  /\ UNCHANGED <<acMailed, acStores, acCookies, acCounts>>

VerifyEmail(r) ==
  /\ \E u \in acMailed :
       /\ HasRow(u)
       /\ Begins(r, [NoRequest EXCEPT !.kind = "verify", !.user = u,
                      !.pc = IF IsActive(u) THEN "ensure" ELSE "activate"])
  /\ UNCHANGED <<acRows, acMailed, acStores, acCookies>>

\* The update of a row that has gone fails.
ActivateUser(r) ==
  /\ At(r, "activate")
  /\ IF HasRow(acReq[r].user)
       THEN /\ acUsers' = [acUsers EXCEPT ![acReq[r].user].state = "active"]
            /\ GoesTo(r, "ensure")
       ELSE Finish(r) /\ UNCHANGED acUsers
  /\ UNCHANGED <<acLinks, acMailed, acStores, acCookies, acCounts>>

\* An administrator clears is_active in the admin panel.
AdminDeactivates(u) ==
  /\ IsActive(u) /\ AcFault
  /\ acUsers' = [acUsers EXCEPT ![u].state = "inactive"]
  /\ UNCHANGED <<acLinks, acMailed, acStores, acCookies, acReq, acBegun>>

-----------------------------------------------------------------------------
(* The personal organization *)

AfterEnsure(req) ==
  CASE req.kind = "verify" -> "idle"
    [] req.kind = "login" -> "session"
    [] req.kind = "oauth" /\ ~req.linked -> "link"
    [] req.kind = "oauth" /\ req.linked -> "token"

\* One transaction under a lock on the user row.
EnsurePersonalOrganization(r) ==
  LET req == acReq[r]
  IN  /\ At(r, "ensure")
      /\ IF HasRow(req.user)
           THEN /\ acUsers' = [acUsers EXCEPT ![req.user].org = TRUE]
                /\ IF AfterEnsure(req) = "idle" THEN Finish(r)
                     ELSE GoesTo(r, AfterEnsure(req))
           ELSE Finish(r) /\ UNCHANGED acUsers
      /\ UNCHANGED <<acLinks, acMailed, acStores, acCookies, acCounts>>

-----------------------------------------------------------------------------
(* Sessions *)

\* Mutant of LoginStep: the organization is left to the verification link.
LoginStepTrusting == "session"

LoginStep == "ensure"

VerifyCredentials(r) ==
  /\ \E u \in AcUids :
       /\ IsActive(u) /\ acUsers[u].password
       /\ Begins(r, [NoRequest EXCEPT !.kind = "login", !.user = u,
                                !.pc = LoginStep])
  /\ UNCHANGED <<acRows, acMailed, acStores, acCookies>>

\* The response sets the session cookie; an OAuth login expires the state's.
CreateSession(r) ==
  /\ At(r, "session") /\ Len(acSessions) < AcMaxSessions
  /\ acSessions' = Append(acSessions, acReq[r].user)
  /\ acJar' = Len(acSessions) + 1
  /\ acNonce' = IF acReq[r].kind = "oauth" THEN 0 ELSE acNonce
  /\ Finish(r)
  /\ UNCHANGED <<acRows, acMailed, acFlows, acCounts>>

\* The cookie is cleared even when the store could not be reached.
LogOut ==
  /\ acJar # 0
  /\ \/ /\ acSessions' = [acSessions EXCEPT ![acJar] = NoAccount]
        /\ UNCHANGED acFaults
     \/ AcFault /\ UNCHANGED acSessions
  /\ acJar' = 0
  /\ UNCHANGED <<acRows, acMailed, acFlows, acNonce, acReq, acBegun>>

SessionExpires(sid) ==
  /\ SessionUser(sid) # NoAccount
  /\ acSessions' = [acSessions EXCEPT ![sid] = NoAccount]
  /\ UNCHANGED <<acRows, acMailed, acFlows, acCookies, acReq, acCounts>>

-----------------------------------------------------------------------------
(* OAuth *)

\* current_user_for_account_link_intent
LinkSessionLive == IsActive(SessionUser(acJar))

OAuthStart(link) ==
  /\ Len(acFlows) < AcMaxFlows /\ acBegun < AcMaxBegun
  /\ acBegun' = acBegun + 1
  /\ link => LinkSessionLive
  /\ acFlows' = Append(acFlows,
       [open |-> TRUE, link |-> link, sid |-> IF link THEN acJar ELSE 0,
        user |-> IF link THEN SessionUser(acJar) ELSE NoAccount])
  /\ acNonce' = Len(acFlows) + 1
  /\ UNCHANGED <<acRows, acMailed, acSessions, acJar, acReq, acFaults>>

\* The provider sends the browser back with the state of any flow it began.
\* The nonce of an account link asks for a live session.
OAuthCallback(r) ==
  /\ acNonce # 0
  /\ acFlows[acNonce].link => LinkSessionLive
  /\ \E f \in DOMAIN acFlows, c \in AcClaims :
       LET link == acFlows[acNonce].link
       IN  Begins(r, [NoRequest EXCEPT
                 !.pc = "consume", !.kind = "oauth", !.claims = c,
                 !.nonce = acNonce, !.flow = f,
                 !.sid = IF link THEN acJar ELSE 0,
                 !.user = IF link THEN SessionUser(acJar) ELSE NoAccount])
  /\ UNCHANGED <<acRows, acMailed, acStores, acCookies>>

\* Mutant of StateBinding: the state is bound to the browser alone.
StateBindingNonce(nonce, sid) == <<nonce>>

StateBinding(nonce, sid) == <<nonce, sid>>

\* The state is consumed and its binding compared in one step; whether a
\* mismatch consumes it too is the framework's choice.
ConsumeState(r) ==
  LET req == acReq[r]
      f == acFlows[req.flow]
      bound == f.open /\ StateBinding(req.nonce, req.sid)
                           = StateBinding(req.flow, f.sid)
      closed == [acFlows EXCEPT ![req.flow].open = FALSE]
  IN  /\ At(r, "consume")
      /\ IF bound THEN acFlows' = closed ELSE acFlows' \in {acFlows, closed}
      /\ IF bound /\ f.user = req.user
           THEN GoesTo(r, IF f.link THEN "reload" ELSE "find")
           ELSE Finish(r)
      /\ UNCHANGED <<acRows, acMailed, acSessions, acCookies, acCounts>>

\* active_user_for_account_link_intent
ReloadLinkUser(r) ==
  /\ At(r, "reload")
  /\ IF IsActive(acReq[r].user) THEN GoesTo(r, "find") ELSE Finish(r)
  /\ UNCHANGED <<acRows, acMailed, acStores, acCookies, acCounts>>

IsLink(r) == acFlows[acReq[r].flow].link

\* link_user_to_provider: another user's identity is refused.
FindForLink(r) ==
  LET owner == acLinks[acReq[r].claims.id]
  IN  /\ At(r, "find") /\ IsLink(r)
      /\ IF owner \in {NoAccount, acReq[r].user}
           THEN acReq' = [acReq EXCEPT ![r].pc = "ensure",
                                       ![r].linked = owner # NoAccount]
           ELSE Finish(r)
      /\ UNCHANGED <<acRows, acMailed, acStores, acCookies, acCounts>>

VerifiedMatches(c) ==
  {u \in AcUids : c.verified /\ c.email # NoEmail
                    /\ HasRow(u) /\ acUsers[u].email = c.email}

\* link_or_create_user: the linked user, else the one with the verified
\* email, else a new one.
FindForLogin(r) ==
  LET c == acReq[r].claims
      owner == acLinks[c.id]
      candidates == IF owner # NoAccount THEN {owner} ELSE VerifiedMatches(c)
  IN  /\ At(r, "find") /\ ~IsLink(r)
      /\ IF candidates = {} THEN GoesTo(r, "create")
           ELSE \E u \in candidates :
                  acReq' = [acReq EXCEPT ![r].pc = "ensure", ![r].user = u,
                                         ![r].linked = owner # NoAccount]
      /\ UNCHANGED <<acRows, acMailed, acStores, acCookies, acCounts>>

CreateOAuthUser(r) ==
  LET e == acReq[r].claims.email
  IN  /\ At(r, "create")
      /\ \/ /\ EmailTaken(e)
            /\ Finish(r) /\ UNCHANGED acUsers
         \/ \E u \in AcUids :
              /\ InsertUser(u, "active", FALSE, e)
              /\ acReq' = [acReq EXCEPT ![r].pc = "ensure", ![r].user = u]
      /\ UNCHANGED <<acLinks, acMailed, acStores, acCookies, acCounts>>

\* create_link: one row per identity and one per user and provider.
CreateLink(r) ==
  LET req == acReq[r]
      free == /\ HasRow(req.user) /\ acLinks[req.claims.id] = NoAccount
              /\ \A i \in AcIds : acLinks[i] # req.user
  IN  /\ At(r, "link")
      /\ IF free
           THEN /\ acLinks' = [acLinks EXCEPT ![req.claims.id] = req.user]
                /\ GoesTo(r, "token")
           ELSE Finish(r) /\ UNCHANGED acLinks
      /\ UNCHANGED <<acUsers, acMailed, acStores, acCookies, acCounts>>

\* store_token_for_user needs the link's row; an account link ends here.
StoreToken(r) ==
  LET req == acReq[r]
      found == acLinks[req.claims.id] = req.user
  IN  /\ At(r, "token")
      /\ IF found /\ ~IsLink(r) THEN GoesTo(r, "session") ELSE Finish(r)
      /\ acNonce' = IF found /\ IsLink(r) THEN 0 ELSE acNonce
      /\ UNCHANGED <<acRows, acMailed, acStores, acJar, acCounts>>

-----------------------------------------------------------------------------
AccountsNext ==
  \/ \E r \in AcRequests :
       \/ RegisterInactiveUser(r) \/ SendVerificationEmail(r)
       \/ SendVerificationEmailFails(r) \/ RollBackUser(r)
       \/ VerifyEmail(r) \/ ActivateUser(r) \/ VerifyCredentials(r)
       \/ EnsurePersonalOrganization(r) \/ CreateSession(r)
       \/ OAuthCallback(r) \/ ConsumeState(r) \/ ReloadLinkUser(r)
       \/ FindForLink(r) \/ FindForLogin(r) \/ CreateOAuthUser(r)
       \/ CreateLink(r) \/ StoreToken(r) \/ Drop(r)
  \/ \E link \in BOOLEAN : OAuthStart(link)
  \/ LogOut
  \/ \E sid \in DOMAIN acSessions : SessionExpires(sid)
  \/ \E u \in AcUids : AdminDeactivates(u)

AccountsSpec == AcInit /\ [][AccountsNext]_acVars

-----------------------------------------------------------------------------
(* The inductive invariant *)

\* A user whose row, if it is still there, has its organization.
Provisioned(u) ==
  /\ u # NoAccount /\ acUsers[u].state # "none"
  /\ HasRow(u) => acUsers[u].org

AcSessionsReady ==
  \A sid \in DOMAIN acSessions :
    acSessions[sid] # NoAccount => Provisioned(acSessions[sid])

\* What a request has behind it, by where it stands.
ReqShape(r) ==
  LET req == acReq[r] IN
  /\ req.pc \in {"consume", "reload", "find", "create", "link", "token"}
       => req.kind = "oauth"
  /\ req.pc \in {"mail", "rollback"} =>
       req.kind = "register" /\ req.user # NoAccount
  /\ req.pc = "activate" => req.kind = "verify"
  /\ req.pc = "ensure" => req.kind \in {"verify", "login", "oauth"}
  /\ req.kind = "oauth" => req.claims \in AcClaims /\ req.flow \in DOMAIN acFlows

ReqReady(r) ==
  acReq[r].pc \in {"link", "token", "session"} => Provisioned(acReq[r].user)

\* The account a login has chosen and not yet linked has the claimed email.
ReqMatched(r) ==
  LET req == acReq[r] IN
  /\ req.user # NoAccount /\ acUsers[req.user].state # "none"
  /\ acUsers[req.user].email = req.claims.email

\* A request whose state was consumed serves the intent its flow was begun
\* with.
ReqIntent(r) ==
  LET req == acReq[r]
      f == acFlows[req.flow]
  IN  (req.kind = "oauth" /\ req.pc # "consume") =>
        IF f.link
          THEN req.sid = f.sid /\ req.user = f.user /\ req.pc # "create"
          ELSE (req.pc = "link" \/ (req.pc = "ensure" /\ ~req.linked))
                 => ReqMatched(r)

ReqSound(r) == ReqShape(r) /\ ReqReady(r) /\ ReqIntent(r)

AcInv ==
  /\ AcTypeOK /\ AcSessionsReady
  /\ \A r \in AcRequests : ReqSound(r)

-----------------------------------------------------------------------------
(* Properties *)

\* A request with a session of an active user finds the user's organization,
\* which current_organization_id_for_user calls impossible to miss: whatever
\* was dropped between activation, provisioning and login.
SessionsAreProvisioned ==
  \A sid \in DOMAIN acSessions :
    IsActive(SessionUser(sid)) => acUsers[SessionUser(sid)].org

\* A provider identity is attached only to the account it is meant for.  An
\* account link goes to the user whose session began it, through that very
\* session, whatever logouts and logins came between; an OAuth login goes to
\* an account with the email the provider claims.
LinksFollowIntent ==
  [][\A i \in AcIds : acLinks'[i] \in {acLinks[i], NoAccount}
       \/ \E r \in AcRequests :
            LET req == acReq[r]
                f == acFlows[req.flow]
            IN  /\ At(r, "link") /\ req.claims.id = i
                /\ IF f.link THEN req.sid = f.sid /\ acLinks'[i] = f.user
                     ELSE acUsers[acLinks'[i]].email = req.claims.email]_acVars
=============================================================================
