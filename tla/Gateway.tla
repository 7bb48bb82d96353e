------------------------------ MODULE Gateway ------------------------------
(***************************************************************************)
(* The way of a request to its handler: Router, v1Router and mobileRouter   *)
(* (handlers/handlers.go, v1.go, mobile.go), the middleware they chain       *)
(* (auth/context.go, auth/rbac.go, web/csrf, staff_sso.go), and the          *)
(* credentials it looks up: session, API key, mobile token, share link       *)
(* (auth/session.go, apikey, mobileauth, sharelink).                        *)
(*                                                                         *)
(* A request knocks at one door with one credential.  Every middleware is a  *)
(* step, two where it reads two tables, and what gives a right may be        *)
(* withdrawn between any two of them.  A route stands for its group: the     *)
(* handlers behind one group pass the same middleware.  Logging, headers and  *)
(* the limiters (RateLimiter) are left out; any request may be refused.      *)
(***************************************************************************)
EXTENDS Naturals, Sequences, FiniteSets, RoleMatrix

CONSTANTS
    Guests,        \* requests that can run at the same time
    GuestRoles,    \* the roles in use
    MaxKnocks      \* bound: requests that arrive

ASSUME GatewayAssumption ==
    /\ IsFiniteSet(Guests) /\ GuestRoles \subseteq DOMAIN roleMatrix
    /\ MaxKnocks \in Nat

Scopes == {"databases:read", "databases:write", "drills:read", "drills:write",
           "heartbeats:read", "account:delete"}
AllScopes == Scopes \ {"account:delete"}
\* Known scopes stay, and a key is never created powerless.
normalizeScopes(asked) == IF asked \cap Scopes = {} THEN AllScopes ELSE asked \cap Scopes

-----------------------------------------------------------------------------
(* The routes: the middleware of each group, the action or scope it asks for, *)
(* and the methods its routes have.                                         *)

Group(gates, needs, verbs) == [gates |-> gates, needs |-> needs, verbs |-> verbs]
Reading == {"GET"}
Writing == {"POST"}

\* Router: the public pages, and the ones that sign a visitor in.
siteRoutes ==
    [site |-> Group(<<>>, "none", {"GET", "POST"}), signin |-> Group(<<>>, "none", {"GET", "POST"})]

\* Router: what asks for a session.  A group behind the trial gate has its creating and
\* starting routes under Write, and under Tidy what only takes away or shows a form:
\* assertionDelete, shareRevoke, heartbeatPause, heartbeatDelete, the two "new" pages.
webRoutes ==
    LET Staff == Group(<<"user", "staffSSO">>, "none", {"GET", "POST"})
        App(verbs) == Group(<<"user", "account">>, "none", verbs)
        For(action, verbs) == Group(<<"user", "account", "action">>, action, verbs)
        Gated(action, verbs) == Group(<<"user", "account", "action", "trial">>, action, verbs)
    IN  [stop |-> Group(<<"user">>, "none", Writing), sso |-> Group(<<"user", "staff">>, "none", Reading),
         admin |-> Staff, own |-> App({"GET", "POST"}),
         targetRead |-> For("target.read", Reading), drillRead |-> For("drill.read", Reading),
         heartbeatRead |-> For("heartbeat.read", Reading),
         evidenceRead |-> For("evidence.read", Reading),
         accountRead |-> For("account.read", Reading), teamRead |-> For("team.read", Reading),
         targetWrite |-> Gated("target.write", Writing), drillWrite |-> Gated("drill.write", Writing),
         heartbeatWrite |-> Gated("heartbeat.write", Writing),
         targetTidy |-> Gated("target.write", {"GET", "POST"}), drillTidy |-> Gated("drill.write", Writing),
         heartbeatTidy |-> Gated("heartbeat.write", {"GET", "POST"}),
         memberWrite |-> For("member.write", Writing),
         accountWrite |-> For("account.write", {"GET", "POST"}),
         billingWrite |-> For("billing.write", Writing), teamWrite |-> For("team.write", Writing)]

\* The receivers that authenticate the message itself: Postmark, Stripe, pings.
hookRoutes == [webhooks |-> Group(<<>>, "none", Writing), ping |-> Group(<<>>, "none", {"GET", "POST"})]

Erasure == Group(<<"key", "keyAccount", "scope">>, "account:delete", {"DELETE"})

\* v1Router.
v1Routes ==
    LET Read(scope) == Group(<<"key", "keyAccount", "scope">>, scope, Reading)
        Write(scope) == Group(<<"key", "keyAccount", "scope", "v1trial">>, scope, Writing)
    IN  [v1Databases |-> Read("databases:read"), v1Drills |-> Read("drills:read"),
         v1Heartbeats |-> Read("heartbeats:read"), v1CreateDatabases |-> Write("databases:write"),
         v1CreateDrills |-> Write("drills:write"),
         v1Erase |-> Erasure]

\* mobileRouter: signing in, and what a token reaches.
mobileRoutes ==
    [mobileSignin |-> Group(<<>>, "none", Writing),
     mobileApp |-> Group(<<"token", "member", "keyAccount">>, "none", {"GET", "POST", "DELETE"})]

\* sharePage and shareDownload.
shareRoutes == [share |-> Group(<<"link", "view">>, "none", Reading)]

pageRoutes ==
    [r \in DOMAIN webRoutes \cup DOMAIN siteRoutes |->
        IF r \in DOMAIN siteRoutes THEN siteRoutes[r] ELSE webRoutes[r]]
Doors == [web |-> pageRoutes, hook |-> hookRoutes, v1 |-> v1Routes, mobile |-> mobileRoutes,
          share |-> shareRoutes]

\* Every request passes these first.
Global == <<"LoadUser", "LoadAccount", "LoadMembership", "csrf">>
Chain(d, r) == Global \o Doors[d][r].gates

-----------------------------------------------------------------------------
VARIABLES
    door,          \* where the requests of this behaviour knock
    cred,          \* the session, key, token or link: "none", "pending", "live" or "ended"
    asked,         \* the scopes the key was created with
    staff, fresh,  \* is_staff; the step-up is within its window
    held,          \* the role in each account, or "none"
    open, paid,    \* the account is not deleted; its trial has not lapsed
    on,            \* current_account_id of the session
    guest,         \* where each request is, and what the middleware put in its context
    views,         \* view_count of the share link
    shown,         \* history: visits of the link that were let in
    unseen,        \* history: updates of view_count that failed
    knocks

rightVars == <<door, cred, asked, staff, fresh, held, open, paid>>
gateVars == <<rightVars, on, guest, views, shown, unseen, knocks>>

\* The account the other variables speak of, and another account of the same user, whose
\* rights do not change.
Accounts == {"here", "home"}
AccountOpen(x) == x = "home" \/ open
AccountPaid(x) == x = "home" \/ paid

\* "in" is the account in the context, "entitled" the accounts the request had its rights
\* in when it arrived.
Outside == [at |-> 0, route |-> "site", verb |-> "GET", token |-> FALSE, entitled |-> {},
            user |-> FALSE, fresh |-> FALSE, in |-> "here", account |-> FALSE, paid |-> TRUE,
            role |-> "none", scopes |-> {}, seen |-> 0, out |-> "none"]

GatewayInit ==
    /\ door \in DOMAIN Doors
    /\ cred \in {"none"} \cup (IF door \in {"web", "mobile"} THEN {"live"} ELSE {})
                         \cup (IF door = "web" THEN {"pending"} ELSE {})
    /\ asked = {}
    /\ staff \in (IF door = "web" THEN BOOLEAN ELSE {FALSE}) /\ fresh = staff
    /\ held \in [here : GuestRoles,
                 home : {"none"} \cup (IF door = "web" THEN GuestRoles ELSE {})]
    /\ open = TRUE /\ paid = TRUE /\ on \in {"here"} \cup (IF door = "web" THEN {"none"} ELSE {})
    /\ guest = [g \in Guests |-> Outside]
    /\ views = 0 /\ shown = 0 /\ unseen = 0 /\ knocks = 0

-----------------------------------------------------------------------------
(* What a handler may rely on, said of the state and not of the middleware:   *)
(* the credential is live, the account open, the role or the scope enough,    *)
(* the step-up recent, the trial running where something is created or run,   *)
(* and a form that changes something was rendered by this site.              *)

Creates == {"targetWrite", "drillWrite", "heartbeatWrite", "v1CreateDatabases", "v1CreateDrills"}
Tidies == {"targetTidy", "drillTidy", "heartbeatTidy"}
PublicRoutes == {"site", "signin", "webhooks", "ping", "mobileSignin"}
OwnLogin == {"stop", "sso", "admin"}

\* The key's owner asked for the scope, or for none that exists.
Grants(scope) == scope \in asked \/ (asked \cap Scopes = {} /\ scope # "account:delete")

\* A request with these rights in account x.
Entitled(x, r, verb, token) ==
    LET needs == Doors[door][r].needs
    IN  /\ r \in PublicRoutes \/ cred = "live"
        /\ door = "web" /\ verb # "GET" => token
        /\ r \in {"sso", "admin"} => staff
        /\ r = "admin" => fresh
        /\ r \notin PublicRoutes \cup OwnLogin \cup {"share"} => AccountOpen(x)
        /\ door \in {"web", "mobile"} /\ r \notin PublicRoutes \cup OwnLogin => held[x] # "none"
        /\ door = "web" /\ needs # "none" => Allowed(held[x], needs)
        /\ door = "v1" => Grants(needs)
        /\ r \in Creates => AccountPaid(x)

-----------------------------------------------------------------------------
(* The middleware: each either changes the request and lets it on, or ends it *)

isUnsafe(verb) == verb \in {"POST", "PUT", "PATCH", "DELETE"}
\* The prefixes main.go exempts: /webhooks/, /v1/, /ping/, /mobile/.
isExempt(d) == d \in {"hook", "v1", "mobile"}

\* Mutant: a session that still owes its second factor counts.
SessionHolds_Pending(d) == d = "web" /\ cred \in {"live", "pending"}
\* LoadUser, by Lookup: a session, and not one that still owes its second factor.
SessionHolds(d) == d = "web" /\ cred = "live"

\* LoadCurrentAccount: the account the session points to, of which GetMembership does not
\* ask whether it is deleted; when the user is no member of it any more, or that lookup
\* fails, an open account he belongs to.
Resolvable == {x \in Accounts : held[x] # "none" /\ (x = on \/ AccountOpen(x))}
Resolved(q) == IF q.user /\ Resolvable # {} THEN Resolvable ELSE {q.in}

\* What each middleware that looks something up puts into the context of request q.
LoadsUser(q) == [q EXCEPT !.user = SessionHolds(door), !.fresh = fresh]
LoadsAccount(q, x) ==
    [q EXCEPT !.in = x, !.account = q.user /\ held[x] # "none" /\ AccountOpen(x), !.paid = AccountPaid(x)]
LoadsMembership(q) ==
    IF q.account /\ held[q.in] # "none" THEN [q EXCEPT !.role = held[q.in]]
    ELSE [q EXCEPT !.account = FALSE]
LoadsKey(q) == [q EXCEPT !.scopes = normalizeScopes(asked)]
LoadsKeyAccount(q) == [q EXCEPT !.account = TRUE, !.paid = paid]
LoadsMember(q) == [q EXCEPT !.role = held[q.in]]
LoadsLink(q) == [q EXCEPT !.seen = views]

Loading == {"LoadUser", "LoadAccount", "LoadMembership", "key", "keyAccount", "member", "link"}
Through(m, q, x) ==
    CASE m = "LoadUser" -> LoadsUser(q)
      [] m = "LoadAccount" -> LoadsAccount(q, x)
      [] m = "LoadMembership" -> LoadsMembership(q)
      [] m = "key" -> LoadsKey(q)
      [] m = "keyAccount" -> LoadsKeyAccount(q)
      [] m = "member" -> LoadsMember(q)
      [] m = "link" -> LoadsLink(q)
      [] m \notin Loading -> q

\* When each lets the request on.  An account is read together with its trial, a key and a
\* token only while the account they belong to is open.
CSRFPasses(q) == isUnsafe(q.verb) /\ ~isExempt(door) => q.token
ActionPasses(q) == Allowed(q.role, Doors[door][q.route].needs)
StaffPasses == staff
StaffSSOPasses(q) == staff /\ q.fresh
TrialPasses(q) == q.paid
v1TrialPasses(q) == q.paid
KeyPasses == cred = "live" /\ open
ScopePasses(q) == Doors[door][q.route].needs \in q.scopes
TokenPasses == cred = "live" /\ open
LinkPasses == cred = "live"

Passes(m, q) ==
    /\ m = "csrf" => CSRFPasses(q)
    /\ m = "user" => q.user
    /\ m = "account" => q.account
    /\ m = "action" => ActionPasses(q)
    /\ m = "staff" => StaffPasses
    /\ m = "staffSSO" => StaffSSOPasses(q)
    /\ m = "trial" => TrialPasses(q)
    /\ m = "v1trial" => v1TrialPasses(q)
    /\ m = "key" => KeyPasses
    /\ m = "keyAccount" => open
    /\ m = "scope" => ScopePasses(q)
    /\ m = "token" => TokenPasses
    /\ m = "member" => held[q.in] # "none"
    /\ m = "link" => LinkPasses

Served(g) == guest[g].at > 0 /\ guest[g].out = "served"
Running(g) == guest[g].at > 0 /\ guest[g].out = "none"
At(g) == Chain(door, guest[g].route)[guest[g].at]

\* Requests leave no trace but view_count and the session's account, so a share link is
\* explored with several at once, and the web with one after the other.
Knock(g, r, verb, token) ==
    /\ guest[g].at = 0 /\ knocks < MaxKnocks /\ knocks' = knocks + 1
    /\ \/ door = "share"
       \/ /\ g = CHOOSE first \in Guests : TRUE
          /\ \A h \in Guests : guest[h].at = 0
          /\ door = "web" \/ knocks = 0
    /\ token => door = "web" /\ verb # "GET"
    /\ verb \in Doors[door][r].verbs
    /\ guest' = [guest EXCEPT ![g] = [Outside EXCEPT !.at = 1, !.route = r, !.verb = verb,
                                        !.token = token,
                                        !.entitled = {x \in Accounts : Entitled(x, r, verb, token)}]]
    /\ UNCHANGED <<rightVars, on, views, shown, unseen>>

Let(g, q) ==
    guest' = [guest EXCEPT ![g] = IF q.at = Len(Chain(door, q.route))
                                  THEN [q EXCEPT !.out = "served"]
                                  ELSE [q EXCEPT !.at = @ + 1]]

\* One middleware.  A 402 is the trial gate's refusal.  SetCurrentAccount writes the account
\* fallen back to into the session, and its error is dropped.
Middleware(g) ==
    /\ Running(g) /\ At(g) # "view"
    /\ \E x \in Resolved(guest[g]) :
          LET q == Through(At(g), guest[g], x)
          IN  /\ IF Passes(At(g), q) THEN Let(g, q)
                 ELSE guest' = [guest EXCEPT ![g].out =
                                   IF At(g) \in {"trial", "v1trial"} THEN "402" ELSE "refused"]
              /\ on' \in IF At(g) = "LoadAccount" /\ guest[g].user THEN {on, x} ELSE {on}
    /\ shown' = shown + (IF At(g) = "link" /\ cred = "live" THEN 1 ELSE 0)
    /\ UNCHANGED <<rightVars, views, unseen, knocks>>

\* view_count = view_count + 1.
Counts(g) == views + 1

\* Resolve's update, whose failure does not turn the visitor away.
View(g) ==
    /\ Running(g) /\ At(g) = "view" /\ Let(g, guest[g])
    /\ \/ views' = Counts(g) /\ UNCHANGED unseen
       \/ unseen' = unseen + 1 /\ UNCHANGED views
    /\ UNCHANGED <<rightVars, on, shown, knocks>>

\* The answer is out, or the client is gone.
Depart(g) ==
    /\ guest[g].at > 0 /\ guest' = [guest EXCEPT ![g] = Outside]
    /\ unseen' = unseen + (IF Running(g) /\ At(g) = "view" THEN 1 ELSE 0)
    /\ UNCHANGED <<rightVars, on, views, shown, knocks>>

-----------------------------------------------------------------------------
(* Sessions and mobile tokens are SignIn's.  A key and a link are handed out *)
(* here, before any request can carry them.                                 *)

Issued(scopes) ==
    /\ cred = "none" /\ knocks = 0 /\ cred' = "live" /\ asked' = scopes
    /\ UNCHANGED <<door, staff, fresh, held, open, paid, on, guest, views, shown, unseen,
                   knocks>>

\* The form's boxes, as they come; Create normalises them.
apiKeyCreate(scopes) == door = "v1" /\ Issued(scopes)
\* A link to a drill that succeeded.
shareCreate == door = "share" /\ Issued({})

-----------------------------------------------------------------------------
(* What is withdrawn meanwhile.  A door is explored with what its middleware *)
(* reads, while a request is on its way.                                    *)

Ends ==
    /\ cred = "live" /\ cred' = "ended"
    /\ UNCHANGED <<door, asked, staff, fresh, held, open, paid>>
\* Logout or expiry of a session or a token.
SignedOut == door \in {"web", "mobile"} /\ Ends
apiKeyRevoke == door = "v1" /\ Ends
\* Revoked, or past its expiry.
shareRevoke == door = "share" /\ Ends
Demote ==
    /\ door \in {"web", "mobile"} /\ held.here # "none"
    /\ \E less \in (GuestRoles \cup {"none"}) \ {held.here} :
          /\ less # "none" => roleMatrix[less] \subseteq roleMatrix[held.here]
          /\ held' = [held EXCEPT !.here = less]
    /\ UNCHANGED <<door, cred, asked, staff, fresh, open, paid>>
Close ==
    /\ door \in {"web", "v1", "mobile"} /\ open /\ open' = FALSE
    /\ UNCHANGED <<door, cred, asked, staff, fresh, held, paid>>
Lapse ==
    /\ door \in {"web", "v1"} /\ paid /\ paid' = FALSE
    /\ UNCHANGED <<door, cred, asked, staff, fresh, held, open>>
StepUpEnds ==
    /\ fresh /\ fresh' = FALSE
    /\ UNCHANGED <<door, cred, asked, staff, held, open, paid>>

Withdrawal ==
    /\ \A g \in Guests : guest[g].out = "none"
    /\ SignedOut \/ apiKeyRevoke \/ shareRevoke \/ Demote \/ Close \/ Lapse \/ StepUpEnds
    /\ UNCHANGED <<on, guest, views, shown, unseen, knocks>>

GatewayNext ==
    \/ \E g \in Guests, r \in DOMAIN Doors[door], verb \in {"GET", "POST", "DELETE"}, t \in BOOLEAN :
          Knock(g, r, verb, t)
    \/ \E g \in Guests : Middleware(g) \/ View(g) \/ Depart(g)
    \/ \E scopes \in SUBSET {"drills:read", "account:delete", "unknown"} : apiKeyCreate(scopes)
    \/ shareCreate
    \/ Withdrawal

GatewaySpec == GatewayInit /\ [][GatewayNext]_gateVars

-----------------------------------------------------------------------------
GatewayTypeOK ==
    /\ door \in DOMAIN Doors /\ cred \in {"none", "pending", "live", "ended"}
    /\ held \in [Accounts -> GuestRoles \cup {"none"}] /\ on \in Accounts \cup {"none"}
    /\ {staff, fresh, open, paid} \subseteq BOOLEAN
    /\ \A g \in Guests :
          /\ guest[g].at \in 0 .. 8 /\ guest[g].out \in {"none", "served", "402", "refused"}
          /\ guest[g].role \in GuestRoles \cup {"none"} /\ guest[g].scopes \subseteq Scopes
    /\ views \in Nat /\ shown \in Nat /\ unseen \in Nat /\ knocks \in 0 .. MaxKnocks

\* Whatever is withdrawn while a request is on its way, a handler is reached only by one
\* that had, when it arrived, the right to it in the very account it is served in: a right
\* withdrawn before is never honoured, a fallback to another account never takes a right
\* along, and no context a middleware fills outlives the request (LoadUser,
\* LoadCurrentAccount, v1Authenticate, mobileBearerAuth, Resolve, csrf.Middleware).
ServedEntitled == \A g \in Guests : Served(g) => guest[g].in \in guest[g].entitled

\* No request is turned away that still has every right in the account it was brought to:
\* with a lapsed trial reading, paying, leaving and erasing go on ("the account stays fully
\* readable", "erasure is never paywalled"); what the gate stops although nothing would be
\* created or run is only what Tidies names (requireUnlapsedTrial, v1RequireUnlapsedTrial).
NeverTurnedAway ==
    \A g \in Guests :
        LET q == guest[g]
        IN  q.out \in {"402", "refused"} =>
               \/ ~Entitled(q.in, q.route, q.verb, q.token)
               \/ q.out = "402" /\ q.route \in Tidies /\ ~AccountPaid(q.in)

\* However many visitors a share link has at once, its view_count misses only the visits
\* whose update failed or is still to come (sharelink.Resolve).
ViewsCounted ==
    views + unseen + Cardinality({g \in Guests : Running(g) /\ At(g) = "view"}) = shown

\* A request is served by rights it has in the account it is served in, one that has them is
\* not turned away, and views of a share link are counted (Router, v1Router, mobileRouter).
GatewaySafe == GatewayTypeOK /\ ServedEntitled /\ NeverTurnedAway /\ ViewsCounted

=============================================================================
