----------------------------- MODULE OAuthFlow -----------------------------
(***************************************************************************)
(* Signing in with an identity provider, and the staff step-up that goes the  *)
(* same way (handlers/oauth.go, staff_sso.go, internal/oauth): the cookies of  *)
(* a browser with several tabs, the provider, and the callback.              *)
(*                                                                         *)
(* A flow is one pair of state and PKCE verifier.  A browser sends its         *)
(* cookies when a callback is opened and stores the new ones when the answer   *)
(* comes; in between the handler talks to the provider.  A callback address    *)
(* may be opened twice, late, or in a browser that did not start it; one        *)
(* browser is modelled, and of the others the flows they start.  The two        *)
(* addresses stand for any two people, one of them on the staff; what follows   *)
(* for the user's rows is SignUp's and SignIn's.                             *)
(***************************************************************************)
EXTENDS Naturals, FiniteSets

CONSTANTS
    Flows,         \* bound: flows that are started, numbers
    Hops,          \* callbacks that can run at the same time
    MaxHops        \* bound: callbacks that are opened

ASSUME OAuthAssumption ==
    Flows \subseteq Nat \ {0} /\ IsFiniteSet(Flows) /\ MaxHops \in Nat

Emails == {"staff", "other"}

VARIABLES
    jar,           \* the cookies so_oauth_state, so_staff_oauth_state and the marker of the browser
    flow,
    who,           \* whom its session belongs to, or "nobody"
    onStaff,       \* is_staff of the staff user
    stepped,       \* the flow that verified the session, or 0
    hop,           \* where each callback is
    cameBy,        \* history: the flow it was signed in by, or 0
    dropped,       \* history: flows whose state the browser gave up for another sign-in, an answer, its age
    puzzled,       \* history: callbacks refused though the browser started them, with nothing to explain it
    hops

oauthVars == <<jar, flow, who, onStaff, stepped, hop, cameBy, dropped, puzzled, hops>>

NoFlow == [at |-> "unused", kind |-> "social", here |-> TRUE, email |-> "other", ok |-> FALSE]
NoHop == [at |-> "none", flow |-> 0, cookie |-> 0, staffFlow |-> FALSE, user |-> "nobody"]
EmptyJar == [social |-> 0, staff |-> 0, marker |-> FALSE]

OAuthInit ==
    /\ jar = EmptyJar /\ flow = [f \in Flows |-> NoFlow]
    /\ who \in {"nobody", "staff"} /\ onStaff = TRUE
    /\ stepped = 0 /\ hop = [h \in Hops |-> NoHop]
    /\ cameBy = 0 /\ dropped = {} /\ puzzled = {} /\ hops = 0

-----------------------------------------------------------------------------
(* Starting *)

\* Flows are taken in order: their names carry nothing.
NextFlow(f) == flow[f].at = "unused" /\ \A g \in Flows : g < f => flow[g].at # "unused"
Started(f, kind, here) == flow' = [flow EXCEPT ![f] = [NoFlow EXCEPT !.at = "consent", !.kind = kind, !.here = here]]

oauthStart(f) ==
    /\ NextFlow(f) /\ Started(f, "social", TRUE)
    /\ jar' = [jar EXCEPT !.social = f]
    /\ dropped' = dropped \cup ({jar.social} \ {0})
    /\ UNCHANGED <<who, onStaff, stepped, hop, cameBy, puzzled, hops>>

\* Some other browser, of whichever kind.
StartElsewhere(f, kind) ==
    /\ NextFlow(f) /\ Started(f, kind, FALSE)
    /\ UNCHANGED <<jar, who, onStaff, stepped, hop, cameBy, dropped, puzzled, hops>>

\* The step-up's own cookie, and the marker.
staffOAuthStateCookie(f) == [jar EXCEPT !.staff = f, !.marker = TRUE]

adminSSOStart(f) ==
    /\ who = "staff" /\ onStaff /\ NextFlow(f) /\ Started(f, "staff", TRUE)
    /\ jar' = staffOAuthStateCookie(f)
    /\ dropped' = dropped \cup ({jar.staff} \ {0})
    /\ UNCHANGED <<who, onStaff, stepped, hop, cameBy, puzzled, hops>>

\* MaxAge of either cookie; the marker is as old as the step-up's state.
CookiesAge ==
    /\ \/ jar.social # 0 /\ jar' = [jar EXCEPT !.social = 0]
       \/ jar.marker /\ jar' = [jar EXCEPT !.staff = 0, !.marker = FALSE]
    /\ dropped' = dropped \cup ({jar.social, jar.staff} \ {0})
    /\ UNCHANGED <<flow, who, onStaff, stepped, hop, cameBy, puzzled, hops>>

-----------------------------------------------------------------------------
(* The provider *)

\* Consent, with whichever of the person's identities and whether its address is verified;
\* or a refusal, which comes back without a code.
AuthCodeURL(f, e, ok) ==
    /\ flow[f].at = "consent" /\ flow' = [flow EXCEPT ![f].at = "code", ![f].email = e, ![f].ok = ok]
    /\ UNCHANGED <<jar, who, onStaff, stepped, hop, cameBy, dropped, puzzled, hops>>
Deny(f) ==
    /\ flow[f].at = "consent" /\ flow' = [flow EXCEPT ![f].at = "denied"]
    /\ UNCHANGED <<jar, who, onStaff, stepped, hop, cameBy, dropped, puzzled, hops>>

\* A code is good once, and for the verifier whose challenge came with the state.
Redeems(f, verifier) == flow[f].at = "code" /\ verifier = f

-----------------------------------------------------------------------------
(* The callback *)

\* The request leaves with the cookies and the user of this moment.
OpenCallback(h, f) ==
    /\ hop[h].at = "none" /\ h = (CHOOSE g \in Hops : hop[g].at = "none") /\ hops < MaxHops /\ hops' = hops + 1
    /\ flow[f].at \in {"code", "denied", "spent"}
    /\ hop' = [hop EXCEPT ![h] = [at |-> "state", flow |-> f, user |-> who,
                  staffFlow |-> jar.marker,
                  cookie |-> IF jar.marker THEN jar.staff ELSE jar.social]]
    /\ UNCHANGED <<jar, flow, who, onStaff, stepped, cameBy, dropped, puzzled>>

\* The state of the address and the one of the cookie.
StateMatches(h) == hop[h].cookie = hop[h].flow

\* A refusal of a browser's own flow is explained by a state it gave up, or by an open step-up.
RefuseState(h) ==
    /\ hop[h].at = "state" /\ ~StateMatches(h) /\ hop' = [hop EXCEPT ![h] = NoHop]
    /\ puzzled' = puzzled \cup
          {f \in {hop[h].flow} : flow[f].here /\ f \notin dropped
              /\ ~(flow[f].kind = "social" /\ hop[h].staffFlow)}
    /\ UNCHANGED <<jar, flow, who, onStaff, stepped, cameBy, dropped, hops>>

AcceptState(h) ==
    /\ hop[h].at = "state" /\ StateMatches(h)
    /\ hop' = [hop EXCEPT ![h].at = IF flow[hop[h].flow].at = "denied" THEN "sorry" ELSE "exchange"]
    /\ UNCHANGED <<jar, flow, who, onStaff, stepped, cameBy, dropped, puzzled, hops>>

\* id.Verified.
Trusted(f) == flow[f].ok

\* The token and the address; an answer that is lost on the way may have spent the code.
Identity(h) ==
    /\ hop[h].at = "exchange"
    /\ LET f == hop[h].flow
           reached == Redeems(f, hop[h].cookie)
       IN  \/ /\ reached /\ flow' = [flow EXCEPT ![f].at = "spent"]
              /\ hop' = [hop EXCEPT ![h].at = IF Trusted(f) THEN "finish" ELSE "sorry"]
           \/ /\ flow' \in {flow, IF reached THEN [flow EXCEPT ![f].at = "spent"] ELSE flow}
              /\ hop' = [hop EXCEPT ![h].at = "sorry"]
    /\ UNCHANGED <<jar, who, onStaff, stepped, cameBy, dropped, puzzled, hops>>

\* Every answer from here on deletes the state cookie, whichever flow it holds by now.
Cleared(h) ==
    IF hop[h].staffFlow THEN [jar EXCEPT !.staff = 0] ELSE [jar EXCEPT !.social = 0]
GivesUp(h) == {IF hop[h].staffFlow THEN jar.staff ELSE jar.social} \ {0}

\* An error page: the provider's, the sign-up's or the session's error.
Apologise(h) ==
    /\ hop[h].at = "sorry" \/ (hop[h].at = "finish" /\ ~hop[h].staffFlow)
    /\ hop' = [hop EXCEPT ![h] = NoHop]
    /\ jar' = Cleared(h) /\ dropped' = dropped \cup GivesUp(h)
    /\ UNCHANGED <<flow, who, onStaff, stepped, cameBy, puzzled, hops>>

\* The session's own user, on the allowlist, and on the staff at this moment.
StaffIdentity(h) == hop[h].user = "staff" /\ flow[hop[h].flow].email = hop[h].user /\ onStaff

\* The browser's session is another one: a callback under way still has the old.
Forgotten == [h \in Hops |-> [hop[h] EXCEPT !.user = IF @ = "nobody" THEN @ ELSE "gone"]]

\* MarkStaffVerified writes to the session of the request, if it is still there; it may fail.
staffStepUp(h) ==
    /\ hop[h].at = "finish" /\ hop[h].staffFlow /\ hop' = [hop EXCEPT ![h] = NoHop]
    /\ jar' = [Cleared(h) EXCEPT !.marker = FALSE]
    /\ dropped' = dropped \cup GivesUp(h)
    /\ stepped' \in {stepped, IF StaffIdentity(h) THEN hop[h].flow ELSE stepped}
    /\ UNCHANGED <<flow, who, onStaff, cameBy, puzzled, hops>>

\* Mutant: a step-up whose session is gone goes on as a sign-in.
SocialCallback_NoUser(h) == ~hop[h].staffFlow \/ hop[h].user = "nobody"
\* The marker sends a callback to staffStepUp, which never returns here.
SocialCallback(h) == ~hop[h].staffFlow

\* Who is signed in already stays so.
oauthSignsIn(h) ==
    /\ hop[h].at = "finish" /\ SocialCallback(h)
    /\ jar' = Cleared(h) /\ dropped' = dropped \cup GivesUp(h)
    /\ IF hop[h].user # "nobody"
       THEN hop' = [hop EXCEPT ![h] = NoHop] /\ UNCHANGED <<who, cameBy, stepped>>
       ELSE /\ who' = flow[hop[h].flow].email /\ cameBy' = hop[h].flow /\ stepped' = 0
            /\ hop' = [Forgotten EXCEPT ![h] = NoHop]
    /\ UNCHANGED <<flow, onStaff, puzzled, hops>>

\* The session ends; the staff user is demoted.
SignsOut ==
    /\ who # "nobody" /\ who' = "nobody" /\ stepped' = 0 /\ cameBy' = 0 /\ hop' = Forgotten
    /\ UNCHANGED <<jar, flow, onStaff, dropped, puzzled, hops>>
DemoteStaff ==
    /\ onStaff /\ onStaff' = FALSE
    /\ UNCHANGED <<jar, flow, who, stepped, hop, cameBy, dropped, puzzled, hops>>

OAuthNext ==
    \/ \E f \in Flows : \/ oauthStart(f) \/ adminSSOStart(f) \/ Deny(f)
                        \/ StartElsewhere(f, "social") \/ StartElsewhere(f, "staff")
    \/ \E f \in Flows, e \in Emails, ok \in BOOLEAN : AuthCodeURL(f, e, ok)
    \/ \E h \in Hops, f \in Flows : OpenCallback(h, f)
    \/ \E h \in Hops : \/ RefuseState(h) \/ AcceptState(h) \/ Identity(h) \/ Apologise(h)
                       \/ staffStepUp(h) \/ oauthSignsIn(h)
    \/ CookiesAge \/ SignsOut \/ DemoteStaff

OAuthSpec == OAuthInit /\ [][OAuthNext]_oauthVars

-----------------------------------------------------------------------------
OAuthTypeOK ==
    /\ {jar.social, jar.staff, stepped, cameBy} \subseteq Flows \cup {0}
    /\ {jar.marker, onStaff} \subseteq BOOLEAN /\ who \in Emails \cup {"nobody"}
    /\ \A f \in Flows : flow[f].at \in {"unused", "consent", "code", "denied", "spent"}
                           /\ flow[f].kind \in {"social", "staff"}
    /\ \A h \in Hops : hop[h].at \in {"none", "state", "exchange", "sorry", "finish"}
                          /\ hop[h].cookie \in Flows \cup {0}
                          /\ hop[h].user \in Emails \cup {"nobody", "gone"}
    /\ puzzled \subseteq Flows /\ hops \in 0 .. MaxHops

\* The browser is signed in only by a flow it started itself, as the person who consented,
\* and never by a step-up, whatever callback addresses are opened in it (oauthCallback).
OwnFlow ==
    cameBy # 0 => LET f == flow[cameBy]
                  IN  f.here /\ f.kind = "social" /\ f.email = who /\ f.ok

\* A session is stepped up only by a step-up the browser started, and it is the session of
\* the staff user who proved the identity (staffStepUp).
StepUpOwned ==
    stepped # 0 => LET f == flow[stepped]
                   IN  f.here /\ f.kind = "staff" /\ f.email = "staff" /\ f.ok /\ who = "staff"

\* Tabs of one browser do not cost one another their state but by a second flow of the same
\* kind, an answer or age; what remains is that an open step-up turns a sign-in away, since
\* the callback looks at the marker and not at the state ("Distinct names so two concurrent
\* tabs ... cannot overwrite each other's state").
TabsApart == puzzled = {}

\* Whatever callbacks are opened in a browser and in which order: it is signed in and stepped up
\* only by flows of its own, and tabs do not cost one another their state (oauthCallback,
\* completeStaffSSO).
OAuthSafe == OAuthTypeOK /\ OwnFlow /\ StepUpOwned /\ TabsApart

=============================================================================
