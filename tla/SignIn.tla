------------------------------ MODULE SignIn ------------------------------
(***************************************************************************)
(* How one user signs in: password, magic link or OAuth, on the web or from *)
(* the mobile app, the second factor, the sessions that result, and staff   *)
(* impersonation (internal/auth, internal/mobileauth, handlers/auth.go,     *)
(* mfa.go, magiclink.go, oauth.go, mobile.go, verification.go, admin.go).   *)
(*                                                                         *)
(* Every table is keyed by user, so one user is enough; "colleague" is a    *)
(* second staff user, there only to be impersonated.  A handler is one step *)
(* per statement that reads or writes a table; what it does in memory, the  *)
(* hashing and the pages are left out.  A mobile challenge is the pending    *)
(* session of the mobile app, and its bearer token the full one.            *)
(***************************************************************************)
EXTENDS Naturals, FiniteSets

CONSTANTS
    Calls,         \* requests that can run at the same time
    Sessions,      \* rows of sessions, mobile_mfa_challenges and mobile_auth_tokens
    Links,         \* rows of magic_link_tokens and email_verification_tokens
    Codes,         \* one batch of recovery codes
    MaxFails,      \* failures that lock an e-mail address
    MaxStep,       \* bound: the last TOTP time step
    MaxCalls       \* bound: requests that arrive

ASSUME SignInAssumption ==
    /\ IsFiniteSet(Calls) /\ Calls # {} /\ IsFiniteSet(Sessions)
    /\ MaxFails \in Nat \ {0} /\ MaxStep \in Nat \ {0} /\ MaxCalls \in Nat

Persons == {"user", "colleague"}
Kinds == {"web", "mobile"}
Steps == 0 .. MaxStep + 1

VARIABLES
    clock,         \* the current TOTP time step
    mfa,           \* mfa_enabled, with a TOTP secret
    last,          \* totp_last_used_counter
    unused,        \* recovery codes not used yet
    fails,         \* login failures since the last success, within the window
    link,          \* [Links -> "none", "magic", "verify", "gone"]
    verified,      \* email_verified
    session,
    call,          \* where each request is, and what it has read
    uses,          \* history: how often a code of a step was accepted since MFA was enabled
    reenrolled,    \* history: an enrolment overwrote one that had been completed
    ended,         \* history: full sessions made from each pending one
    crossed,       \* history: who was impersonated started an impersonation
    blind,         \* history: a throttle check could not be read
    calls

credentials == <<mfa, last, unused, uses, reenrolled>>
signVars == <<clock, credentials, fails, link, verified, session, call, ended, crossed, blind, calls>>

NoSession == [state |-> "none", kind |-> "web", user |-> "user", by |-> "nobody",
              factor |-> FALSE, off |-> FALSE, stepped |-> FALSE]
Resting == [at |-> "idle", kind |-> "web", mfa |-> FALSE, off |-> FALSE, row |-> "none",
            step |-> 0, as |-> "user", to |-> "user"]

\* MFA is off, or was enabled with the code of the step before.
SignInInit ==
    /\ clock = 1 /\ mfa \in BOOLEAN /\ last = 0 /\ unused = IF mfa THEN Codes ELSE {}
    /\ fails = 0 /\ link = [k \in Links |-> "none"] /\ verified = FALSE
    /\ session = [s \in Sessions |-> NoSession]
    /\ call = [p \in Calls |-> Resting]
    /\ uses = [c \in Steps |-> IF mfa /\ c = 0 THEN 1 ELSE 0] /\ reenrolled = FALSE
    /\ ended = [s \in Sessions |-> 0] /\ crossed = FALSE /\ blind = FALSE /\ calls = 0

-----------------------------------------------------------------------------
(* A request.  "off" remembers that MFA was off at some moment of it.        *)

Begin(p, c) ==
    /\ call[p].at = "idle" /\ calls < MaxCalls /\ calls' = calls + 1
    /\ call' = [call EXCEPT ![p] = [c EXCEPT !.off = ~mfa]]
To(p, at) == call' = [call EXCEPT ![p].at = at]
End(p) == call' = [call EXCEPT ![p] = Resting]

\* A refusal, a failed statement, a client that is gone.
Abandon(p) ==
    /\ call[p].at # "idle" /\ End(p)
    /\ UNCHANGED <<clock, credentials, fails, link, verified, session, ended, crossed, blind, calls>>

\* LoadUser: the session of the cookie, unless it is pending.
SignedIn(s) == session[s].state = "full" /\ session[s].kind = "web"
Acts(s) == SignedIn(s) /\ session[s].user = "user"

Row(kind, state, factor, off) ==
    [NoSession EXCEPT !.state = state, !.kind = kind, !.factor = factor, !.off = off]
\* Rows of a table are interchangeable: a new one is any that is free.
RowFree == \E s \in Sessions : session[s].state = "none"
NewRow == CHOOSE s \in Sessions : session[s].state = "none"
Gone(s) == Row(session[s].kind, "gone", FALSE, FALSE)

-----------------------------------------------------------------------------
(* The first factor *)

\* LoginThrottle.Record; the callers drop its error.
Record(succeeded) == fails' \in {fails, IF succeeded THEN 0 ELSE fails + 1}

\* LoginThrottle.Check: failures since the last success; while it holds a password is not
\* even looked at.
Locked == fails >= MaxFails

\* A form or JSON body with an e-mail address and a password.  A Check that cannot read its
\* table locks nobody out.
Credentials(p, kind) ==
    \E unread \in BOOLEAN :
      /\ unread \/ ~Locked
      /\ Begin(p, [Resting EXCEPT !.at = "checked", !.kind = kind]) /\ blind' = (blind \/ unread)
      /\ UNCHANGED <<clock, credentials, fails, link, verified, session, ended, crossed>>

WrongPassword(p) == call[p].at = "checked" /\ Record(FALSE) /\ End(p)
\* mfa_enabled comes with the row that holds the password hash.
RightPassword(p) ==
    /\ call[p].at = "checked" /\ Record(TRUE)
    /\ call' = [call EXCEPT ![p].at = "passed", ![p].mfa = mfa]

loginSubmit(p) ==
    \/ Credentials(p, "web")
    \/ /\ call[p].kind = "web" /\ (WrongPassword(p) \/ RightPassword(p))
       /\ UNCHANGED <<clock, credentials, link, verified, session, ended, crossed, blind, calls>>

mobileLogin(p) ==
    \/ Credentials(p, "mobile")
    \/ /\ call[p].kind = "mobile" /\ (WrongPassword(p) \/ RightPassword(p))
       /\ UNCHANGED <<clock, credentials, link, verified, session, ended, crossed, blind, calls>>

\* Failures age out of the window, oldest first.
AgeOut ==
    /\ fails > 0 /\ fails' = fails - 1
    /\ UNCHANGED <<clock, credentials, link, verified, session, call, ended, crossed, blind, calls>>

CreateMagicLinkToken(k) == link[k] = "none" /\ link' = [link EXCEPT ![k] = "magic"]
CreateVerificationToken(k) == link[k] = "none" /\ link' = [link EXCEPT ![k] = "verify"]

\* The token and its mail follow the answer, in the background.
magicLinkRequest(k) ==
    /\ CreateMagicLinkToken(k)
    /\ UNCHANGED <<clock, credentials, fails, verified, session, call, ended, crossed, blind, calls>>

verifyEmailResend(s, k) ==
    /\ Acts(s) /\ ~verified /\ CreateVerificationToken(k)
    /\ UNCHANGED <<clock, credentials, fails, verified, session, call, ended, crossed, blind, calls>>

ExpireLink(k) ==
    /\ link[k] \in {"magic", "verify"} /\ link' = [link EXCEPT ![k] = "gone"]
    /\ UNCHANGED <<clock, credentials, fails, verified, session, call, ended, crossed, blind, calls>>

\* Both lock the token's row, so a link is good for one request.
ConsumeMagicLink(k) == link[k] = "magic" /\ link' = [link EXCEPT ![k] = "gone"]
VerifyEmail(k) == link[k] = "verify" /\ link' = [link EXCEPT ![k] = "gone"] /\ verified' = TRUE

verifyEmail(k) ==
    /\ VerifyEmail(k)
    /\ UNCHANGED <<clock, credentials, fails, session, call, ended, crossed, blind, calls>>

\* Mutant: the link replaces the second factor too.
MFAOwed_Never == FALSE
\* "the link replaces the password, not the second factor".
MFAOwed == mfa

\* From a signed-out browser; the user is loaded once the link is spent.
magicLinkConsume(p, k) ==
    \/ /\ ConsumeMagicLink(k) /\ Begin(p, [Resting EXCEPT !.at = "linked"])
       /\ UNCHANGED <<clock, credentials, fails, verified, session, ended, crossed, blind>>
    \/ /\ call[p].at = "linked"
       /\ call' = [call EXCEPT ![p].at = "passed", ![p].mfa = MFAOwed]
       /\ UNCHANGED <<clock, credentials, fails, link, verified, session, ended, crossed, blind, calls>>

\* For a user who exists: findOrCreateOAuthUser reads the row.
oauthCallback(p) ==
    /\ Begin(p, [Resting EXCEPT !.at = "passed", !.mfa = mfa])
    /\ UNCHANGED <<clock, credentials, fails, link, verified, session, ended, crossed, blind>>

\* Store.create, and the insert of a mobile challenge or token: one new row.
Insert(row) == RowFree /\ session' = [session EXCEPT ![NewRow] = row]

\* The tail of every sign-in, by the MFA flag the request read ...
Create(p) ==
    /\ call[p].at = "passed" /\ ~call[p].mfa /\ End(p)
    /\ Insert(Row(call[p].kind, "full", FALSE, call[p].off))
    /\ UNCHANGED <<clock, credentials, fails, link, verified, ended, crossed, blind, calls>>

\* ... which first deletes the pending sessions of earlier attempts ...
ClearPending(p) ==
    /\ call[p].at = "passed" /\ call[p].mfa /\ call[p].kind = "web" /\ To(p, "cleared")
    /\ session' = [s \in Sessions |->
                     IF session[s].state = "pending" /\ session[s].kind = "web"
                     THEN Gone(s) ELSE session[s]]
    /\ UNCHANGED <<clock, credentials, fails, link, verified, ended, crossed, blind, calls>>

\* ... and then holds the new one pending,
CreatePending(p) ==
    /\ call[p].at = "cleared" /\ End(p) /\ Insert(Row("web", "pending", FALSE, FALSE))
    /\ UNCHANGED <<clock, credentials, fails, link, verified, ended, crossed, blind, calls>>

\* while earlier mobile challenges stay.
CreateChallenge(p) ==
    /\ call[p].at = "passed" /\ call[p].mfa /\ call[p].kind = "mobile"
    /\ End(p) /\ Insert(Row("mobile", "pending", FALSE, FALSE))
    /\ UNCHANGED <<clock, credentials, fails, link, verified, ended, crossed, blind, calls>>

-----------------------------------------------------------------------------
(* The second factor *)

\* VerifyTOTPWithCounter accepts the codes of three steps.
InWindow(c) == c \in Steps /\ clock <= c + 1 /\ c <= clock + 1

\* The counter, under the row's lock, must increase.
Unspent(c) == c > last

VerifyAndConsumeTOTP(c) ==
    /\ mfa /\ InWindow(c) /\ Unspent(c)
    /\ last' = c /\ uses' = [uses EXCEPT ![c] = @ + 1] /\ UNCHANGED <<mfa, unused, reenrolled>>

ConsumeRecoveryCode(r) ==
    r \in unused /\ unused' = unused \ {r} /\ UNCHANGED <<mfa, last, uses, reenrolled>>

SecondFactor(p) ==
    /\ call[p].at = "challenged" /\ To(p, "factored")
    /\ (\E c \in Steps : VerifyAndConsumeTOTP(c)) \/ (\E r \in Codes : ConsumeRecoveryCode(r))
    /\ UNCHANGED <<clock, fails, link, verified, session, ended, crossed, blind, calls>>

PendingMFAUser(s) == session[s].state = "pending" /\ session[s].kind = "web"

\* CompleteMFA reads the pending row without a lock, deletes it and creates the full one.
CompleteMFA(p) ==
    \/ /\ call[p].at = "factored" /\ PendingMFAUser(call[p].row) /\ To(p, "completing")
       /\ UNCHANGED <<session, ended>>
    \/ /\ call[p].at = "completing" /\ RowFree /\ End(p)
       /\ session' = [session EXCEPT ![call[p].row] = Gone(call[p].row),
                                     ![NewRow] = Row("web", "full", TRUE, FALSE)]
       /\ ended' = [ended EXCEPT ![call[p].row] = @ + 1]

mfaChallengeSubmit(p, s) ==
    \/ /\ PendingMFAUser(s) /\ Begin(p, [Resting EXCEPT !.at = "challenged", !.row = s])
       /\ UNCHANGED <<clock, credentials, fails, link, verified, session, ended, crossed, blind>>
    \/ /\ call[p].kind = "web" /\ call[p].row = s /\ CompleteMFA(p)
       /\ UNCHANGED <<clock, credentials, fails, link, verified, crossed, blind, calls>>

\* DELETE ... RETURNING.
ConsumeChallenge(s) == [session EXCEPT ![s] = Gone(s)]

issueMobileToken(p) ==
    /\ call[p].at = "factored" /\ End(p) /\ Insert(Row("mobile", "full", TRUE, FALSE))
    /\ ended' = [ended EXCEPT ![call[p].row] = @ + 1]

mobileMFAVerify(p, s) ==
    \/ /\ session[s].state = "pending" /\ session[s].kind = "mobile" /\ session' = ConsumeChallenge(s)
       /\ Begin(p, [Resting EXCEPT !.at = "challenged", !.row = s, !.kind = "mobile"])
       /\ UNCHANGED <<clock, credentials, fails, link, verified, ended, crossed, blind>>
    \/ /\ call[p].kind = "mobile" /\ call[p].row = s /\ issueMobileToken(p)
       /\ UNCHANGED <<clock, credentials, fails, link, verified, crossed, blind, calls>>

ReplaceRecoveryCodes == unused' = Codes /\ UNCHANGED <<mfa, last, uses, reenrolled>>

\* The confirming code is spent as well.
EnableMFA(c) ==
    /\ mfa' = TRUE /\ last' = c /\ UNCHANGED unused
    /\ uses' = IF mfa THEN uses ELSE [d \in Steps |-> IF d = c THEN 1 ELSE 0]
    /\ reenrolled' = (reenrolled \/ mfa)

\* The user as loaded has no MFA, and the code fits the proposed secret.
mfaEnable(p, s) ==
    \/ \E c \in Steps :
         /\ Acts(s) /\ ~mfa /\ InWindow(c)
         /\ Begin(p, [Resting EXCEPT !.at = "enrolling", !.step = c, !.row = s])
         /\ UNCHANGED <<clock, credentials, fails, link, verified, session, ended, crossed, blind>>
    \/ /\ call[p].row = s
       /\ \/ call[p].at = "enrolling" /\ ReplaceRecoveryCodes /\ To(p, "coded")
          \/ call[p].at = "coded" /\ EnableMFA(call[p].step) /\ End(p)
       /\ UNCHANGED <<clock, fails, link, verified, session, ended, crossed, blind, calls>>

DisableMFA == mfa' = FALSE /\ unused' = {} /\ UNCHANGED <<last, uses, reenrolled>>

mfaDisable(s) ==
    /\ Acts(s) /\ DisableMFA
    /\ call' = [p \in Calls |-> IF call[p].at = "idle" THEN call[p]
                                ELSE [call[p] EXCEPT !.off = TRUE]]
    /\ UNCHANGED <<clock, fails, link, verified, session, ended, crossed, blind, calls>>

-----------------------------------------------------------------------------
(* Sessions *)

Destroy(s) == session' = [session EXCEPT ![s] = Gone(s)]
Revoke(s) == session' = [session EXCEPT ![s] = Gone(s)]

logout(s) ==
    /\ session[s].state \in {"pending", "full"} /\ session[s].kind = "web" /\ Destroy(s)
    /\ UNCHANGED <<clock, credentials, fails, link, verified, call, ended, crossed, blind, calls>>

mobileLogout(s) ==
    /\ session[s].state = "full" /\ session[s].kind = "mobile" /\ Revoke(s)
    /\ UNCHANGED <<clock, credentials, fails, link, verified, call, ended, crossed, blind, calls>>

\* The idle or the absolute timeout, or a challenge's ten minutes.
Expire(s) ==
    /\ session[s].state \in {"pending", "full"} /\ session' = [session EXCEPT ![s] = Gone(s)]
    /\ UNCHANGED <<clock, credentials, fails, link, verified, call, ended, crossed, blind, calls>>

\* Both users are staff.  The step-up is the session's, whoever it acts as.
requireStaffSSO(s) == SignedIn(s) /\ session[s].stepped

\* From the staff console's own OAuth flow, for the user the session acts as.
completeStaffSSO(s) ==
    /\ SignedIn(s) /\ ~session[s].stepped
    /\ session' = [session EXCEPT ![s].stepped = TRUE]
    /\ UNCHANGED <<clock, credentials, fails, link, verified, call, ended, crossed, blind, calls>>

\* staffSSOFresh: an hour later.
StepUpAges(s) ==
    /\ session[s].stepped /\ session' = [session EXCEPT ![s].stepped = FALSE]
    /\ UNCHANGED <<clock, credentials, fails, link, verified, call, ended, crossed, blind, calls>>

\* impersonator_user_id IS NOT NULL.
Impersonated(s) == session[s].by # "nobody"

StartImpersonation(s, staff, target) ==
    /\ session[s].state = "full" /\ session[s].by = "nobody"
    /\ session' = [session EXCEPT ![s].user = target, ![s].by = staff]

\* As the staff user the request was loaded with.
adminImpersonate(p, s) ==
    \/ \E t \in Persons :
         /\ requireStaffSSO(s) /\ t # session[s].user
         /\ Begin(p, [Resting EXCEPT !.at = "starting", !.row = s, !.as = session[s].user, !.to = t])
         /\ UNCHANGED <<clock, credentials, fails, link, verified, session, ended, crossed, blind>>
    \/ /\ call[p].at = "starting" /\ call[p].row = s
       /\ StartImpersonation(s, call[p].as, call[p].to) /\ End(p)
       /\ crossed' = (crossed \/ call[p].as # "user")
       /\ UNCHANGED <<clock, credentials, fails, link, verified, ended, blind, calls>>

\* SET user_id = impersonator_user_id, impersonator_user_id = NULL.
StopImpersonation(s) == [session[s] EXCEPT !.user = session[s].by, !.by = "nobody"]

impersonateStop(s) ==
    /\ SignedIn(s) /\ Impersonated(s)
    /\ session' = [session EXCEPT ![s] = StopImpersonation(s)]
    /\ UNCHANGED <<clock, credentials, fails, link, verified, call, ended, crossed, blind, calls>>

NextStep ==
    /\ clock < MaxStep /\ clock' = clock + 1
    /\ UNCHANGED <<credentials, fails, link, verified, session, call, ended, crossed, blind, calls>>

-----------------------------------------------------------------------------
SignInNext ==
    \/ \E p \in Calls :
         \/ Abandon(p) \/ loginSubmit(p) \/ mobileLogin(p) \/ oauthCallback(p) \/ SecondFactor(p)
         \/ Create(p) \/ ClearPending(p) \/ CreatePending(p) \/ CreateChallenge(p)
         \/ \E k \in Links : magicLinkConsume(p, k)
         \/ \E s \in Sessions : \/ mfaChallengeSubmit(p, s) \/ mobileMFAVerify(p, s)
                                \/ mfaEnable(p, s) \/ adminImpersonate(p, s)
    \/ \E s \in Sessions : \/ mfaDisable(s) \/ logout(s) \/ mobileLogout(s) \/ Expire(s)
                           \/ completeStaffSSO(s) \/ StepUpAges(s) \/ impersonateStop(s)
                           \/ \E k \in Links : verifyEmailResend(s, k)
    \/ \E k \in Links : magicLinkRequest(k) \/ verifyEmail(k) \/ ExpireLink(k)
    \/ AgeOut \/ NextStep

SignInSpec == SignInInit /\ [][SignInNext]_signVars

-----------------------------------------------------------------------------
(* What the sign-in promises.                                                *)

\* Every column of the user, session, token and challenge tables, and every copy a
\* request keeps of one, holds a value the code can have written there.
SignInTypeOK ==
    /\ clock \in 1 .. MaxStep /\ mfa \in BOOLEAN /\ last \in Steps /\ unused \in SUBSET Codes
    /\ fails \in Nat /\ link \in [Links -> {"none", "magic", "verify", "gone"}]
    /\ verified \in BOOLEAN /\ reenrolled \in BOOLEAN /\ crossed \in BOOLEAN /\ blind \in BOOLEAN
    /\ calls \in Nat
    /\ session \in [Sessions -> [state : {"none", "pending", "full", "gone"}, kind : Kinds,
                                 user : Persons, by : Persons \cup {"nobody"},
                                 factor : BOOLEAN, off : BOOLEAN, stepped : BOOLEAN]]
    /\ call \in [Calls -> [at : {"idle", "checked", "passed", "linked", "cleared", "challenged",
                                 "factored", "completing", "enrolling", "coded", "starting"},
                           kind : Kinds, mfa : BOOLEAN, off : BOOLEAN,
                           row : Sessions \cup {"none"}, step : Steps, as : Persons, to : Persons]]
    /\ uses \in [Steps -> Nat] /\ ended \in [Sessions -> Nat]

\* Nobody gets past the second factor: a session or mobile token that authenticates was
\* paid for with a code, or MFA was off at some moment of the request that made it
\* (loginSubmit, magicLinkConsume, oauthCallback, mobileLogin read mfa_enabled early).
NoBypass == \A s \in Sessions : session[s].state = "full" => session[s].factor \/ session[s].off

\* A TOTP code is accepted once per enrolment, the enrolment itself included, by any two
\* of web and mobile (VerifyAndConsumeTOTP), unless a second enrolment that had read MFA
\* as off set the counter back (EnableMFA).
CodeOnce == reenrolled \/ \A c \in Steps : uses[c] <= 1

\* Failed passwords exceed the throttle's limit by no more than the other requests that
\* were checked together with the last one let through (Check and Record are apart),
\* unless a check could not read its table, which lets the request through.
ThrottleOvershoot ==
    blind \/ fails + Cardinality({p \in Calls : call[p].at = "checked"}) < MaxFails + Cardinality(Calls)

\* A mobile challenge yields one token, whatever the codes sent with it; on the web one
\* pending session may yield as many as requests run at once, each with its own code
\* (ConsumeChallenge deletes what CompleteMFA only reads).
ChallengeOnce ==
    \A s \in Sessions : ended[s] <= IF session[s].kind = "mobile" THEN 1 ELSE Cardinality(Calls)

\* An impersonation ends where it began: a session nobody impersonates with is its own
\* user's, however starts and stops interleave, unless a request that was loaded in the
\* middle of one, as a target who is staff himself, starts another after it has stopped
\* (StartImpersonation takes the staff user from the request's context).
ReturnsToSelf ==
    crossed \/ \A s \in Sessions : session[s].user = "user" <=> session[s].by = "nobody"

\* Whichever way a user signs in, and several at once (internal/auth, mobileauth): no full session
\* without the second factor, a code or challenge is good once, failures are throttled, and an
\* impersonation ends where it began.
SignInSafe ==
    /\ SignInTypeOK /\ NoBypass /\ CodeOnce /\ ThrottleOvershoot /\ ChallengeOnce
    /\ ReturnsToSelf

=============================================================================
