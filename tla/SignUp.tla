------------------------------- MODULE SignUp -------------------------------
(***************************************************************************)
(* How a user comes to be: the sign-up form and the first OAuth sign-in      *)
(* (handlers/auth.go, oauth.go), CreatePersonalAccount and the billing        *)
(* customer (account/store.go, billing).                                    *)
(*                                                                         *)
(* Requests for one e-mail address race: a form sent twice, a form and an    *)
(* OAuth sign-in in two tabs, a sign-in of a user who is still being made.    *)
(* One step per statement; any may fail, and the ones the code calls best     *)
(* effort fail without ending the request.  Names, passwords, mails and       *)
(* analytics are left out.                                                  *)
(***************************************************************************)
EXTENDS Naturals, FiniteSets

CONSTANTS
    Tabs,          \* requests that can run at the same time
    MaxTries       \* bound: requests that arrive

ASSUME SignUpAssumption == IsFiniteSet(Tabs) /\ MaxTries \in Nat

VARIABLES
    known,         \* the row of users: "none", or how it was made ("form", "oauth")
    proven,        \* email_verified
    staffListed,  \* the address is in STAFF_EMAILS
    promoted,      \* is_staff
    homes,         \* accounts whose owner is the user
    customer,      \* stripe_customer_id of the account: 0 or its number
    customers,     \* external: customers made at Stripe
    verifyLinks,   \* verification tokens that were made
    tab,           \* where each request is
    landed,        \* sessions, each with or without a current account
    halted,        \* history: a sign-up ended between its user and its account
    unsaved,       \* history: customers whose id was not saved
    demotable,     \* history: a promotion failed
    tries

signUpVars == <<known, proven, staffListed, promoted, homes, customer, customers, verifyLinks,
                tab, landed, halted, unsaved, demotable, tries>>

Away == [at |-> "away", kind |-> "form", made |-> FALSE, home |-> FALSE, early |-> FALSE]

SignUpInit ==
    /\ known = "none" /\ proven = FALSE /\ staffListed \in BOOLEAN /\ promoted = FALSE
    /\ homes = 0 /\ customer = 0 /\ customers = 0 /\ verifyLinks = 0
    /\ tab = [t \in Tabs |-> Away] /\ landed = {} /\ halted = FALSE /\ unsaved = 0
    /\ demotable = FALSE /\ tries = 0

\* A request that made the user and has not made the account yet.
Making == {t \in Tabs : tab[t].made /\ tab[t].at \in {"staff", "home"}}
Stands(t, at, kind) == tab[t].at = at /\ tab[t].kind = kind
Onward(t, at) == tab' = [tab EXCEPT ![t].at = at]

-----------------------------------------------------------------------------
(* The flag self_serve_signup is read once: a form is refused by it, an OAuth *)
(* sign-in only when there is no such user.                                 *)

signupSubmit(t) ==
    /\ tab[t].at = "away" /\ tries < MaxTries /\ tries' = tries + 1
    /\ tab' = [tab EXCEPT ![t] = [Away EXCEPT !.at = "insert"]]
    /\ UNCHANGED <<known, proven, staffListed, promoted, homes, customer, customers, verifyLinks,
                   landed, halted, unsaved, demotable>>

oauthSignIn(t) ==
    /\ tab[t].at = "away" /\ tries < MaxTries /\ tries' = tries + 1
    /\ tab' = [tab EXCEPT ![t] = [Away EXCEPT !.at = "find", !.kind = "oauth"]]
    /\ UNCHANGED <<known, proven, staffListed, promoted, homes, customer, customers, verifyLinks,
                   landed, halted, unsaved, demotable>>

\* An existing user is signed in with the account pickDefaultAccount finds.
findOrCreateOAuthUser(t) ==
    /\ Stands(t, "find", "oauth") /\ Onward(t, IF known = "none" THEN "insert" ELSE "pick")
    /\ UNCHANGED <<known, proven, staffListed, promoted, homes, customer, customers, verifyLinks,
                   landed, halted, unsaved, demotable, tries>>

\* Mutant: the unique index on the address is missing.
Untaken_Always == TRUE
Untaken == known = "none"

\* 409 for the form and 500 for OAuth when the address is taken by now.  A user from an
\* OAuth sign-in starts verified.
insertUser(t) ==
    /\ tab[t].at = "insert" /\ Untaken
    /\ known' = tab[t].kind /\ proven' = (tab[t].kind = "oauth")
    /\ tab' = [tab EXCEPT ![t].at = "staff", ![t].made = TRUE]
    /\ UNCHANGED <<staffListed, promoted, homes, customer, customers, verifyLinks, landed, halted,
                   unsaved, demotable, tries>>

\* h.staffEmails[email].
Promotes(t) == staffListed

\* Best effort.
PromoteStaff(t) ==
    /\ tab[t].at = "staff" /\ Onward(t, "home")
    /\ \/ promoted' = (promoted \/ Promotes(t)) /\ UNCHANGED demotable
       \/ Promotes(t) /\ demotable' = TRUE /\ UNCHANGED promoted
    /\ UNCHANGED <<known, proven, staffListed, homes, customer, customers, verifyLinks, landed, halted, unsaved, tries>>

\* The account and the owner's membership, in one transaction.
CreatePersonalAccount(t) ==
    /\ tab[t].at = "home" /\ homes' = homes + 1
    /\ tab' = [tab EXCEPT ![t].at = "stripe", ![t].home = TRUE]
    /\ UNCHANGED <<known, proven, staffListed, promoted, customer, customers, verifyLinks, landed, halted, unsaved, demotable, tries>>

\* Best effort, and not at all without billing.
CreateCustomer(t) ==
    /\ tab[t].at = "stripe"
    /\ \/ customers' = customers + 1 /\ Onward(t, "saveCustomer")
       \/ Onward(t, IF tab[t].kind = "form" THEN "session" ELSE "pick") /\ UNCHANGED customers
    /\ UNCHANGED <<known, proven, staffListed, promoted, homes, customer, verifyLinks, landed, halted, unsaved, demotable, tries>>

NewCustomer == customers

SetStripeCustomerID(t) ==
    /\ tab[t].at = "saveCustomer" /\ Onward(t, IF tab[t].kind = "form" THEN "session" ELSE "pick")
    /\ \/ customer' = NewCustomer /\ UNCHANGED unsaved
       \/ unsaved' = unsaved + 1 /\ UNCHANGED customer
    /\ UNCHANGED <<known, proven, staffListed, promoted, homes, customers, verifyLinks, landed, halted, demotable, tries>>

\* ListAccountsForUser; when it finds none the session has no account.
Picked == homes > 0

\* The list may also fail to be read.
pickDefaultAccount(t) ==
    /\ Stands(t, "pick", "oauth")
    /\ \E unread \in BOOLEAN :
          tab' = [tab EXCEPT ![t].at = "session", ![t].home = Picked /\ ~unread, ![t].early = unread \/ Making # {}]
    /\ UNCHANGED <<known, proven, staffListed, promoted, homes, customer, customers, verifyLinks, landed, halted, unsaved, demotable, tries>>

CreateSession(t) ==
    /\ tab[t].at = "session" /\ Onward(t, IF tab[t].kind = "form" THEN "mail" ELSE "done")
    /\ landed' = landed \cup {[home |-> tab[t].home, early |-> tab[t].early]}
    /\ UNCHANGED <<known, proven, staffListed, promoted, homes, customer, customers, verifyLinks, halted, unsaved, demotable, tries>>

\* Best effort; the user can ask again.
VerificationMail(t) ==
    /\ Stands(t, "mail", "form") /\ Onward(t, "done") /\ verifyLinks' \in {verifyLinks, verifyLinks + 1}
    /\ UNCHANGED <<known, proven, staffListed, promoted, homes, customer, customers, landed, halted, unsaved, demotable, tries>>

\* The answer, whichever: refused, a failed statement, the process gone.
Answered(t) ==
    /\ tab[t].at # "away" /\ tab' = [tab EXCEPT ![t] = Away]
    /\ halted' = (halted \/ t \in Making)
    /\ unsaved' = unsaved + (IF tab[t].at = "saveCustomer" THEN 1 ELSE 0)
    /\ demotable' = (demotable \/ (staffListed /\ tab[t].at = "staff"))
    /\ UNCHANGED <<known, proven, staffListed, promoted, homes, customer, customers, verifyLinks, landed, tries>>

SignUpNext ==
    \E t \in Tabs :
      \/ signupSubmit(t) \/ oauthSignIn(t) \/ findOrCreateOAuthUser(t) \/ insertUser(t)
      \/ PromoteStaff(t) \/ CreatePersonalAccount(t) \/ CreateCustomer(t) \/ SetStripeCustomerID(t)
      \/ pickDefaultAccount(t) \/ CreateSession(t) \/ VerificationMail(t) \/ Answered(t)

SignUpSpec == SignUpInit /\ [][SignUpNext]_signUpVars

-----------------------------------------------------------------------------
SignUpTypeOK ==
    /\ known \in {"none", "form", "oauth"} /\ homes \in Nat /\ customer \in 0 .. customers
    /\ {proven, staffListed, promoted, halted, demotable} \subseteq BOOLEAN
    /\ customers \in Nat /\ unsaved \in Nat /\ verifyLinks \in Nat /\ tries \in 0 .. MaxTries
    /\ \A t \in Tabs : tab[t].kind \in {"form", "oauth"} /\ tab[t].made \in BOOLEAN

\* However many requests of one address race, one of them makes the user and its account:
\* there is never a second account or customer, and a user without an account is one whose
\* sign-up is still at work or ended between the two (insertUser, CreatePersonalAccount).
OneHome ==
    /\ homes <= 1 /\ customers <= 1 /\ Cardinality(Making) <= 1
    /\ known # "none" => homes = 1 \/ Making # {} \/ halted

\* A session without an account to land on goes back to such a sign-up, or to a list of
\* accounts that was read too early or not at all (pickDefaultAccount).
LandsAtHome == \A s \in landed : s.home \/ s.early \/ halted

\* Nothing the sign-up calls best effort is lost unless that very step failed: a customer at
\* Stripe is the account's, and an address of STAFF_EMAILS has a staff user.
BestEffortKept ==
    /\ (\A t \in Tabs : tab[t].at # "saveCustomer") => customers = unsaved + (IF customer = 0 THEN 0 ELSE 1)
    /\ homes > 0 /\ staffListed => promoted \/ demotable

\* Sign-ups of one address that race and fail anywhere leave one account, sessions that land on
\* it, and nothing best effort undone that did not itself fail (signupSubmit,
\* findOrCreateOAuthUser).
SignUpSafe == SignUpTypeOK /\ OneHome /\ LandsAtHome /\ BestEffortKept

=============================================================================
