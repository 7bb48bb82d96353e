---------------------------- MODULE AccessProofs ----------------------------
(****************************************************************************)
(* Proofs about how people get into an account: the sign-up (SignUp), the   *)
(* members, invitations and teams (Membership), the OAuth flows             *)
(* (OAuthFlow), the sessions, second factors and mobile tokens (SignIn) and *)
(* the middleware on the way to a handler (Gateway). Each part has an       *)
(* inductive invariant that says what a request at a step already holds.    *)
(****************************************************************************)
EXTENDS SignUp, Membership, OAuthFlow, SignIn, Gateway, FiniteSetTheorems, TLAPS

-----------------------------------------------------------------------------
(* Sign-up.  The unique index on the address admits one insert, so one        *)
(* request is the maker of the user; the account, the customer and the staff  *)
(* flag are read off where that request is.                                 *)

TabRecords ==
    [at : {"away", "find", "insert", "staff", "home", "stripe", "saveCustomer", "pick",
           "session", "mail", "done"},
     kind : {"form", "oauth"}, made : BOOLEAN, home : BOOLEAN, early : BOOLEAN]

SignUpTypes ==
    /\ known \in {"none", "form", "oauth"} /\ homes \in Nat /\ customer \in 0 .. customers
    /\ proven \in BOOLEAN /\ staffListed \in BOOLEAN /\ promoted \in BOOLEAN
    /\ halted \in BOOLEAN /\ demotable \in BOOLEAN
    /\ customers \in Nat /\ unsaved \in Nat /\ verifyLinks \in Nat /\ tries \in 0 .. MaxTries
    /\ tab \in [Tabs -> TabRecords]

\* One request is past the insert, and only after it is there a user.
OneMaker ==
    /\ \A t \in Tabs : tab[t].at \in {"staff", "home", "stripe", "saveCustomer"} => tab[t].made
    /\ \A t \in Tabs : tab[t].made \/ tab[t].at = "pick" => known # "none"
    /\ \A t, u \in Tabs : tab[t].made /\ tab[u].made => t = u

\* The account is there once its maker has left "home".
HomeOfMaker ==
    /\ homes \in {0, 1} /\ (known = "none" => homes = 0)
    /\ \A t \in Tabs : tab[t].at \in {"staff", "home"} => homes = 0
    /\ known # "none" => homes = 1 \/ halted \/ \E t \in Tabs : tab[t].made /\ tab[t].at \in {"staff", "home"}

\* So is the customer once he has left "stripe", and its id after "saveCustomer".
CustomerOfMaker ==
    /\ customers \in {0, 1} /\ (known = "none" => customers = 0)
    /\ \A t \in Tabs : tab[t].at \in {"staff", "home", "stripe"} => customers = 0
    /\ \A t \in Tabs : tab[t].at = "saveCustomer" => customers = 1 /\ customer = 0 /\ unsaved = 0
    /\ (\A t \in Tabs : tab[t].at # "saveCustomer") =>
          customers = unsaved + (IF customer = 0 THEN 0 ELSE 1)

StaffKept ==
    /\ \A t \in Tabs : tab[t].at = "home" /\ staffListed => promoted \/ demotable
    /\ homes > 0 /\ staffListed => promoted \/ demotable

LandsKept ==
    /\ \A t \in Tabs : tab[t].at \in {"stripe", "saveCustomer"} => tab[t].home
    /\ \A t \in Tabs : tab[t].at = "session" => tab[t].home \/ tab[t].early \/ halted
    /\ \A s \in landed : s.home \/ s.early \/ halted

SignUpInv ==
    SignUpTypes /\ OneMaker /\ HomeOfMaker /\ CustomerOfMaker /\ StaffKept /\ LandsKept

\* The other requests stay where they are.
Moved(t) == /\ tab' \in [Tabs -> TabRecords] /\ \A u \in Tabs : u # t => tab'[u] = tab[u]
            /\ tab'[t].kind \in {"form", "oauth"}

\* A maker past the insert, an account once the maker has left "home": each request keeps what
\* the others rely on.
LEMMA SignUpStep ==
    ASSUME SignUpInv, [SignUpNext]_signUpVars
    PROVE  SignUpInv'
<1> USE SignUpAssumption DEF SignUpInv
<1>0. tab \in [Tabs -> TabRecords]
  BY DEF SignUpTypes
<1>1. ASSUME NEW t \in Tabs, signupSubmit(t) PROVE SignUpInv'
  <2>1. /\ Moved(t) /\ tab'[t].at = "insert" /\ ~tab'[t].made
    BY <1>0, <1>1 DEF signupSubmit, Away, Moved, TabRecords
  <2>2. SignUpTypes'
    BY <1>1, <2>1 DEF signupSubmit, SignUpTypes, Moved
  <2>3. OneMaker'
    BY <1>1, <2>1 DEF signupSubmit, OneMaker, Moved, SignUpTypes
  <2>4. HomeOfMaker'
    BY <1>1, <2>1 DEF signupSubmit, HomeOfMaker, Moved, SignUpTypes, OneMaker
  <2>5. CustomerOfMaker'
    BY <1>1, <2>1 DEF signupSubmit, CustomerOfMaker, Moved, SignUpTypes, OneMaker
  <2>6. StaffKept'
    BY <1>1, <2>1 DEF signupSubmit, StaffKept, Moved, SignUpTypes, OneMaker, HomeOfMaker
  <2>7. LandsKept'
    BY <1>1, <2>1 DEF signupSubmit, LandsKept, Moved, SignUpTypes, OneMaker
  <2> QED BY <2>2, <2>3, <2>4, <2>5, <2>6, <2>7
<1>2. ASSUME NEW t \in Tabs, oauthSignIn(t) PROVE SignUpInv'
  <2>1. /\ Moved(t) /\ tab'[t].at = "find" /\ ~tab'[t].made
    BY <1>0, <1>2 DEF oauthSignIn, Away, Moved, TabRecords
  <2>2. SignUpTypes'
    BY <1>2, <2>1 DEF oauthSignIn, SignUpTypes, Moved
  <2>3. OneMaker'
    BY <1>2, <2>1 DEF oauthSignIn, OneMaker, Moved, SignUpTypes
  <2>4. HomeOfMaker'
    BY <1>2, <2>1 DEF oauthSignIn, HomeOfMaker, Moved, SignUpTypes, OneMaker
  <2>5. CustomerOfMaker'
    BY <1>2, <2>1 DEF oauthSignIn, CustomerOfMaker, Moved, SignUpTypes, OneMaker
  <2>6. StaffKept'
    BY <1>2, <2>1 DEF oauthSignIn, StaffKept, Moved, SignUpTypes, OneMaker, HomeOfMaker
  <2>7. LandsKept'
    BY <1>2, <2>1 DEF oauthSignIn, LandsKept, Moved, SignUpTypes, OneMaker
  <2> QED BY <2>2, <2>3, <2>4, <2>5, <2>6, <2>7
<1>3. ASSUME NEW t \in Tabs, findOrCreateOAuthUser(t) PROVE SignUpInv'
  <2>1. /\ Moved(t)
        /\ tab[t].at = "find"
        /\ tab'[t].at = (IF known = "none" THEN "insert" ELSE "pick")
        /\ tab'[t].made = tab[t].made
    BY <1>0, <1>3 DEF findOrCreateOAuthUser, Stands, Onward, Moved, TabRecords
  <2>2. SignUpTypes'
    BY <1>3, <2>1 DEF findOrCreateOAuthUser, SignUpTypes, Moved
  <2>3. OneMaker'
    BY <1>3, <2>1 DEF findOrCreateOAuthUser, OneMaker, Moved, SignUpTypes
  <2>4. HomeOfMaker'
    BY <1>3, <2>1 DEF findOrCreateOAuthUser, HomeOfMaker, Moved, SignUpTypes, OneMaker
  <2>5. CustomerOfMaker'
    BY <1>3, <2>1 DEF findOrCreateOAuthUser, CustomerOfMaker, Moved, SignUpTypes, OneMaker
  <2>6. StaffKept'
    BY <1>3, <2>1 DEF findOrCreateOAuthUser, StaffKept, Moved, SignUpTypes, OneMaker, HomeOfMaker
  <2>7. LandsKept'
    BY <1>3, <2>1 DEF findOrCreateOAuthUser, LandsKept, Moved, SignUpTypes, OneMaker
  <2> QED BY <2>2, <2>3, <2>4, <2>5, <2>6, <2>7
<1>4. ASSUME NEW t \in Tabs, insertUser(t) PROVE SignUpInv'
  <2>1. /\ Moved(t) /\ tab'[t].at = "staff" /\ tab'[t].made
    BY ZenonT(20), <1>0, <1>4 DEF insertUser, Untaken, Moved, TabRecords
  <2>2. SignUpTypes'
    BY <1>4, <2>1 DEF insertUser, Untaken, SignUpTypes, Moved
  <2>3. OneMaker'
    BY <1>4, <2>1 DEF insertUser, Untaken, OneMaker, Moved, SignUpTypes
  <2>4. HomeOfMaker'
    BY <1>4, <2>1 DEF insertUser, Untaken, HomeOfMaker, Moved, SignUpTypes, OneMaker
  <2>5. CustomerOfMaker'
    BY <1>4, <2>1 DEF insertUser, Untaken, CustomerOfMaker, Moved, SignUpTypes, OneMaker
  <2>6. StaffKept'
    BY <1>4, <2>1 DEF insertUser, Untaken, StaffKept, Moved, SignUpTypes, OneMaker, HomeOfMaker
  <2>7. LandsKept'
    BY <1>4, <2>1 DEF insertUser, Untaken, LandsKept, Moved, SignUpTypes, OneMaker
  <2> QED BY <2>2, <2>3, <2>4, <2>5, <2>6, <2>7
<1>5. ASSUME NEW t \in Tabs, PromoteStaff(t) PROVE SignUpInv'
  <2>1. /\ Moved(t) /\ tab[t].at = "staff" /\ tab'[t].at = "home" /\ tab'[t].made = tab[t].made
    BY <1>0, <1>5 DEF PromoteStaff, Onward, Moved, TabRecords
  <2>2. SignUpTypes'
    BY <1>5, <2>1 DEF PromoteStaff, Promotes, SignUpTypes, Moved
  <2>3. OneMaker'
    BY <1>5, <2>1 DEF PromoteStaff, Promotes, OneMaker, Moved, SignUpTypes
  <2>4. HomeOfMaker'
    BY <1>5, <2>1 DEF PromoteStaff, Promotes, HomeOfMaker, Moved, SignUpTypes, OneMaker
  <2>5. CustomerOfMaker'
    BY <1>5, <2>1 DEF PromoteStaff, Promotes, CustomerOfMaker, Moved, SignUpTypes, OneMaker
  <2>6. StaffKept'
    BY <1>5, <2>1 DEF PromoteStaff, Promotes, StaffKept, Moved, SignUpTypes, OneMaker, HomeOfMaker
  <2>7. LandsKept'
    BY <1>5, <2>1 DEF PromoteStaff, Promotes, LandsKept, Moved, SignUpTypes, OneMaker
  <2> QED BY <2>2, <2>3, <2>4, <2>5, <2>6, <2>7
<1>6. ASSUME NEW t \in Tabs, CreatePersonalAccount(t) PROVE SignUpInv'
  <2>1. /\ Moved(t)
        /\ tab[t].at = "home" /\ tab'[t].at = "stripe" /\ tab'[t].made = tab[t].made
        /\ tab'[t].home
    BY <1>0, <1>6 DEF CreatePersonalAccount, Moved, TabRecords
  <2>2. SignUpTypes'
    BY <1>6, <2>1 DEF CreatePersonalAccount, SignUpTypes, Moved
  <2>3. OneMaker'
    BY <1>6, <2>1 DEF CreatePersonalAccount, OneMaker, Moved, SignUpTypes
  <2>4. HomeOfMaker'
    BY <1>6, <2>1 DEF CreatePersonalAccount, HomeOfMaker, Moved, SignUpTypes, OneMaker
  <2>5. CustomerOfMaker'
    BY <1>6, <2>1 DEF CreatePersonalAccount, CustomerOfMaker, Moved, SignUpTypes, OneMaker
  <2>6. StaffKept'
    BY <1>6, <2>1 DEF CreatePersonalAccount, StaffKept, Moved, SignUpTypes, OneMaker, HomeOfMaker
  <2>7. LandsKept'
    BY <1>6, <2>1 DEF CreatePersonalAccount, LandsKept, Moved, SignUpTypes, OneMaker
  <2> QED BY <2>2, <2>3, <2>4, <2>5, <2>6, <2>7
<1>7. ASSUME NEW t \in Tabs, CreateCustomer(t) PROVE SignUpInv'
  <2>1. /\ Moved(t)
        /\ tab[t].at = "stripe" /\ tab'[t].made = tab[t].made /\ tab'[t].home = tab[t].home
        /\ \/ customers' = customers + 1 /\ tab'[t].at = "saveCustomer"
           \/ customers' = customers /\ tab'[t].at \in {"session", "pick"}
    BY <1>0, <1>7 DEF CreateCustomer, Onward, Moved, TabRecords
  <2>2. SignUpTypes'
    BY <1>7, <2>1 DEF CreateCustomer, SignUpTypes, Moved
  <2>3. OneMaker'
    BY <1>7, <2>1 DEF CreateCustomer, OneMaker, Moved, SignUpTypes
  <2>4. HomeOfMaker'
    BY <1>7, <2>1 DEF CreateCustomer, HomeOfMaker, Moved, SignUpTypes, OneMaker
  <2>5. CustomerOfMaker'
    BY <1>7, <2>1 DEF CreateCustomer, CustomerOfMaker, Moved, SignUpTypes, OneMaker
  <2>6. StaffKept'
    BY <1>7, <2>1 DEF CreateCustomer, StaffKept, Moved, SignUpTypes, OneMaker, HomeOfMaker
  <2>7. LandsKept'
    BY <1>7, <2>1 DEF CreateCustomer, LandsKept, Moved, SignUpTypes, OneMaker
  <2> QED BY <2>2, <2>3, <2>4, <2>5, <2>6, <2>7
<1>8. ASSUME NEW t \in Tabs, SetStripeCustomerID(t) PROVE SignUpInv'
  <2>1. /\ Moved(t)
        /\ tab[t].at = "saveCustomer" /\ tab'[t].at \in {"session", "pick"}
        /\ tab'[t].made = tab[t].made /\ tab'[t].home = tab[t].home
    BY <1>0, <1>8 DEF SetStripeCustomerID, Onward, Moved, TabRecords
  <2>2. SignUpTypes'
    BY <1>8, <2>1 DEF SetStripeCustomerID, NewCustomer, SignUpTypes, Moved
  <2>3. OneMaker'
    BY <1>8, <2>1 DEF SetStripeCustomerID, NewCustomer, OneMaker, Moved, SignUpTypes
  <2>4. HomeOfMaker'
    BY <1>8, <2>1 DEF SetStripeCustomerID, NewCustomer, HomeOfMaker, Moved, SignUpTypes, OneMaker
  <2>5. CustomerOfMaker'
    BY <1>8, <2>1 DEF SetStripeCustomerID, NewCustomer, CustomerOfMaker, Moved, SignUpTypes,
         OneMaker
  <2>6. StaffKept'
    BY <1>8, <2>1 DEF SetStripeCustomerID, NewCustomer, StaffKept, Moved, SignUpTypes, OneMaker,
         HomeOfMaker
  <2>7. LandsKept'
    BY <1>8, <2>1 DEF SetStripeCustomerID, NewCustomer, LandsKept, Moved, SignUpTypes, OneMaker
  <2> QED BY <2>2, <2>3, <2>4, <2>5, <2>6, <2>7
<1>9. ASSUME NEW t \in Tabs, pickDefaultAccount(t) PROVE SignUpInv'
  <2>0. \E hm, er \in BOOLEAN :
           /\ tab' = [tab EXCEPT ![t].at = "session", ![t].home = hm, ![t].early = er]
           /\ hm \/ er \/ (~Picked /\ Making = {})
    <3>1. PICK unread \in BOOLEAN :
             tab' = [tab EXCEPT ![t].at = "session", ![t].home = Picked /\ ~unread,
                                ![t].early = unread \/ Making # {}]
      BY <1>9, Zenon DEF pickDefaultAccount
    <3> DEFINE hm == Picked /\ ~unread
               er == unread \/ Making # {}
    <3>2. hm \in BOOLEAN /\ er \in BOOLEAN /\ (hm \/ er \/ (~Picked /\ Making = {}))
      BY Zenon
    <3> QED BY <3>1, <3>2, Zenon
  <2>a. PICK hm, er \in BOOLEAN :
           /\ tab' = [tab EXCEPT ![t].at = "session", ![t].home = hm, ![t].early = er]
           /\ hm \/ er \/ (~Picked /\ Making = {})
    BY <2>0
  <2>b. tab[t].at = "pick"
    BY <1>9 DEF pickDefaultAccount, Stands
  <2>c. /\ tab'[t] = [at |-> "session", kind |-> tab[t].kind, made |-> tab[t].made,
                     home |-> hm, early |-> er]
        /\ \A u \in Tabs : u # t => tab'[u] = tab[u]
        /\ DOMAIN tab' = Tabs /\ tab' = [u \in DOMAIN tab' |-> tab'[u]]
    BY <1>0, <2>a DEF TabRecords
  <2>d. tab'[t] \in TabRecords /\ tab'[t].home = hm /\ tab'[t].early = er
    BY <1>0, <2>c DEF TabRecords
  <2>e. ~Picked => homes = 0
    BY DEF Picked, SignUpTypes
  <2>1. /\ Moved(t)
        /\ tab[t].at = "pick" /\ tab'[t].at = "session" /\ tab'[t].made = tab[t].made
        /\ tab'[t].home \/ tab'[t].early \/ (homes = 0 /\ Making = {})
    BY <1>0, <2>a, <2>b, <2>c, <2>d, <2>e DEF Moved, TabRecords
  <2>2. SignUpTypes'
    BY <1>9, <2>1 DEF pickDefaultAccount, Making, SignUpTypes, Moved
  <2>3. OneMaker'
    BY <1>9, <2>1 DEF pickDefaultAccount, Making, OneMaker, Moved, SignUpTypes
  <2>4. HomeOfMaker'
    BY <1>9, <2>1 DEF pickDefaultAccount, Making, HomeOfMaker, Moved, SignUpTypes, OneMaker
  <2>5. CustomerOfMaker'
    BY <1>9, <2>1 DEF pickDefaultAccount, Making, CustomerOfMaker, Moved, SignUpTypes, OneMaker
  <2>6. StaffKept'
    BY <1>9, <2>1 DEF pickDefaultAccount, Making, StaffKept, Moved, SignUpTypes, OneMaker,
         HomeOfMaker
  <2>7. LandsKept'
    BY <1>9, <2>1 DEF pickDefaultAccount, Making, LandsKept, Moved, SignUpTypes, HomeOfMaker,
         OneMaker
  <2> QED BY <2>2, <2>3, <2>4, <2>5, <2>6, <2>7
<1>10. ASSUME NEW t \in Tabs, CreateSession(t) PROVE SignUpInv'
  <2>1. /\ Moved(t)
        /\ tab[t].at = "session" /\ tab'[t].at \in {"mail", "done"} /\ tab'[t].made = tab[t].made
    BY <1>0, <1>10 DEF CreateSession, Onward, Moved, TabRecords
  <2>2. SignUpTypes'
    BY <1>10, <2>1 DEF CreateSession, SignUpTypes, Moved
  <2>3. OneMaker'
    BY <1>10, <2>1 DEF CreateSession, OneMaker, Moved, SignUpTypes
  <2>4. HomeOfMaker'
    BY <1>10, <2>1 DEF CreateSession, HomeOfMaker, Moved, SignUpTypes, OneMaker
  <2>5. CustomerOfMaker'
    BY <1>10, <2>1 DEF CreateSession, CustomerOfMaker, Moved, SignUpTypes, OneMaker
  <2>6. StaffKept'
    BY <1>10, <2>1 DEF CreateSession, StaffKept, Moved, SignUpTypes, OneMaker, HomeOfMaker
  <2>7. LandsKept'
    BY <1>10, <2>1 DEF CreateSession, LandsKept, Moved, SignUpTypes, OneMaker
  <2> QED BY <2>2, <2>3, <2>4, <2>5, <2>6, <2>7
<1>11. ASSUME NEW t \in Tabs, VerificationMail(t) PROVE SignUpInv'
  <2>1. /\ Moved(t) /\ tab[t].at = "mail" /\ tab'[t].at = "done" /\ tab'[t].made = tab[t].made
    BY <1>0, <1>11 DEF VerificationMail, Stands, Onward, Moved, TabRecords
  <2>2. SignUpTypes'
    BY <1>11, <2>1 DEF VerificationMail, SignUpTypes, Moved
  <2>3. OneMaker'
    BY <1>11, <2>1 DEF VerificationMail, OneMaker, Moved, SignUpTypes
  <2>4. HomeOfMaker'
    BY <1>11, <2>1 DEF VerificationMail, HomeOfMaker, Moved, SignUpTypes, OneMaker
  <2>5. CustomerOfMaker'
    BY <1>11, <2>1 DEF VerificationMail, CustomerOfMaker, Moved, SignUpTypes, OneMaker
  <2>6. StaffKept'
    BY <1>11, <2>1 DEF VerificationMail, StaffKept, Moved, SignUpTypes, OneMaker, HomeOfMaker
  <2>7. LandsKept'
    BY <1>11, <2>1 DEF VerificationMail, LandsKept, Moved, SignUpTypes, OneMaker
  <2> QED BY <2>2, <2>3, <2>4, <2>5, <2>6, <2>7
<1>12. ASSUME NEW t \in Tabs, Answered(t) PROVE SignUpInv'
  <2>1. /\ Moved(t) /\ tab'[t].at = "away" /\ ~tab'[t].made
    BY <1>0, <1>12 DEF Answered, Away, Moved, TabRecords
  <2>2. SignUpTypes'
    BY <1>12, <2>1 DEF Answered, Making, SignUpTypes, Moved
  <2>3. OneMaker'
    BY <1>12, <2>1 DEF Answered, Making, OneMaker, Moved, SignUpTypes
  <2>4. HomeOfMaker'
    BY <1>12, <2>1 DEF Answered, Making, HomeOfMaker, Moved, SignUpTypes, OneMaker
  <2>5. CustomerOfMaker'
    BY <1>12, <2>1 DEF Answered, Making, CustomerOfMaker, Moved, SignUpTypes, OneMaker
  <2>6. StaffKept'
    BY <1>12, <2>1 DEF Answered, Making, StaffKept, Moved, SignUpTypes, OneMaker, HomeOfMaker
  <2>7. LandsKept'
    BY <1>12, <2>1 DEF Answered, Making, LandsKept, Moved, SignUpTypes, OneMaker
  <2> QED BY <2>2, <2>3, <2>4, <2>5, <2>6, <2>7
<1>13. CASE UNCHANGED signUpVars
  BY <1>13 DEF signUpVars, SignUpTypes, OneMaker, HomeOfMaker, CustomerOfMaker, StaffKept, LandsKept
<1> HIDE DEF SignUpInv
<1> QED
  BY <1>1, <1>2, <1>3, <1>4, <1>5, <1>6, <1>7, <1>8, <1>9, <1>10, <1>11, <1>12, <1>13 DEF SignUpNext

\* Initially nothing has been made.
LEMMA SignUpStarts == SignUpInit => SignUpInv
<1> SUFFICES ASSUME SignUpInit PROVE SignUpInv
  OBVIOUS
<1>1. Away \in TabRecords /\ Away.at = "away" /\ ~Away.made
  BY DEF Away, TabRecords
<1>2. tab \in [Tabs -> TabRecords] /\ \A t \in Tabs : tab[t].at = "away" /\ ~tab[t].made
  BY <1>1 DEF SignUpInit
<1>3. SignUpTypes
  <2>1. /\ proven \in BOOLEAN /\ staffListed \in BOOLEAN /\ promoted \in BOOLEAN
        /\ halted \in BOOLEAN /\ demotable \in BOOLEAN
    BY Zenon DEF SignUpInit
  <2>2. /\ known \in {"none", "form", "oauth"} /\ homes \in Nat /\ customer \in 0 .. customers
        /\ customers \in Nat /\ unsaved \in Nat /\ verifyLinks \in Nat /\ tries \in 0 .. MaxTries
    BY SignUpAssumption DEF SignUpInit
  <2> QED BY <1>2, <2>1, <2>2 DEF SignUpTypes
<1>4. OneMaker /\ HomeOfMaker /\ CustomerOfMaker /\ StaffKept /\ LandsKept
  BY <1>2 DEF SignUpInit, OneMaker, HomeOfMaker, CustomerOfMaker, StaffKept, LandsKept
<1> QED BY <1>3, <1>4 DEF SignUpInv

\* What is promised follows: at most one maker means at most one request in Making.
LEMMA SignUpSafety == ASSUME SignUpInv PROVE SignUpSafe
<1> USE SignUpAssumption DEF SignUpInv
<1>1. Cardinality(Making) <= 1
  <2>1. CASE Making = {}
    BY <2>1, FS_EmptySet
  <2>2. CASE Making # {}
    <3>1. PICK t \in Making : TRUE
      BY <2>2
    <3>2. Making = {t}
      BY <3>1 DEF Making, OneMaker
    <3> QED BY <3>2, FS_Singleton
  <2> QED BY <2>1, <2>2
<1>2. SignUpTypeOK
  BY DEF SignUpTypes, SignUpTypeOK, TabRecords
<1>3. OneHome
  BY <1>1 DEF OneHome, HomeOfMaker, CustomerOfMaker, Making
<1>4. LandsAtHome
  BY DEF LandsAtHome, LandsKept
<1>5. BestEffortKept
  BY DEF BestEffortKept, CustomerOfMaker, StaffKept
<1> QED BY <1>2, <1>3, <1>4, <1>5 DEF SignUpSafe

\* Sign-ups of one address that race and fail anywhere leave one user, one account and one
\* customer, sessions that land on it, and nothing best effort undone that did not itself fail
\* (signupSubmit, findOrCreateOAuthUser, CreatePersonalAccount).
THEOREM SignUpIsSafe == SignUpSpec => []SignUpSafe
<1>1. SignUpInv /\ [SignUpNext]_signUpVars => SignUpInv'
  BY SignUpStep
<1>2. SignUpInv => SignUpSafe
  BY SignUpSafety
<1> QED BY <1>1, <1>2, SignUpStarts, PTL DEF SignUpSpec

-----------------------------------------------------------------------------
(* Members.  A request is known by where it is: whom an ownership goes to is  *)
(* a user, and what a listing may show was granted.  Seats are counted by     *)
(* sets, of which a step takes away or adds one element.                      *)

VisitsKnow ==
    /\ \A p \in Visits : visit[p].at \in {"from", "to"} => visit[p].to \in Users
    /\ \A p \in Visits : visit[p].at = "scoped" /\ ~Allowed(visit[p].role, "team.write") =>
          ~visit[p].scope.all /\ \A t \in visit[p].scope.teams : <<t, visit[p].by>> \in granted
    /\ edges \subseteq granted

MembersInv ==
    /\ MembersTypeOK /\ VisitsKnow /\ OwnerUnlessOrphaned /\ SeatOvershoot /\ EachJoinInvited
    /\ NoDeadTeam

\* What a step of request p makes of the requests.
VisitMoves(p) ==
    /\ visit' \in [Visits -> VisitType]
    /\ \A q \in Visits : q # p => visit'[q] = visit[q]
    /\ visit'[p].at = "counted" =>
          /\ visit[p].at = "inside" /\ UNCHANGED <<role, invite>>
          /\ (SeatFree /\ uncounted' = uncounted) \/ uncounted' = uncounted + 1
    /\ visit'[p].at # "counted" => uncounted' = uncounted
    /\ visit'[p].at \in {"from", "to"} => visit'[p].to \in Users
    /\ visit'[p].at = "scoped" /\ ~Allowed(visit'[p].role, "team.write") =>
          /\ ~visit'[p].scope.all /\ UNCHANGED <<edges, granted>>
          /\ \A t \in visit'[p].scope.teams : <<t, visit'[p].by>> \in edges

\* Idle belongs to the requests.
LEMMA IdleType == Idle \in VisitType /\ Idle.at = "idle"
BY DEF Idle, VisitType, NoScope

\* A request moves alone, and only InviteCount counts.
LEMMA VisitStep ==
    ASSUME MembersTypeOK, VisitsKnow
    PROVE  /\ \A p \in Visits, u \in Users : LoadCurrentAccount(p, u) => VisitMoves(p)
           /\ \A p \in Visits, u \in Users : accountSwitch(p, u) => VisitMoves(p)
           /\ \A p \in Visits, u \in Users, i \in Invites : invitationAccept(p, u,
                    i) => VisitMoves(p)
           /\ \A p \in Visits, u \in Users, r \in InviteRoles : inviteCreate(p, u,
                    r) => VisitMoves(p)
           /\ \A p \in Visits, u \in Users, r \in Roles : memberUpdate(p, u, r) => VisitMoves(p)
           /\ \A p \in Visits, u \in Users : memberRemove(p, u) => VisitMoves(p)
           /\ \A p \in Visits, u \in Users : memberTransferOwnership(p, u) => VisitMoves(p)
           /\ \A p \in Visits, t \in Teams, u \in Users : teamMemberAdd(p, t, u) => VisitMoves(p)
           /\ \A p \in Visits, t \in Teams, u \in Users : teamMemberRemove(p, t, u) => VisitMoves(p)
           /\ \A p \in Visits : SetCurrentAccount(p) => VisitMoves(p)
           /\ \A p \in Visits : Give(p) => VisitMoves(p)
           /\ \A p \in Visits : InviteCount(p) => VisitMoves(p)
           /\ \A p \in Visits : TransferTo(p) => VisitMoves(p)
           /\ \A p \in Visits : TransferOwnership(p) => VisitMoves(p)
           /\ \A p \in Visits : databaseScope(p) => VisitMoves(p)
           /\ \A p \in Visits, t \in Teams : teamCreate(p, t) => VisitMoves(p)
           /\ \A p \in Visits, t \in Teams : teamDelete(p, t) => VisitMoves(p)
           /\ \A p \in Visits, d \in Databases, t \in Teams \cup {None} : teamDatabaseAssign(p, d,
                    t) => VisitMoves(p)
<1> USE MembershipAssumption, RolesAssumption
<1>0. visit \in [Visits -> VisitType] /\ role \in [Users -> Roles \cup {None}]
  BY DEF MembersTypeOK
<1>1. ASSUME NEW p \in Visits, Done(p), uncounted' = uncounted PROVE VisitMoves(p)
  BY <1>0, <1>1, IdleType DEF Done, VisitMoves
<1>2. ASSUME NEW p \in Visits, NEW u \in Users, LoadCurrentAccount(p, u) PROVE VisitMoves(p)
  <2>1. CASE role[u] = None
    BY <1>0, <1>2, <2>1 DEF LoadCurrentAccount, Arrive, VisitMoves
  <2>2. CASE role[u] # None
    <3>1. [Idle EXCEPT !.at = "inside", !.by = u, !.role = role[u]] \in VisitType
      BY <1>0, <2>2 DEF Idle, VisitType, NoScope
    <3>2. [Idle EXCEPT !.at = "inside", !.by = u, !.role = role[u]].at = "inside"
      BY DEF Idle
    <3> QED BY <1>0, <1>2, <2>2, <3>1, <3>2 DEF LoadCurrentAccount, VisitMoves
  <2> QED BY <2>1, <2>2
<1>3. ASSUME NEW p \in Visits, NEW u \in Users, accountSwitch(p, u) PROVE VisitMoves(p)
  <2>1. [Idle EXCEPT !.at = "enter", !.by = u] \in VisitType
    BY DEF Idle, VisitType, NoScope
  <2>2. [Idle EXCEPT !.at = "enter", !.by = u].at = "enter"
    BY DEF Idle
  <2> QED BY <1>0, <1>3, <2>1, <2>2 DEF accountSwitch, tables, VisitMoves
<1>4. ASSUME NEW p \in Visits, NEW u \in Users, NEW i \in Invites, invitationAccept(p, u,
     i) PROVE VisitMoves(p)
  <2>1. [Idle EXCEPT !.at = "enter", !.by = u] \in VisitType
    BY DEF Idle, VisitType, NoScope
  <2>2. [Idle EXCEPT !.at = "enter", !.by = u].at = "enter"
    BY DEF Idle
  <2> QED BY <1>0, <1>4, <2>1, <2>2 DEF invitationAccept, VisitMoves
<1>5. ASSUME NEW p \in Visits, NEW u \in Users, NEW r \in InviteRoles, inviteCreate(p, u,
     r) PROVE VisitMoves(p)
  BY <1>1, <1>5 DEF inviteCreate
<1>6. ASSUME NEW p \in Visits, NEW u \in Users, NEW r \in Roles, memberUpdate(p, u,
     r) PROVE VisitMoves(p)
  BY <1>1, <1>6 DEF memberUpdate
<1>7. ASSUME NEW p \in Visits, NEW u \in Users, memberRemove(p, u) PROVE VisitMoves(p)
  BY <1>1, <1>7 DEF memberRemove
<1>8. ASSUME NEW p \in Visits, NEW u \in Users, memberTransferOwnership(p, u) PROVE VisitMoves(p)
  <2>1. visit' = [visit EXCEPT ![p].at = "from", ![p].to = u] /\ uncounted' = uncounted
    BY <1>8 DEF memberTransferOwnership, tables
  <2> DEFINE v == [visit[p] EXCEPT !.at = "from", !.to = u]
  <2>a. visit' = [visit EXCEPT ![p] = v]
    BY <1>0, <2>1
  <2>b. v \in VisitType /\ v.at = "from" /\ v.to = u
    BY ZenonT(20), <1>0 DEF VisitType
  <2> HIDE DEF v
  <2>2. /\ visit' \in [Visits -> VisitType] /\ visit'[p].at = "from" /\ visit'[p].to = u
        /\ \A q \in Visits : q # p => visit'[q] = visit[q]
    BY <1>0, <2>a, <2>b
  <2> QED BY <2>1, <2>2 DEF VisitMoves
<1>9. ASSUME NEW p \in Visits, NEW t \in Teams, NEW u \in Users, teamMemberAdd(p, t,
     u) PROVE VisitMoves(p)
  BY <1>1, <1>9 DEF teamMemberAdd
<1>10. ASSUME NEW p \in Visits, NEW t \in Teams, NEW u \in Users, teamMemberRemove(p, t,
     u) PROVE VisitMoves(p)
  BY <1>1, <1>10 DEF teamMemberRemove
<1>11. ASSUME NEW p \in Visits, SetCurrentAccount(p) PROVE VisitMoves(p)
  BY <1>1, <1>11 DEF SetCurrentAccount
<1>12. ASSUME NEW p \in Visits, Give(p) PROVE VisitMoves(p)
  BY <1>1, <1>12 DEF Give, tables
<1>13. ASSUME NEW p \in Visits, InviteCount(p) PROVE VisitMoves(p)
  <2>1. visit' = [visit EXCEPT ![p].at = "counted"]
    BY <1>13 DEF InviteCount, Step
  <2>2. /\ visit' \in [Visits -> VisitType] /\ visit'[p].at = "counted"
        /\ visit'[p].to = visit[p].to
        /\ \A q \in Visits : q # p => visit'[q] = visit[q]
    BY SMTT(20), <1>0, <2>1 DEF VisitType
  <2>3. uncounted' = uncounted + 0 \/ uncounted' = uncounted + 1
    BY <1>13 DEF InviteCount
  <2> QED BY <1>13, <2>2, <2>3 DEF InviteCount, RequireAction, MembersTypeOK, VisitMoves
<1>14. ASSUME NEW p \in Visits, TransferTo(p) PROVE VisitMoves(p)
  <2>1. visit' = [visit EXCEPT ![p].at = "to"]
    BY <1>14 DEF TransferTo, Step
  <2>2. /\ visit' \in [Visits -> VisitType] /\ visit'[p].at = "to"
        /\ visit'[p].to = visit[p].to
        /\ \A q \in Visits : q # p => visit'[q] = visit[q]
    BY SMTT(20), <1>0, <2>1 DEF VisitType
  <2> QED BY <1>14, <2>2 DEF TransferTo, tables, VisitsKnow, VisitMoves
<1>15. ASSUME NEW p \in Visits, TransferOwnership(p) PROVE VisitMoves(p)
  BY <1>1, <1>15 DEF TransferOwnership
<1>16. ASSUME NEW p \in Visits, databaseScope(p) PROVE VisitMoves(p)
  <2>1. PICK s \in IF Allowed(visit[p].role, "team.write") THEN {[all |-> TRUE, teams |-> {}]}
                   ELSE {[all |-> FALSE, teams |-> TeamIDsForUser(visit[p].by)], LookupFailed} :
            visit' = [visit EXCEPT ![p].at = "scoped", ![p].scope = s]
    BY <1>16 DEF databaseScope
  <2>2. /\ s \in [all : BOOLEAN, teams : SUBSET Teams]
        /\ ~Allowed(visit[p].role, "team.write") =>
              ~s.all /\ \A t \in s.teams : <<t, visit[p].by>> \in edges
    <3>1. CASE s = [all |-> TRUE, teams |-> {}] /\ Allowed(visit[p].role, "team.write")
      BY <3>1
    <3>2. CASE s = [all |-> FALSE, teams |-> TeamIDsForUser(visit[p].by)]
      BY <3>2 DEF TeamIDsForUser
    <3>3. CASE s = [all |-> FALSE, teams |-> {}]
      BY <3>3
    <3> QED BY <2>1, <3>1, <3>2, <3>3 DEF LookupFailed, NoScope
  <2>3. /\ visit' \in [Visits -> VisitType] /\ visit'[p].at = "scoped" /\ visit'[p].scope = s
        /\ visit'[p].by = visit[p].by /\ visit'[p].role = visit[p].role
        /\ \A q \in Visits : q # p => visit'[q] = visit[q]
    <3> DEFINE v == [visit[p] EXCEPT !.at = "scoped", !.scope = s]
               Scope == [all : BOOLEAN, teams : SUBSET Teams]
    <3>1. visit' = [visit EXCEPT ![p] = v]
      BY <1>0, <2>1
    <3>2. /\ v \in VisitType /\ v.at = "scoped" /\ v.scope = s
          /\ v.by = visit[p].by /\ v.role = visit[p].role
      <4>1. /\ s \in Scope
            /\ VisitType = [at : {"idle", "enter", "inside", "counted", "from", "to", "scoped"},
                            by : Users \cup {None}, role : Roles \cup {None},
                            to : Users \cup {None}, scope : Scope]
        BY <2>2 DEF VisitType
      <4>2. visit[p] \in VisitType
        BY <1>0
      <4> HIDE DEF Scope
      <4> QED BY <4>1, <4>2
    <3> HIDE DEF v
    <3> QED BY <1>0, <3>1, <3>2
  <2> QED BY <1>16, <2>2, <2>3 DEF databaseScope, tables, VisitMoves
<1>17. ASSUME NEW p \in Visits, NEW t \in Teams, teamCreate(p, t) PROVE VisitMoves(p)
  BY <1>1, <1>17 DEF teamCreate
<1>18. ASSUME NEW p \in Visits, NEW t \in Teams, teamDelete(p, t) PROVE VisitMoves(p)
  BY <1>1, <1>18 DEF teamDelete
<1>19. ASSUME NEW p \in Visits, NEW d \in Databases, NEW t \in Teams \cup {None},
     teamDatabaseAssign(p, d, t) PROVE VisitMoves(p)
  BY <1>1, <1>19 DEF teamDatabaseAssign
<1> QED BY <1>2, <1>3, <1>4, <1>5, <1>6, <1>7, <1>8, <1>9, <1>10, <1>11, <1>12, <1>13, <1>14,
     <1>15, <1>16, <1>17, <1>18, <1>19

AcceptedBy(u) == {i \in Invites : invite[i].to = u /\ invite[i].state = "accepted"}

\* The sets that are counted are finite.
LEMMA MemberSets ==
    /\ IsFiniteSet(Members) /\ IsFiniteSet(Pending) /\ IsFiniteSet(Counted)
    /\ IsFiniteSet(Owners) /\ \A u \in Users : IsFiniteSet(AcceptedBy(u))
<1> USE MembershipAssumption
<1>1. /\ Members \subseteq Users /\ Pending \subseteq Invites /\ Counted \subseteq Visits
      /\ Owners \subseteq Users /\ \A u \in Users : AcceptedBy(u) \subseteq Invites
  BY DEF Members, Pending, Counted, Owners, AcceptedBy
<1> QED BY <1>1, FS_Subset

\* They stay so.
LEMMA MemberSetsNext ==
    /\ IsFiniteSet(Members') /\ IsFiniteSet(Pending') /\ IsFiniteSet(Counted')
    /\ \A u \in Users : IsFiniteSet(AcceptedBy(u)')
<1> USE MembershipAssumption
<1>1. /\ Members' \subseteq Users /\ Pending' \subseteq Invites /\ Counted' \subseteq Visits
      /\ \A u \in Users : AcceptedBy(u)' \subseteq Invites
  BY DEF Members, Pending, Counted, AcceptedBy
<1> QED BY <1>1, FS_Subset

\* Where not the last owner is concerned there is another one.
LEMMA AnotherOwner ==
    ASSUME Owners # {}, NEW u \in Users, ~LastOwner(u)
    PROVE  \E v \in Owners : v # u
<1>1. ASSUME \A v \in Owners : v = u PROVE FALSE
  <2>1. Owners = {u}
    BY <1>1
  <2>2. Cardinality(Owners) = 1
    BY <2>1, FS_Singleton
  <2> QED BY <2>1, <2>2 DEF LastOwner, Owners
<1> QED BY <1>1

\* With no more members and invitations than before there is room for whoever counts.
LEMMA SeatsGiven ==
    ASSUME SeatOvershoot, MembersTypeOK, NEW p \in Visits, VisitMoves(p),
           Members' \subseteq Members, Pending' \subseteq Pending
    PROVE  SeatOvershoot'
<1>1. /\ Cardinality(Members') <= Cardinality(Members) /\ Cardinality(Members') \in Nat
      /\ Cardinality(Pending') <= Cardinality(Pending) /\ Cardinality(Pending') \in Nat
      /\ Cardinality(Counted') \in Nat /\ Cardinality(Visits) \in Nat
      /\ Cardinality(Members) \in Nat /\ Cardinality(Pending) \in Nat /\ Cardinality(Counted) \in Nat
      /\ uncounted \in Nat
  BY MemberSets, MemberSetsNext, FS_Subset, FS_CardinalityType, MembershipAssumption
     DEF MembersTypeOK
<1>2. CASE visit'[p].at # "counted"
  <2>1. Counted' \subseteq Counted
    BY <1>2 DEF Counted, VisitMoves
  <2>2. Cardinality(Counted') <= Cardinality(Counted)
    BY <2>1, MemberSets, FS_Subset
  <2>3. uncounted' = uncounted
    BY <1>2 DEF VisitMoves
  <2> QED BY <1>1, <2>2, <2>3, MembershipAssumption DEF SeatOvershoot
<1>3. CASE visit'[p].at = "counted" /\ SeatFree /\ uncounted' = uncounted
  <2>1. SeatFree
    BY <1>3
  <2>2. Counted' \subseteq Visits
    BY DEF Counted
  <2>3. Cardinality(Counted') <= Cardinality(Visits)
    BY <2>2, FS_Subset, MembershipAssumption
  <2> QED BY <1>1, <1>3, <2>1, <2>3, MembershipAssumption DEF SeatFree, SeatOvershoot
<1>4. CASE visit'[p].at = "counted" /\ uncounted' = uncounted + 1
  <2>1. Counted' = Counted \cup {p} /\ p \notin Counted
    BY <1>4 DEF Counted, VisitMoves
  <2>2. Cardinality(Counted') = Cardinality(Counted) + 1
    BY <2>1, MemberSets, FS_AddElement
  <2> QED BY <1>1, <1>4, <2>2, MembershipAssumption DEF SeatOvershoot
<1> QED BY <1>2, <1>3, <1>4 DEF VisitMoves

\* Every table keeps its type.
LEMMA MembersTypeStep ==
    ASSUME MembersInv, [MembersNext]_memberVars
    PROVE  MembersTypeOK'
<1> USE MembershipAssumption, RolesAssumption
<1>1. ASSUME UNCHANGED <<role, current, invite, team, edges, teamOf, visit, joined, orphaned,
                         granted, uncounted, visits>> PROVE MembersTypeOK'
  BY <1>1 DEF MembersInv, MembersTypeOK
<1>2. ASSUME UNCHANGED memberVars
      PROVE  UNCHANGED <<role, current, invite, team, edges, teamOf, visit, joined, orphaned,
                         granted, uncounted, visits>>
  BY <1>2 DEF memberVars
<1>3. ASSUME NEW p \in Visits, NEW u \in Users, LoadCurrentAccount(p, u) PROVE MembersTypeOK'
  <2>1. visit' \in [Visits -> VisitType]
    BY <1>3, VisitStep DEF MembersInv, VisitMoves
  <2> QED BY <1>3, <2>1 DEF LoadCurrentAccount, Arrive, MembersInv, MembersTypeOK
<1>4. ASSUME NEW p \in Visits, NEW u \in Users, accountSwitch(p, u) PROVE MembersTypeOK'
  <2>1. visit' \in [Visits -> VisitType]
    BY <1>4, VisitStep DEF MembersInv, VisitMoves
  <2> QED BY <1>4, <2>1 DEF accountSwitch, Arrive, tables, MembersInv, MembersTypeOK
<1>5. ASSUME NEW p \in Visits, NEW u \in Users, NEW i \in Invites, invitationAccept(p, u,
     i) PROVE MembersTypeOK'
  <2>1. visit' \in [Visits -> VisitType]
    BY <1>5, VisitStep DEF MembersInv, VisitMoves
  <2>2. invite[i].role \in Roles \cup {None}
    BY DEF MembersInv, MembersTypeOK, InviteRoles
  <2>3. role' \in [Users -> Roles \cup {None}]
    BY <1>5, <2>2 DEF invitationAccept, AcceptInvitation, MembersInv, MembersTypeOK
  <2>4. joined' \in [Users -> Nat]
    BY <1>5 DEF invitationAccept, AcceptInvitation, MembersInv, MembersTypeOK
  <2>5. invite' \in [Invites -> [state : {"none", "pending", "accepted", "expired"},
                                 to : Users \cup {None}, role : InviteRoles \cup {None}]]
    BY <1>5 DEF invitationAccept, AcceptInvitation, MembersInv, MembersTypeOK
  <2> QED BY <1>5, <2>1, <2>3, <2>4, <2>5 DEF invitationAccept, Arrive, MembersInv, MembersTypeOK
<1>6. ASSUME NEW p \in Visits, NEW u \in Users, NEW r \in InviteRoles, inviteCreate(p, u,
     r) PROVE MembersTypeOK'
  <2>1. visit' \in [Visits -> VisitType]
    BY <1>6, VisitStep DEF MembersInv, VisitMoves
  <2>2. [state |-> "pending", to |-> u, role |-> r] \in
           [state : {"none", "pending", "accepted", "expired"},
            to : Users \cup {None}, role : InviteRoles \cup {None}]
    OBVIOUS
  <2> QED BY <1>6, <2>1, <2>2 DEF inviteCreate, CreateInvitation, MembersInv, MembersTypeOK
<1>7. ASSUME NEW p \in Visits, NEW u \in Users, NEW r \in Roles, memberUpdate(p, u,
     r) PROVE MembersTypeOK'
  <2>1. visit' \in [Visits -> VisitType]
    BY <1>7, VisitStep DEF MembersInv, VisitMoves
  <2> QED BY <1>7, <2>1 DEF memberUpdate, UpdateMemberRole, Done, MembersInv, MembersTypeOK
<1>8. ASSUME NEW p \in Visits, NEW u \in Users, memberRemove(p, u) PROVE MembersTypeOK'
  <2>1. visit' \in [Visits -> VisitType]
    BY <1>8, VisitStep DEF MembersInv, VisitMoves
  <2> QED BY <1>8, <2>1 DEF memberRemove, RemoveMember, Done, MembersInv, MembersTypeOK
<1>9. ASSUME NEW p \in Visits, NEW u \in Users, memberTransferOwnership(p, u) PROVE MembersTypeOK'
  <2>1. visit' \in [Visits -> VisitType]
    BY <1>9, VisitStep DEF MembersInv, VisitMoves
  <2> QED BY <1>9, <2>1 DEF memberTransferOwnership, RequireAction, tables, MembersInv,
       MembersTypeOK
<1>10. ASSUME NEW p \in Visits, NEW t \in Teams, NEW u \in Users, teamMemberAdd(p, t,
     u) PROVE MembersTypeOK'
  <2>1. visit' \in [Visits -> VisitType]
    BY <1>10, VisitStep DEF MembersInv, VisitMoves
  <2> QED BY <1>10, <2>1 DEF teamMemberAdd, AddTeamMember, Done, MembersInv, MembersTypeOK
<1>11. ASSUME NEW p \in Visits, NEW t \in Teams, NEW u \in Users, teamMemberRemove(p, t,
     u) PROVE MembersTypeOK'
  <2>1. visit' \in [Visits -> VisitType]
    BY <1>11, VisitStep DEF MembersInv, VisitMoves
  <2> QED BY <1>11, <2>1 DEF teamMemberRemove, RemoveTeamMember, Done, MembersInv, MembersTypeOK
<1>12. ASSUME NEW p \in Visits, SetCurrentAccount(p) PROVE MembersTypeOK'
  <2>1. visit' \in [Visits -> VisitType]
    BY <1>12, VisitStep DEF MembersInv, VisitMoves
  <2> QED BY <1>12, <2>1 DEF SetCurrentAccount, Done, MembersInv, MembersTypeOK
<1>13. ASSUME NEW p \in Visits, Give(p) PROVE MembersTypeOK'
  <2>1. visit' \in [Visits -> VisitType]
    BY <1>13, VisitStep DEF MembersInv, VisitMoves
  <2> QED BY <1>13, <2>1 DEF Give, Done, tables, MembersInv, MembersTypeOK
<1>14. ASSUME NEW p \in Visits, InviteCount(p) PROVE MembersTypeOK'
  <2>1. visit' \in [Visits -> VisitType]
    BY <1>14, VisitStep DEF MembersInv, VisitMoves
  <2> QED BY <1>14, <2>1 DEF InviteCount, RequireAction, Step, tables, MembersInv, MembersTypeOK
<1>15. ASSUME NEW p \in Visits, TransferTo(p) PROVE MembersTypeOK'
  <2>1. visit' \in [Visits -> VisitType]
    BY <1>15, VisitStep DEF MembersInv, VisitMoves
  <2> QED BY <1>15, <2>1 DEF TransferTo, Step, tables, MembersInv, MembersTypeOK
<1>16. ASSUME NEW p \in Visits, TransferOwnership(p) PROVE MembersTypeOK'
  <2>1. visit' \in [Visits -> VisitType]
    BY <1>16, VisitStep DEF MembersInv, VisitMoves
  <2>2. orphaned' \in BOOLEAN
    BY <1>16, Zenon DEF TransferOwnership
  <2>3. role' \in [Users -> Roles \cup {None}]
    BY <1>16 DEF TransferOwnership, MembersInv, MembersTypeOK
  <2> QED BY <1>16, <2>1, <2>2, <2>3 DEF TransferOwnership, MembersInv, MembersTypeOK
<1>17. ASSUME NEW p \in Visits, databaseScope(p) PROVE MembersTypeOK'
  <2>1. visit' \in [Visits -> VisitType]
    BY <1>17, VisitStep DEF MembersInv, VisitMoves
  <2> QED BY <1>17, <2>1 DEF databaseScope, tables, MembersInv, MembersTypeOK
<1>18. ASSUME NEW p \in Visits, NEW t \in Teams, teamCreate(p, t) PROVE MembersTypeOK'
  <2>1. visit' \in [Visits -> VisitType]
    BY <1>18, VisitStep DEF MembersInv, VisitMoves
  <2> QED BY <1>18, <2>1 DEF teamCreate, CreateTeam, Done, MembersInv, MembersTypeOK
<1>19. ASSUME NEW p \in Visits, NEW t \in Teams, teamDelete(p, t) PROVE MembersTypeOK'
  <2>1. visit' \in [Visits -> VisitType]
    BY <1>19, VisitStep DEF MembersInv, VisitMoves
  <2> QED BY <1>19, <2>1 DEF teamDelete, DeleteTeam, Unassigned, Done, MembersInv, MembersTypeOK
<1>20. ASSUME NEW p \in Visits, NEW d \in Databases, NEW t \in Teams \cup {None},
     teamDatabaseAssign(p, d, t) PROVE MembersTypeOK'
  <2>1. visit' \in [Visits -> VisitType]
    BY <1>20, VisitStep DEF MembersInv, VisitMoves
  <2> QED BY <1>20, <2>1 DEF teamDatabaseAssign, SetTargetTeam, Done, MembersInv, MembersTypeOK
<1>21. ASSUME NEW i \in Invites, ExpireInvitation(i) PROVE MembersTypeOK'
  BY <1>21 DEF ExpireInvitation, MembersInv, MembersTypeOK
<1> QED
  BY <1>1, <1>2, <1>3, <1>4, <1>5, <1>6, <1>7, <1>8, <1>9, <1>10, <1>11, <1>12, <1>13, <1>14,
       <1>15, <1>16, <1>17, <1>18, <1>19, <1>20, <1>21
  DEF MembersNext

\* A request learns what is so, and grants are not taken back.
LEMMA VisitsKnowStep ==
    ASSUME MembersInv, [MembersNext]_memberVars
    PROVE  VisitsKnow'
<1> USE MembershipAssumption, RolesAssumption
<1>1. ASSUME UNCHANGED <<visit, edges, granted>> PROVE VisitsKnow'
  BY <1>1 DEF MembersInv, VisitsKnow
<1>2. ASSUME NEW i \in Invites, ExpireInvitation(i)
      PROVE  UNCHANGED <<visit, edges, granted>>
  BY <1>2 DEF ExpireInvitation
<1>3. ASSUME UNCHANGED memberVars
      PROVE  UNCHANGED <<visit, edges, granted>>
  BY <1>3 DEF memberVars
<1>4. ASSUME NEW p \in Visits, NEW u \in Users, LoadCurrentAccount(p, u) PROVE VisitsKnow'
  <2>1. VisitMoves(p) /\ edges' \subseteq edges /\ granted' = granted
    BY <1>4, VisitStep DEF MembersInv, LoadCurrentAccount, Arrive
  <2> QED BY <2>1 DEF MembersInv, VisitsKnow, VisitMoves
<1>5. ASSUME NEW p \in Visits, NEW u \in Users, accountSwitch(p, u) PROVE VisitsKnow'
  <2>1. VisitMoves(p) /\ edges' \subseteq edges /\ granted' = granted
    BY <1>5, VisitStep DEF MembersInv, accountSwitch, Arrive, tables
  <2> QED BY <2>1 DEF MembersInv, VisitsKnow, VisitMoves
<1>6. ASSUME NEW p \in Visits, NEW u \in Users, NEW i \in Invites, invitationAccept(p, u,
     i) PROVE VisitsKnow'
  <2>1. VisitMoves(p) /\ edges' \subseteq edges /\ granted' = granted
    BY <1>6, VisitStep DEF MembersInv, invitationAccept, Arrive, AcceptInvitation
  <2> QED BY <2>1 DEF MembersInv, VisitsKnow, VisitMoves
<1>7. ASSUME NEW p \in Visits, NEW u \in Users, NEW r \in InviteRoles, inviteCreate(p, u,
     r) PROVE VisitsKnow'
  <2>1. VisitMoves(p) /\ edges' \subseteq edges /\ granted' = granted
    BY <1>7, VisitStep DEF MembersInv, inviteCreate, CreateInvitation, Done
  <2> QED BY <2>1 DEF MembersInv, VisitsKnow, VisitMoves
<1>8. ASSUME NEW p \in Visits, NEW u \in Users, NEW r \in Roles, memberUpdate(p, u,
     r) PROVE VisitsKnow'
  <2>1. VisitMoves(p) /\ edges' \subseteq edges /\ granted' = granted
    BY <1>8, VisitStep DEF MembersInv, memberUpdate, UpdateMemberRole, Done
  <2> QED BY <2>1 DEF MembersInv, VisitsKnow, VisitMoves
<1>9. ASSUME NEW p \in Visits, NEW u \in Users, memberRemove(p, u) PROVE VisitsKnow'
  <2>1. VisitMoves(p) /\ edges' \subseteq edges /\ granted' = granted
    BY <1>9, VisitStep DEF MembersInv, memberRemove, RemoveMember, Done
  <2> QED BY <2>1 DEF MembersInv, VisitsKnow, VisitMoves
<1>10. ASSUME NEW p \in Visits, NEW u \in Users, memberTransferOwnership(p, u) PROVE VisitsKnow'
  <2>1. VisitMoves(p) /\ edges' \subseteq edges /\ granted' = granted
    BY <1>10, VisitStep DEF MembersInv, memberTransferOwnership, RequireAction, tables
  <2> QED BY <2>1 DEF MembersInv, VisitsKnow, VisitMoves
<1>11. ASSUME NEW p \in Visits, NEW t \in Teams, NEW u \in Users, teamMemberAdd(p, t,
     u) PROVE VisitsKnow'
  <2>1. VisitMoves(p) /\ edges' = edges \cup {<<t, u>>} /\ granted' = granted \cup {<<t, u>>}
    BY <1>11, VisitStep DEF MembersInv, teamMemberAdd, AddTeamMember
  <2> QED BY <2>1 DEF MembersInv, VisitsKnow, VisitMoves
<1>12. ASSUME NEW p \in Visits, NEW t \in Teams, NEW u \in Users, teamMemberRemove(p, t,
     u) PROVE VisitsKnow'
  <2>1. VisitMoves(p) /\ edges' \subseteq edges /\ granted' = granted
    BY <1>12, VisitStep DEF MembersInv, teamMemberRemove, RemoveTeamMember, Done
  <2> QED BY <2>1 DEF MembersInv, VisitsKnow, VisitMoves
<1>13. ASSUME NEW p \in Visits, SetCurrentAccount(p) PROVE VisitsKnow'
  <2>1. VisitMoves(p) /\ edges' \subseteq edges /\ granted' = granted
    BY <1>13, VisitStep DEF MembersInv, SetCurrentAccount, Done
  <2> QED BY <2>1 DEF MembersInv, VisitsKnow, VisitMoves
<1>14. ASSUME NEW p \in Visits, Give(p) PROVE VisitsKnow'
  <2>1. VisitMoves(p) /\ edges' \subseteq edges /\ granted' = granted
    BY <1>14, VisitStep DEF MembersInv, Give, Done, tables
  <2> QED BY <2>1 DEF MembersInv, VisitsKnow, VisitMoves
<1>15. ASSUME NEW p \in Visits, InviteCount(p) PROVE VisitsKnow'
  <2>1. VisitMoves(p) /\ edges' \subseteq edges /\ granted' = granted
    BY <1>15, VisitStep DEF MembersInv, InviteCount, RequireAction, Step, tables
  <2> QED BY <2>1 DEF MembersInv, VisitsKnow, VisitMoves
<1>16. ASSUME NEW p \in Visits, TransferTo(p) PROVE VisitsKnow'
  <2>1. VisitMoves(p) /\ edges' \subseteq edges /\ granted' = granted
    BY <1>16, VisitStep DEF MembersInv, TransferTo, Step, tables
  <2> QED BY <2>1 DEF MembersInv, VisitsKnow, VisitMoves
<1>17. ASSUME NEW p \in Visits, TransferOwnership(p) PROVE VisitsKnow'
  <2>1. VisitMoves(p) /\ edges' \subseteq edges /\ granted' = granted
    BY <1>17, VisitStep DEF MembersInv, TransferOwnership, Done
  <2> QED BY <2>1 DEF MembersInv, VisitsKnow, VisitMoves
<1>18. ASSUME NEW p \in Visits, databaseScope(p) PROVE VisitsKnow'
  <2>1. VisitMoves(p) /\ edges' \subseteq edges /\ granted' = granted
    BY <1>18, VisitStep DEF MembersInv, databaseScope, tables
  <2> QED BY <2>1 DEF MembersInv, VisitsKnow, VisitMoves
<1>19. ASSUME NEW p \in Visits, NEW t \in Teams, teamCreate(p, t) PROVE VisitsKnow'
  <2>1. VisitMoves(p) /\ edges' \subseteq edges /\ granted' = granted
    BY <1>19, VisitStep DEF MembersInv, teamCreate, CreateTeam, Done
  <2> QED BY <2>1 DEF MembersInv, VisitsKnow, VisitMoves
<1>20. ASSUME NEW p \in Visits, NEW t \in Teams, teamDelete(p, t) PROVE VisitsKnow'
  <2>1. VisitMoves(p) /\ edges' \subseteq edges /\ granted' = granted
    BY <1>20, VisitStep DEF MembersInv, teamDelete, DeleteTeam, Unassigned, Done
  <2> QED BY <2>1 DEF MembersInv, VisitsKnow, VisitMoves
<1>21. ASSUME NEW p \in Visits, NEW d \in Databases, NEW t \in Teams \cup {None},
     teamDatabaseAssign(p, d, t) PROVE VisitsKnow'
  <2>1. VisitMoves(p) /\ edges' \subseteq edges /\ granted' = granted
    BY <1>21, VisitStep DEF MembersInv, teamDatabaseAssign, SetTargetTeam, Done
  <2> QED BY <2>1 DEF MembersInv, VisitsKnow, VisitMoves
<1> QED
  BY <1>1, <1>2, <1>3, <1>4, <1>5, <1>6, <1>7, <1>8, <1>9, <1>10, <1>11, <1>12, <1>13, <1>14,
       <1>15, <1>16, <1>17, <1>18, <1>19, <1>20, <1>21
  DEF MembersNext

\* The last owner is neither removed nor demoted but for a successor.
LEMMA OwnerStep ==
    ASSUME MembersInv, [MembersNext]_memberVars
    PROVE  OwnerUnlessOrphaned'
<1> USE MembershipAssumption, RolesAssumption
<1>1. ASSUME UNCHANGED <<role, orphaned>> PROVE OwnerUnlessOrphaned'
  BY <1>1 DEF MembersInv, OwnerUnlessOrphaned, Owners
<1>2. ASSUME NEW p \in Visits, NEW u \in Users, LoadCurrentAccount(p, u) \/ accountSwitch(p, u)
     \/ memberTransferOwnership(p, u)
      PROVE  UNCHANGED <<role, orphaned>>
  BY <1>2 DEF LoadCurrentAccount, Arrive, accountSwitch, tables, memberTransferOwnership,
       RequireAction
<1>3. ASSUME NEW p \in Visits, NEW u \in Users, NEW r \in InviteRoles, inviteCreate(p, u, r)
      PROVE  UNCHANGED <<role, orphaned>>
  BY <1>3 DEF inviteCreate, CreateInvitation, Done
<1>4. ASSUME NEW p \in Visits, NEW t \in Teams, NEW u \in Users, teamMemberAdd(p, t, u)
     \/ teamMemberRemove(p, t, u)
      PROVE  UNCHANGED <<role, orphaned>>
  BY <1>4 DEF teamMemberAdd, AddTeamMember, Done, teamMemberRemove, RemoveTeamMember
<1>5. ASSUME NEW p \in Visits, SetCurrentAccount(p) \/ Give(p) \/ InviteCount(p)
     \/ TransferTo(p) \/ databaseScope(p)
      PROVE  UNCHANGED <<role, orphaned>>
  BY <1>5 DEF SetCurrentAccount, Done, Give, tables, InviteCount, RequireAction, Step, TransferTo,
       databaseScope
<1>6. ASSUME NEW p \in Visits, NEW t \in Teams, teamCreate(p, t) \/ teamDelete(p, t)
      PROVE  UNCHANGED <<role, orphaned>>
  BY <1>6 DEF teamCreate, CreateTeam, Done, teamDelete, DeleteTeam, Unassigned
<1>7. ASSUME NEW p \in Visits, NEW d \in Databases, NEW t \in Teams \cup {None},
     teamDatabaseAssign(p, d, t)
      PROVE  UNCHANGED <<role, orphaned>>
  BY <1>7 DEF teamDatabaseAssign, SetTargetTeam, Done
<1>8. ASSUME NEW i \in Invites, ExpireInvitation(i)
      PROVE  UNCHANGED <<role, orphaned>>
  BY <1>8 DEF ExpireInvitation
<1>9. ASSUME UNCHANGED memberVars
      PROVE  UNCHANGED <<role, orphaned>>
  BY <1>9 DEF memberVars
<1>10. ASSUME NEW p \in Visits, NEW u \in Users, NEW i \in Invites, invitationAccept(p, u,
     i) PROVE OwnerUnlessOrphaned'
  <2>1. \A v \in Users : role[v] = "owner" => role'[v] = "owner"
    BY <1>10 DEF invitationAccept, AcceptInvitation, MembersInv, MembersTypeOK
  <2> QED BY <1>10, <2>1 DEF invitationAccept, MembersInv, OwnerUnlessOrphaned, Owners
<1>11. ASSUME NEW p \in Visits, NEW u \in Users, NEW r \in Roles, memberUpdate(p, u,
     r) PROVE OwnerUnlessOrphaned'
  <2>1. CASE orphaned
    BY <1>11, <2>1 DEF memberUpdate, OwnerUnlessOrphaned
  <2>2. CASE ~orphaned /\ r = "owner"
    BY <1>11, <2>2 DEF memberUpdate, UpdateMemberRole, OwnerUnlessOrphaned, Owners, MembersInv,
         MembersTypeOK
  <2>3. CASE ~orphaned /\ r # "owner"
    <3>1. PICK v \in Owners : v # u
      BY <1>11, <2>3, AnotherOwner DEF memberUpdate, UpdateMemberRole, MembersInv,
           OwnerUnlessOrphaned
    <3> QED BY <1>11, <3>1 DEF memberUpdate, UpdateMemberRole, OwnerUnlessOrphaned, Owners,
         MembersInv, MembersTypeOK
  <2> QED BY <2>1, <2>2, <2>3
<1>12. ASSUME NEW p \in Visits, NEW u \in Users, memberRemove(p, u) PROVE OwnerUnlessOrphaned'
  <2>1. CASE orphaned
    BY <1>12, <2>1 DEF memberRemove, OwnerUnlessOrphaned
  <2>2. CASE ~orphaned
    <3>1. PICK v \in Owners : v # u
      BY <1>12, <2>2, AnotherOwner DEF memberRemove, RemoveMember, MembersInv, OwnerUnlessOrphaned
    <3> QED BY <1>12, <3>1 DEF memberRemove, RemoveMember, OwnerUnlessOrphaned, Owners,
         MembersInv, MembersTypeOK
  <2> QED BY <2>1, <2>2
<1>13. ASSUME NEW p \in Visits, TransferOwnership(p) PROVE OwnerUnlessOrphaned'
  <2>1. visit[p].to \in Users
    BY <1>13 DEF TransferOwnership, MembersInv, VisitsKnow
  <2>2. CASE role[visit[p].to] = None
    BY <1>13, <2>2 DEF TransferOwnership, OwnerUnlessOrphaned
  <2>3. CASE role[visit[p].to] # None
    BY <1>13, <2>1, <2>3 DEF TransferOwnership, OwnerUnlessOrphaned, Owners
  <2> QED BY <2>2, <2>3
<1> QED
  BY <1>1, <1>2, <1>3, <1>4, <1>5, <1>6, <1>7, <1>8, <1>9, <1>10, <1>11, <1>12, <1>13
  DEF MembersNext

\* The foreign keys.
LEMMA TeamStep ==
    ASSUME MembersInv, [MembersNext]_memberVars
    PROVE  NoDeadTeam'
<1> USE MembershipAssumption, RolesAssumption
<1>1. ASSUME UNCHANGED <<teamOf, team, edges>> PROVE NoDeadTeam'
  BY <1>1 DEF MembersInv, NoDeadTeam
<1>2. ASSUME NEW p \in Visits, NEW u \in Users, LoadCurrentAccount(p, u) \/ accountSwitch(p, u)
     \/ memberRemove(p, u) \/ memberTransferOwnership(p, u)
      PROVE  UNCHANGED <<teamOf, team, edges>>
  BY <1>2 DEF LoadCurrentAccount, Arrive, accountSwitch, tables, memberRemove, RemoveMember, Done,
       memberTransferOwnership, RequireAction
<1>3. ASSUME NEW p \in Visits, NEW u \in Users, NEW i \in Invites, invitationAccept(p, u, i)
      PROVE  UNCHANGED <<teamOf, team, edges>>
  BY <1>3 DEF invitationAccept, Arrive, AcceptInvitation
<1>4. ASSUME NEW p \in Visits, NEW u \in Users, NEW r \in InviteRoles, inviteCreate(p, u, r)
      PROVE  UNCHANGED <<teamOf, team, edges>>
  BY <1>4 DEF inviteCreate, CreateInvitation, Done
<1>5. ASSUME NEW p \in Visits, NEW u \in Users, NEW r \in Roles, memberUpdate(p, u, r)
      PROVE  UNCHANGED <<teamOf, team, edges>>
  BY <1>5 DEF memberUpdate, UpdateMemberRole, Done
<1>6. ASSUME NEW p \in Visits, SetCurrentAccount(p) \/ Give(p) \/ InviteCount(p)
     \/ TransferTo(p) \/ TransferOwnership(p) \/ databaseScope(p)
      PROVE  UNCHANGED <<teamOf, team, edges>>
  BY <1>6 DEF SetCurrentAccount, Done, Give, tables, InviteCount, RequireAction, Step, TransferTo,
       TransferOwnership, databaseScope
<1>7. ASSUME NEW i \in Invites, ExpireInvitation(i)
      PROVE  UNCHANGED <<teamOf, team, edges>>
  BY <1>7 DEF ExpireInvitation
<1>8. ASSUME UNCHANGED memberVars
      PROVE  UNCHANGED <<teamOf, team, edges>>
  BY <1>8 DEF memberVars
<1>9. ASSUME NEW p \in Visits, NEW t \in Teams, NEW u \in Users, teamMemberAdd(p, t,
     u) PROVE NoDeadTeam'
  BY <1>9 DEF teamMemberAdd, AddTeamMember, Done, MembersInv, NoDeadTeam, MembersTypeOK
<1>10. ASSUME NEW p \in Visits, NEW t \in Teams, NEW u \in Users, teamMemberRemove(p, t,
     u) PROVE NoDeadTeam'
  BY <1>10 DEF teamMemberRemove, RemoveTeamMember, Done, MembersInv, NoDeadTeam, MembersTypeOK
<1>11. ASSUME NEW p \in Visits, NEW t \in Teams, teamCreate(p, t) PROVE NoDeadTeam'
  BY <1>11 DEF teamCreate, CreateTeam, Done, MembersInv, NoDeadTeam, MembersTypeOK
<1>12. ASSUME NEW p \in Visits, NEW t \in Teams, teamDelete(p, t) PROVE NoDeadTeam'
  BY <1>12 DEF teamDelete, DeleteTeam, Unassigned, Done, MembersInv, NoDeadTeam, MembersTypeOK
<1>13. ASSUME NEW p \in Visits, NEW d \in Databases, NEW t \in Teams \cup {None},
     teamDatabaseAssign(p, d, t) PROVE NoDeadTeam'
  BY <1>13 DEF teamDatabaseAssign, SetTargetTeam, Done, MembersInv, NoDeadTeam, MembersTypeOK
<1> QED
  BY <1>1, <1>2, <1>3, <1>4, <1>5, <1>6, <1>7, <1>8, <1>9, <1>10, <1>11, <1>12, <1>13
  DEF MembersNext

\* An invitation is accepted once.
LEMMA JoinStep ==
    ASSUME MembersInv, [MembersNext]_memberVars
    PROVE  EachJoinInvited'
<1> USE MembershipAssumption, RolesAssumption
<1>1. ASSUME UNCHANGED <<joined, invite>> PROVE EachJoinInvited'
  BY <1>1 DEF MembersInv, EachJoinInvited, AcceptedBy
<1>2. ASSUME NEW p \in Visits, NEW u \in Users, LoadCurrentAccount(p, u) \/ accountSwitch(p, u)
     \/ memberRemove(p, u) \/ memberTransferOwnership(p, u)
      PROVE  UNCHANGED <<joined, invite>>
  BY <1>2 DEF LoadCurrentAccount, Arrive, accountSwitch, tables, memberRemove, RemoveMember, Done,
       memberTransferOwnership, RequireAction
<1>3. ASSUME NEW p \in Visits, NEW u \in Users, NEW r \in Roles, memberUpdate(p, u, r)
      PROVE  UNCHANGED <<joined, invite>>
  BY <1>3 DEF memberUpdate, UpdateMemberRole, Done
<1>4. ASSUME NEW p \in Visits, NEW t \in Teams, NEW u \in Users, teamMemberAdd(p, t, u)
     \/ teamMemberRemove(p, t, u)
      PROVE  UNCHANGED <<joined, invite>>
  BY <1>4 DEF teamMemberAdd, AddTeamMember, Done, teamMemberRemove, RemoveTeamMember
<1>5. ASSUME NEW p \in Visits, SetCurrentAccount(p) \/ Give(p) \/ InviteCount(p)
     \/ TransferTo(p) \/ TransferOwnership(p) \/ databaseScope(p)
      PROVE  UNCHANGED <<joined, invite>>
  BY <1>5 DEF SetCurrentAccount, Done, Give, tables, InviteCount, RequireAction, Step, TransferTo,
       TransferOwnership, databaseScope
<1>6. ASSUME NEW p \in Visits, NEW t \in Teams, teamCreate(p, t) \/ teamDelete(p, t)
      PROVE  UNCHANGED <<joined, invite>>
  BY <1>6 DEF teamCreate, CreateTeam, Done, teamDelete, DeleteTeam, Unassigned
<1>7. ASSUME NEW p \in Visits, NEW d \in Databases, NEW t \in Teams \cup {None},
     teamDatabaseAssign(p, d, t)
      PROVE  UNCHANGED <<joined, invite>>
  BY <1>7 DEF teamDatabaseAssign, SetTargetTeam, Done
<1>8. ASSUME UNCHANGED memberVars
      PROVE  UNCHANGED <<joined, invite>>
  BY <1>8 DEF memberVars
<1>9. ASSUME NEW p \in Visits, NEW u \in Users, NEW i \in Invites, invitationAccept(p, u,
     i) PROVE EachJoinInvited'
  <2>1. /\ invite[i].state = "pending" /\ invite[i].to = u
        /\ invite' = [invite EXCEPT ![i].state = "accepted"]
        /\ joined' = [joined EXCEPT ![u] = IF role[u] = None THEN @ + 1 ELSE @]
    BY <1>9 DEF invitationAccept, AcceptInvitation, Open
  <2>2. /\ AcceptedBy(u)' = AcceptedBy(u) \cup {i} /\ i \notin AcceptedBy(u)
        /\ \A v \in Users : v # u => AcceptedBy(v)' = AcceptedBy(v)
    BY <2>1 DEF AcceptedBy, MembersInv, MembersTypeOK
  <2>3. Cardinality(AcceptedBy(u)') = Cardinality(AcceptedBy(u)) + 1
    BY <2>2, MemberSets, FS_AddElement
  <2>4. Cardinality(AcceptedBy(u)) \in Nat /\ joined \in [Users -> Nat]
    BY MemberSets, FS_CardinalityType DEF MembersInv, MembersTypeOK
  <2>5. \A v \in Users : joined[v] <= Cardinality(AcceptedBy(v))
    BY DEF MembersInv, EachJoinInvited, AcceptedBy
  <2>6. ASSUME NEW v \in Users PROVE joined'[v] <= Cardinality(AcceptedBy(v)')
    BY <2>1, <2>2, <2>3, <2>4, <2>5
  <2> QED BY <2>6 DEF EachJoinInvited, AcceptedBy
<1>10. ASSUME NEW p \in Visits, NEW u \in Users, NEW r \in InviteRoles, inviteCreate(p, u,
     r) PROVE EachJoinInvited'
  <2>1. NewInvite \in Invites /\ invite[NewInvite].state = "none"
    BY <1>10 DEF inviteCreate, CreateInvitation, NewInvite
  <2>2. invite' = [invite EXCEPT ![NewInvite] = [state |-> "pending", to |-> u, role |-> r]]
    BY <1>10 DEF inviteCreate, CreateInvitation
  <2>3. \A v \in Users : AcceptedBy(v)' = AcceptedBy(v)
    BY <2>1, <2>2 DEF AcceptedBy, MembersInv, MembersTypeOK
  <2>4. \A v \in Users : joined[v] <= Cardinality(AcceptedBy(v))
    BY DEF MembersInv, EachJoinInvited, AcceptedBy
  <2>5. \A v \in Users : joined'[v] <= Cardinality(AcceptedBy(v)')
    BY <1>10, <2>3, <2>4 DEF inviteCreate
  <2> QED BY <2>5 DEF EachJoinInvited, AcceptedBy
<1>11. ASSUME NEW i \in Invites, ExpireInvitation(i) PROVE EachJoinInvited'
  <2>3. \A v \in Users : AcceptedBy(v)' = AcceptedBy(v)
    BY <1>11 DEF ExpireInvitation, AcceptedBy, MembersInv, MembersTypeOK
  <2>4. \A v \in Users : joined[v] <= Cardinality(AcceptedBy(v))
    BY DEF MembersInv, EachJoinInvited, AcceptedBy
  <2>5. \A v \in Users : joined'[v] <= Cardinality(AcceptedBy(v)')
    BY <1>11, <2>3, <2>4 DEF ExpireInvitation
  <2> QED BY <2>5 DEF EachJoinInvited, AcceptedBy
<1> QED
  BY <1>1, <1>2, <1>3, <1>4, <1>5, <1>6, <1>7, <1>8, <1>9, <1>10, <1>11
  DEF MembersNext

\* A seat is taken in advance, and given back or filled.
LEMMA SeatStep ==
    ASSUME MembersInv, [MembersNext]_memberVars
    PROVE  SeatOvershoot'
<1> USE MembershipAssumption, RolesAssumption
<1>1. ASSUME UNCHANGED <<role, invite, visit, uncounted>> PROVE SeatOvershoot'
  BY <1>1 DEF MembersInv, SeatOvershoot, Members, Pending, Counted
<1>2. ASSUME UNCHANGED memberVars
      PROVE  UNCHANGED <<role, invite, visit, uncounted>>
  BY <1>2 DEF memberVars
<1>3. ASSUME NEW p \in Visits, NEW u \in Users, LoadCurrentAccount(p, u) PROVE SeatOvershoot'
  <2>1. VisitMoves(p)
    BY <1>3, VisitStep DEF MembersInv
  <2>2. Members' \subseteq Members /\ Pending' \subseteq Pending
    BY <1>3 DEF MembersInv, MembersTypeOK, LoadCurrentAccount, Arrive, Members, Pending
  <2> QED BY <2>1, <2>2, SeatsGiven DEF MembersInv
<1>4. ASSUME NEW p \in Visits, NEW u \in Users, accountSwitch(p, u) PROVE SeatOvershoot'
  <2>1. VisitMoves(p)
    BY <1>4, VisitStep DEF MembersInv
  <2>2. Members' \subseteq Members /\ Pending' \subseteq Pending
    BY <1>4 DEF MembersInv, MembersTypeOK, accountSwitch, Arrive, tables, Members, Pending
  <2> QED BY <2>1, <2>2, SeatsGiven DEF MembersInv
<1>5. ASSUME NEW p \in Visits, NEW u \in Users, NEW i \in Invites, invitationAccept(p, u,
     i) PROVE SeatOvershoot'
  <2>1. /\ invite[i].state = "pending" /\ invite' = [invite EXCEPT ![i].state = "accepted"]
        /\ role' = [role EXCEPT ![u] = IF @ = None THEN invite[i].role ELSE @]
    BY <1>5 DEF invitationAccept, AcceptInvitation, Open
  <2>2. /\ Pending' = Pending \ {i} /\ i \in Pending
        /\ Members' \subseteq Members \cup {u}
    BY <2>1 DEF Pending, Members, MembersInv, MembersTypeOK
  <2>3. VisitMoves(p) /\ visit'[p].at = "enter"
    <3>1. visit' = [visit EXCEPT ![p] = [Idle EXCEPT !.at = "enter", !.by = u]]
      BY <1>5 DEF invitationAccept
    <3> QED BY <1>5, <3>1, VisitStep DEF MembersInv, MembersTypeOK, Idle
  <2>4. Counted' \subseteq Counted
    BY <2>3 DEF Counted, VisitMoves
  <2>5. /\ Cardinality(Members') <= Cardinality(Members) + 1
        /\ Cardinality(Pending') = Cardinality(Pending) - 1
        /\ Cardinality(Counted') <= Cardinality(Counted)
    <3>1. /\ IsFiniteSet(Members \cup {u})
          /\ Cardinality(Members \cup {u}) \in {Cardinality(Members), Cardinality(Members) + 1}
      BY MemberSets, FS_AddElement
    <3>2. Cardinality(Members') <= Cardinality(Members \cup {u})
      BY <2>2, <3>1, FS_Subset
    <3>3. Cardinality(Members') \in Nat /\ Cardinality(Members) \in Nat
      BY MemberSets, MemberSetsNext, FS_CardinalityType
    <3>4. Cardinality(Pending') = Cardinality(Pending) - 1
      BY <2>2, MemberSets, FS_RemoveElement
    <3> QED BY <2>4, <3>1, <3>2, <3>3, <3>4, MemberSets, FS_Subset
  <2>6. /\ Cardinality(Members) \in Nat /\ Cardinality(Pending) \in Nat /\ Cardinality(Counted) \in Nat
        /\ Cardinality(Members') \in Nat /\ Cardinality(Pending') \in Nat
        /\ Cardinality(Counted') \in Nat /\ Cardinality(Visits) \in Nat
    BY MemberSets, MemberSetsNext, FS_CardinalityType
  <2>7. uncounted' = uncounted /\ uncounted \in Nat
    BY <1>5 DEF invitationAccept, MembersInv, MembersTypeOK
  <2> QED BY <2>5, <2>6, <2>7 DEF MembersInv, SeatOvershoot
<1>6. ASSUME NEW p \in Visits, NEW u \in Users, NEW r \in InviteRoles, inviteCreate(p, u,
     r) PROVE SeatOvershoot'
  <2>1. NewInvite \in Invites /\ invite[NewInvite].state = "none" /\ visit[p].at = "counted"
    BY <1>6 DEF inviteCreate, CreateInvitation, NewInvite
  <2>2. /\ invite' = [invite EXCEPT ![NewInvite] = [state |-> "pending", to |-> u, role |-> r]]
        /\ role' = role /\ visit' = [visit EXCEPT ![p] = Idle]
    BY <1>6 DEF inviteCreate, CreateInvitation, Done
  <2>3. Pending' = Pending \cup {NewInvite} /\ NewInvite \notin Pending /\ Members' = Members
    BY <2>1, <2>2 DEF Pending, Members, MembersInv, MembersTypeOK
  <2>4. Counted' = Counted \ {p} /\ p \in Counted
    BY <2>1, <2>2, IdleType DEF Counted, MembersInv, MembersTypeOK
  <2>5. /\ Cardinality(Pending') = Cardinality(Pending) + 1
        /\ Cardinality(Counted') = Cardinality(Counted) - 1
    BY <2>3, <2>4, MemberSets, FS_AddElement, FS_RemoveElement
  <2>6. /\ Cardinality(Members) \in Nat /\ Cardinality(Pending) \in Nat /\ Cardinality(Counted) \in Nat
        /\ Cardinality(Visits) \in Nat
    BY MemberSets, FS_CardinalityType
  <2>7. uncounted' = uncounted /\ uncounted \in Nat
    BY <1>6 DEF inviteCreate, MembersInv, MembersTypeOK
  <2> QED BY <2>3, <2>5, <2>6, <2>7 DEF MembersInv, SeatOvershoot
<1>7. ASSUME NEW p \in Visits, NEW u \in Users, NEW r \in Roles, memberUpdate(p, u,
     r) PROVE SeatOvershoot'
  <2>1. VisitMoves(p)
    BY <1>7, VisitStep DEF MembersInv
  <2>2. Members' \subseteq Members /\ Pending' \subseteq Pending
    BY <1>7 DEF MembersInv, MembersTypeOK, memberUpdate, UpdateMemberRole, Done, Members, Pending
  <2> QED BY <2>1, <2>2, SeatsGiven DEF MembersInv
<1>8. ASSUME NEW p \in Visits, NEW u \in Users, memberRemove(p, u) PROVE SeatOvershoot'
  <2>1. VisitMoves(p)
    BY <1>8, VisitStep DEF MembersInv
  <2>2. Members' \subseteq Members /\ Pending' \subseteq Pending
    BY <1>8 DEF MembersInv, MembersTypeOK, memberRemove, RemoveMember, Done, Members, Pending
  <2> QED BY <2>1, <2>2, SeatsGiven DEF MembersInv
<1>9. ASSUME NEW p \in Visits, NEW u \in Users, memberTransferOwnership(p, u) PROVE SeatOvershoot'
  <2>1. VisitMoves(p)
    BY <1>9, VisitStep DEF MembersInv
  <2>2. Members' \subseteq Members /\ Pending' \subseteq Pending
    BY <1>9 DEF MembersInv, MembersTypeOK, memberTransferOwnership, RequireAction, tables,
         Members, Pending
  <2> QED BY <2>1, <2>2, SeatsGiven DEF MembersInv
<1>10. ASSUME NEW p \in Visits, NEW t \in Teams, NEW u \in Users, teamMemberAdd(p, t,
     u) PROVE SeatOvershoot'
  <2>1. VisitMoves(p)
    BY <1>10, VisitStep DEF MembersInv
  <2>2. Members' \subseteq Members /\ Pending' \subseteq Pending
    BY <1>10 DEF MembersInv, MembersTypeOK, teamMemberAdd, AddTeamMember, Done, Members, Pending
  <2> QED BY <2>1, <2>2, SeatsGiven DEF MembersInv
<1>11. ASSUME NEW p \in Visits, NEW t \in Teams, NEW u \in Users, teamMemberRemove(p, t,
     u) PROVE SeatOvershoot'
  <2>1. VisitMoves(p)
    BY <1>11, VisitStep DEF MembersInv
  <2>2. Members' \subseteq Members /\ Pending' \subseteq Pending
    BY <1>11 DEF MembersInv, MembersTypeOK, teamMemberRemove, RemoveTeamMember, Done, Members,
         Pending
  <2> QED BY <2>1, <2>2, SeatsGiven DEF MembersInv
<1>12. ASSUME NEW p \in Visits, SetCurrentAccount(p) PROVE SeatOvershoot'
  <2>1. VisitMoves(p)
    BY <1>12, VisitStep DEF MembersInv
  <2>2. Members' \subseteq Members /\ Pending' \subseteq Pending
    BY <1>12 DEF MembersInv, MembersTypeOK, SetCurrentAccount, Done, Members, Pending
  <2> QED BY <2>1, <2>2, SeatsGiven DEF MembersInv
<1>13. ASSUME NEW p \in Visits, Give(p) PROVE SeatOvershoot'
  <2>1. VisitMoves(p)
    BY <1>13, VisitStep DEF MembersInv
  <2>2. Members' \subseteq Members /\ Pending' \subseteq Pending
    BY <1>13 DEF MembersInv, MembersTypeOK, Give, Done, tables, Members, Pending
  <2> QED BY <2>1, <2>2, SeatsGiven DEF MembersInv
<1>14. ASSUME NEW p \in Visits, InviteCount(p) PROVE SeatOvershoot'
  <2>1. VisitMoves(p)
    BY <1>14, VisitStep DEF MembersInv
  <2>2. Members' \subseteq Members /\ Pending' \subseteq Pending
    BY <1>14 DEF MembersInv, MembersTypeOK, InviteCount, RequireAction, Step, tables, Members,
         Pending
  <2> QED BY <2>1, <2>2, SeatsGiven DEF MembersInv
<1>15. ASSUME NEW p \in Visits, TransferTo(p) PROVE SeatOvershoot'
  <2>1. VisitMoves(p)
    BY <1>15, VisitStep DEF MembersInv
  <2>2. Members' \subseteq Members /\ Pending' \subseteq Pending
    BY <1>15 DEF MembersInv, MembersTypeOK, TransferTo, Step, tables, Members, Pending
  <2> QED BY <2>1, <2>2, SeatsGiven DEF MembersInv
<1>16. ASSUME NEW p \in Visits, TransferOwnership(p) PROVE SeatOvershoot'
  <2>1. VisitMoves(p)
    BY <1>16, VisitStep DEF MembersInv
  <2>2. Members' \subseteq Members /\ Pending' \subseteq Pending
    BY <1>16 DEF MembersInv, MembersTypeOK, TransferOwnership, Done, Members, Pending
  <2> QED BY <2>1, <2>2, SeatsGiven DEF MembersInv
<1>17. ASSUME NEW p \in Visits, databaseScope(p) PROVE SeatOvershoot'
  <2>1. VisitMoves(p)
    BY <1>17, VisitStep DEF MembersInv
  <2>2. Members' \subseteq Members /\ Pending' \subseteq Pending
    BY <1>17 DEF MembersInv, MembersTypeOK, databaseScope, tables, Members, Pending
  <2> QED BY <2>1, <2>2, SeatsGiven DEF MembersInv
<1>18. ASSUME NEW p \in Visits, NEW t \in Teams, teamCreate(p, t) PROVE SeatOvershoot'
  <2>1. VisitMoves(p)
    BY <1>18, VisitStep DEF MembersInv
  <2>2. Members' \subseteq Members /\ Pending' \subseteq Pending
    BY <1>18 DEF MembersInv, MembersTypeOK, teamCreate, CreateTeam, Done, Members, Pending
  <2> QED BY <2>1, <2>2, SeatsGiven DEF MembersInv
<1>19. ASSUME NEW p \in Visits, NEW t \in Teams, teamDelete(p, t) PROVE SeatOvershoot'
  <2>1. VisitMoves(p)
    BY <1>19, VisitStep DEF MembersInv
  <2>2. Members' \subseteq Members /\ Pending' \subseteq Pending
    BY <1>19 DEF MembersInv, MembersTypeOK, teamDelete, DeleteTeam, Unassigned, Done, Members,
         Pending
  <2> QED BY <2>1, <2>2, SeatsGiven DEF MembersInv
<1>20. ASSUME NEW p \in Visits, NEW d \in Databases, NEW t \in Teams \cup {None},
     teamDatabaseAssign(p, d, t) PROVE SeatOvershoot'
  <2>1. VisitMoves(p)
    BY <1>20, VisitStep DEF MembersInv
  <2>2. Members' \subseteq Members /\ Pending' \subseteq Pending
    BY <1>20 DEF MembersInv, MembersTypeOK, teamDatabaseAssign, SetTargetTeam, Done, Members,
         Pending
  <2> QED BY <2>1, <2>2, SeatsGiven DEF MembersInv
<1>21. ASSUME NEW i \in Invites, ExpireInvitation(i) PROVE SeatOvershoot'
  <2>1. Members' = Members /\ Pending' = Pending /\ Counted' = Counted /\ uncounted' = uncounted
    BY <1>21 DEF ExpireInvitation, Members, Pending, Counted, MembersInv, MembersTypeOK
  <2> QED BY <2>1 DEF MembersInv, SeatOvershoot
<1> QED
  BY <1>1, <1>2, <1>3, <1>4, <1>5, <1>6, <1>7, <1>8, <1>9, <1>10, <1>11, <1>12, <1>13, <1>14,
       <1>15, <1>16, <1>17, <1>18, <1>19, <1>20, <1>21
  DEF MembersNext

\* Initially there is the founder.
LEMMA MembersStart == MembersInit => MembersInv
<1> USE MembershipAssumption, RolesAssumption
<1> SUFFICES ASSUME MembersInit PROVE MembersInv
  OBVIOUS
<1>1. MembersTypeOK
  <2>1. visit \in [Visits -> VisitType]
    BY IdleType DEF MembersInit
  <2>2. /\ role \in [Users -> Roles \cup {None}] /\ current \in [Users -> {"own", "shared"}]
        /\ team \in [Teams -> {"new", "live", "deleted"}]
        /\ teamOf \in [Databases -> Teams \cup {None}] /\ joined \in [Users -> Nat] /\ visits \in Nat
    BY DEF MembersInit
  <2>3. invite \in [Invites -> [state : {"none", "pending", "accepted", "expired"},
                                to : Users \cup {None}, role : InviteRoles \cup {None}]]
    BY DEF MembersInit
  <2> QED BY <2>1, <2>2, <2>3 DEF MembersInit, MembersTypeOK
<1>2. VisitsKnow
  BY IdleType DEF MembersInit, VisitsKnow
<1>3. OwnerUnlessOrphaned
  BY DEF MembersInit, OwnerUnlessOrphaned, Owners
<1>4. SeatOvershoot
  <2>1. Members = {Founder} /\ Pending = {} /\ Counted = {}
    BY IdleType DEF MembersInit, Members, Pending, Counted
  <2>2. Cardinality(Members) = 1 /\ Cardinality(Pending) = 0 /\ Cardinality(Counted) = 0
    BY <2>1, FS_Singleton, FS_EmptySet
  <2>3. Cardinality(Visits) \in Nat /\ Cardinality(Visits) # 0
    BY FS_CardinalityType, FS_EmptySet
  <2>4. uncounted = 0
    BY DEF MembersInit
  <2> QED BY <2>2, <2>3, <2>4, MembershipAssumption DEF SeatOvershoot
<1>5. EachJoinInvited
  <2>1. ASSUME NEW u \in Users PROVE joined[u] <= Cardinality(AcceptedBy(u))
    <3>1. Cardinality(AcceptedBy(u)) \in Nat
      BY MemberSets, FS_CardinalityType
    <3> QED BY <3>1 DEF MembersInit
  <2> QED BY <2>1 DEF EachJoinInvited, AcceptedBy
<1>6. NoDeadTeam
  BY DEF MembersInit, NoDeadTeam
<1> QED BY <1>1, <1>2, <1>3, <1>4, <1>5, <1>6 DEF MembersInv

\* What a listing shows follows from the scope of the request.
LEMMA MembersSafety == ASSUME MembersInv PROVE MembersSafe
<1>1. ScopeGranted
  BY DEF MembersInv, VisitsKnow, ScopeGranted, Visible
<1> QED BY <1>1 DEF MembersInv, MembersSafe

\* However requests on one account race it keeps an owner, seats are exceeded only by requests
\* that counted at once or of whose two lists one failed, nobody joins uninvited or sees the
\* databases of a team he was never put on, and no database is left with a deleted team, whatever
\* the plan's seats and the number of requests (account/store.go, team.go).
THEOREM MembersAreSafe == MembersSpec => []MembersSafe
<1>1. MembersInv /\ [MembersNext]_memberVars => MembersInv'
  BY MembersTypeStep, VisitsKnowStep, OwnerStep, TeamStep, JoinStep, SeatStep DEF MembersInv
<1>2. MembersInv => MembersSafe
  BY MembersSafety
<1> QED BY <1>1, <1>2, MembersStart, PTL DEF MembersSpec

-----------------------------------------------------------------------------
(* Identity providers.  A cookie and a callback speak of flows that have been  *)
(* started; what a started flow is does not change, and its identity is fixed  *)
(* with its code.                                                           *)

FlowRecords ==
    [at : {"unused", "consent", "code", "denied", "spent"}, kind : {"social", "staff"},
     here : BOOLEAN, email : Emails, ok : BOOLEAN]
HopRecords ==
    [at : {"none", "state", "exchange", "sorry", "finish"}, flow : Flows \cup {0},
     cookie : Flows \cup {0}, staffFlow : BOOLEAN, user : Emails \cup {"nobody", "gone"}]

OAuthTypes ==
    /\ jar \in [social : Flows \cup {0}, staff : Flows \cup {0}, marker : BOOLEAN]
    /\ flow \in [Flows -> FlowRecords] /\ hop \in [Hops -> HopRecords]
    /\ stepped \in Flows \cup {0} /\ cameBy \in Flows \cup {0}
    /\ onStaff \in BOOLEAN /\ who \in Emails \cup {"nobody"}
    /\ dropped \subseteq Flows /\ puzzled \subseteq Flows /\ hops \in 0 .. MaxHops

\* A flow of this browser, of the kind its cookie is for.
Own(f, kind) == flow[f].at # "unused" /\ flow[f].here /\ flow[f].kind = kind

\* The cookies hold flows of their kind, and every one of them that was not given up.
JarKnown ==
    /\ jar.social # 0 => Own(jar.social, "social")
    /\ jar.staff # 0 => Own(jar.staff, "staff")
    /\ \A f \in Flows : Own(f, "social") /\ f \notin dropped => jar.social = f
    /\ \A f \in Flows : Own(f, "staff") /\ f \notin dropped => jar.staff = f /\ jar.marker

HopKnown(h) ==
    /\ hop[h].at # "none" =>
          hop[h].flow # 0 /\ flow[hop[h].flow].at \in {"code", "denied", "spent"}
    /\ hop[h].cookie # 0 => Own(hop[h].cookie, IF hop[h].staffFlow THEN "staff" ELSE "social")
    /\ hop[h].at \in {"exchange", "sorry", "finish"} => hop[h].cookie = hop[h].flow
    /\ hop[h].at = "finish" => flow[hop[h].flow].ok /\ flow[hop[h].flow].at = "spent"
    /\ hop[h].at = "state" /\ flow[hop[h].flow].here /\ hop[h].flow \notin dropped =>
          \/ hop[h].cookie = hop[h].flow
          \/ flow[hop[h].flow].kind = "social" /\ hop[h].staffFlow
    /\ hop[h].user \in Emails => hop[h].user = who

HopsKnown == \A h \in Hops : HopKnown(h)

\* What signed the browser in is spent.
Spent ==
    /\ cameBy # 0 => flow[cameBy].at = "spent"
    /\ stepped # 0 => flow[stepped].at = "spent"

OAuthInv ==
    OAuthTypes /\ JarKnown /\ HopsKnown /\ Spent /\ OwnFlow /\ StepUpOwned /\ TabsApart

\* A started flow stays what it is, and a spent one as it is.
FlowsGoOn ==
    \A g \in Flows : flow[g].at # "unused" =>
        /\ flow'[g].at # "unused" /\ flow'[g].here = flow[g].here /\ flow'[g].kind = flow[g].kind
        /\ flow[g].at \in {"code", "denied", "spent"} => flow'[g].at \in {"code", "denied", "spent"}
        /\ flow[g].at = "spent" => flow'[g] = flow[g]

\* What rests on flows alone stays.
LEMMA FlowsKept ==
    ASSUME OAuthInv, FlowsGoOn, UNCHANGED <<hop, who, cameBy, stepped, puzzled>>,
           dropped \subseteq dropped'
    PROVE  HopsKnown' /\ Spent' /\ OwnFlow' /\ StepUpOwned' /\ TabsApart'
<1> USE OAuthAssumption DEF OAuthInv
<1>1. ASSUME NEW h \in Hops PROVE HopKnown(h)'
  <2>1. /\ hop[h].at # "none" => hop[h].flow \in Flows
        /\ hop[h].cookie # 0 => hop[h].cookie \in Flows
    BY DEF OAuthTypes, HopRecords, HopsKnown, HopKnown
  <2>2. HopKnown(h)
    BY DEF HopsKnown
  <2> QED BY <2>1, <2>2 DEF HopKnown, Own, FlowsGoOn
<1>2. Spent' /\ OwnFlow' /\ StepUpOwned'
  BY DEF OAuthTypes, Spent, OwnFlow, StepUpOwned, FlowsGoOn
<1> QED BY <1>1, <1>2 DEF HopsKnown, TabsApart

SessionGone(g) == [hop[g] EXCEPT !.user = IF @ = "nobody" THEN @ ELSE "gone"]

\* A callback that ends leaves the others as they are, or with their session gone.
LEMMA HopsKept ==
    ASSUME OAuthInv, UNCHANGED flow, dropped \subseteq dropped', NEW h \in Hops,
           hop'[h] = NoHop,
           \A g \in Hops \ {h} : \/ hop'[g] = hop[g] /\ UNCHANGED who
                                 \/ hop'[g] = SessionGone(g)
    PROVE  HopsKnown'
<1> USE OAuthAssumption DEF OAuthInv
<1>1. HopKnown(h)'
  BY DEF HopKnown, NoHop, Emails
<1>2. ASSUME NEW g \in Hops, g # h PROVE HopKnown(g)'
  <2>1. HopKnown(g) /\ hop[g] \in HopRecords
    BY DEF HopsKnown, OAuthTypes
  <2>2. /\ hop'[g].at = hop[g].at /\ hop'[g].flow = hop[g].flow /\ hop'[g].cookie = hop[g].cookie
        /\ hop'[g].staffFlow = hop[g].staffFlow
        /\ hop'[g].user \in Emails => hop'[g].user = hop[g].user /\ UNCHANGED who
    <3>1. CASE hop'[g] = hop[g] /\ UNCHANGED who
      BY <3>1
    <3>2. CASE hop'[g] = SessionGone(g)
      <4>1. PICK u \in {"nobody", "gone"} : SessionGone(g) = [hop[g] EXCEPT !.user = u]
        BY <2>1 DEF HopRecords, SessionGone
      <4> QED BY <2>1, <3>2, <4>1 DEF HopRecords, Emails
    <3> QED BY <1>2, <3>1, <3>2
  <2> QED BY <2>1, <2>2 DEF HopKnown, Own
<1> QED BY <1>1, <1>2 DEF HopsKnown

\* A new sign-in: its flow was unused, so nobody spoke of it.
LEMMA oauthStartStep ==
    ASSUME OAuthInv, NEW f \in Flows, oauthStart(f)
    PROVE  OAuthInv'
<1> USE OAuthAssumption DEF OAuthInv
<1>z. UNCHANGED <<hop, who, cameBy, stepped, puzzled>>
  BY DEF oauthStart, Started, NextFlow
<1>a. /\ flow' \in [Flows -> FlowRecords] /\ FlowsGoOn
      /\ flow'[f].at = "consent" /\ flow'[f].here /\ flow'[f].kind = "social" /\ flow[f].at = "unused"
      /\ \A g \in Flows : g # f => flow'[g] = flow[g]
  BY DEF oauthStart, Started, NextFlow, OAuthTypes, FlowRecords, NoFlow, Emails, FlowsGoOn
<1>b. jar' = [jar EXCEPT !.social = f] /\ dropped' = dropped \cup ({jar.social} \ {0})
  BY DEF oauthStart
<1>c. jar'.social = f /\ jar'.staff = jar.staff /\ jar'.marker = jar.marker
      /\ jar' \in [social : Flows \cup {0}, staff : Flows \cup {0}, marker : BOOLEAN]
  BY <1>b DEF OAuthTypes
<1>1. OAuthTypes'
  BY <1>a, <1>b, <1>c DEF oauthStart, OAuthTypes
<1>2. JarKnown'
  BY <1>a, <1>b, <1>c DEF JarKnown, Own, OAuthTypes
<1>3. HopsKnown'
  BY <1>a, <1>b, <1>z, FlowsKept
<1>4. Spent'
  BY <1>a, <1>b, <1>z, FlowsKept
<1>5. OwnFlow'
  BY <1>a, <1>b, <1>z, FlowsKept
<1>6. StepUpOwned'
  BY <1>a, <1>b, <1>z, FlowsKept
<1>7. TabsApart'
  BY <1>a, <1>b, <1>z, FlowsKept
<1> QED BY <1>1, <1>2, <1>3, <1>4, <1>5, <1>6, <1>7

\* A new step-up, the same way.
LEMMA adminSSOStartStep ==
    ASSUME OAuthInv, NEW f \in Flows, adminSSOStart(f)
    PROVE  OAuthInv'
<1> USE OAuthAssumption DEF OAuthInv
<1>z. UNCHANGED <<hop, who, cameBy, stepped, puzzled>>
  BY DEF adminSSOStart, Started, NextFlow
<1>a. /\ flow' \in [Flows -> FlowRecords] /\ FlowsGoOn
      /\ flow'[f].at = "consent" /\ flow'[f].here /\ flow'[f].kind = "staff" /\ flow[f].at = "unused"
      /\ \A g \in Flows : g # f => flow'[g] = flow[g]
  BY DEF adminSSOStart, Started, NextFlow, OAuthTypes, FlowRecords, NoFlow, Emails, FlowsGoOn
<1>b. jar' = [jar EXCEPT !.staff = f,
     !.marker = TRUE] /\ dropped' = dropped \cup ({jar.staff} \ {0})
  BY DEF adminSSOStart, staffOAuthStateCookie
<1>c. jar'.social = jar.social /\ jar'.staff = f /\ jar'.marker
      /\ jar' \in [social : Flows \cup {0}, staff : Flows \cup {0}, marker : BOOLEAN]
  BY <1>b DEF OAuthTypes
<1>1. OAuthTypes'
  BY <1>a, <1>b, <1>c DEF adminSSOStart, OAuthTypes
<1>2. JarKnown'
  BY <1>a, <1>b, <1>c DEF JarKnown, Own, OAuthTypes
<1>3. HopsKnown'
  BY <1>a, <1>b, <1>z, FlowsKept
<1>4. Spent'
  BY <1>a, <1>b, <1>z, FlowsKept
<1>5. OwnFlow'
  BY <1>a, <1>b, <1>z, FlowsKept
<1>6. StepUpOwned'
  BY <1>a, <1>b, <1>z, FlowsKept
<1>7. TabsApart'
  BY <1>a, <1>b, <1>z, FlowsKept
<1> QED BY <1>1, <1>2, <1>3, <1>4, <1>5, <1>6, <1>7

\* A flow of another browser is not an own one.
LEMMA StartElsewhereStep ==
    ASSUME OAuthInv, NEW f \in Flows, NEW k \in {"social", "staff"}, StartElsewhere(f, k)
    PROVE  OAuthInv'
<1> USE OAuthAssumption DEF OAuthInv
<1>z. UNCHANGED <<hop, who, cameBy, stepped, puzzled>>
  BY DEF StartElsewhere, Started, NextFlow
<1>a. /\ flow' \in [Flows -> FlowRecords] /\ FlowsGoOn
      /\ flow'[f].at = "consent" /\ ~flow'[f].here /\ flow[f].at = "unused"
      /\ \A g \in Flows : g # f => flow'[g] = flow[g]
  BY DEF StartElsewhere, Started, NextFlow, OAuthTypes, FlowRecords, NoFlow, Emails, FlowsGoOn
<1>b. dropped' = dropped /\ jar' = jar
  BY DEF StartElsewhere
<1>1. OAuthTypes'
  BY <1>a DEF StartElsewhere, OAuthTypes
<1>2. JarKnown'
  BY <1>a, <1>b DEF JarKnown, Own, OAuthTypes
<1>3. HopsKnown'
  BY <1>a, <1>b, <1>z, FlowsKept
<1>4. Spent'
  BY <1>a, <1>b, <1>z, FlowsKept
<1>5. OwnFlow'
  BY <1>a, <1>b, <1>z, FlowsKept
<1>6. StepUpOwned'
  BY <1>a, <1>b, <1>z, FlowsKept
<1>7. TabsApart'
  BY <1>a, <1>b, <1>z, FlowsKept
<1> QED BY <1>1, <1>2, <1>3, <1>4, <1>5, <1>6, <1>7

\* The identity is fixed with the code.
LEMMA AuthCodeURLStep ==
    ASSUME OAuthInv, NEW f \in Flows, NEW e \in Emails, NEW ok \in BOOLEAN, AuthCodeURL(f, e, ok)
    PROVE  OAuthInv'
<1> USE OAuthAssumption DEF OAuthInv
<1>z. UNCHANGED <<hop, who, cameBy, stepped, puzzled>>
  BY DEF AuthCodeURL
<1> DEFINE r == [flow[f] EXCEPT !.at = "code", !.email = e, !.ok = ok]
<1>0. flow' = [flow EXCEPT ![f] = r] /\ flow[f].at = "consent"
  BY DEF AuthCodeURL, OAuthTypes
<1>y. r \in FlowRecords /\ r.at = "code" /\ r.here = flow[f].here /\ r.kind = flow[f].kind
  <2> DEFINE B == BOOLEAN
  <2>1. /\ FlowRecords = [at : {"unused", "consent", "code", "denied", "spent"},
                          kind : {"social", "staff"}, here : B, email : Emails, ok : B]
        /\ ok \in B
    BY DEF FlowRecords
  <2>2. flow[f] \in FlowRecords
    BY DEF OAuthTypes
  <2> HIDE DEF B
  <2> QED BY <2>1, <2>2
<1> HIDE DEF r
<1>a. /\ flow' \in [Flows -> FlowRecords] /\ FlowsGoOn
      /\ flow'[f].at = "code" /\ flow'[f].here = flow[f].here /\ flow'[f].kind = flow[f].kind
      /\ flow[f].at = "consent" /\ \A g \in Flows : g # f => flow'[g] = flow[g]
  BY <1>0, <1>y DEF OAuthTypes, FlowsGoOn
<1>b. dropped' = dropped /\ jar' = jar
  BY DEF AuthCodeURL
<1>1. OAuthTypes'
  BY <1>a DEF AuthCodeURL, OAuthTypes
<1>2. JarKnown'
  BY ZenonT(20), <1>a, <1>b DEF JarKnown, Own, OAuthTypes
<1>3. HopsKnown'
  BY <1>a, <1>b, <1>z, FlowsKept
<1>4. Spent'
  BY <1>a, <1>b, <1>z, FlowsKept
<1>5. OwnFlow'
  BY <1>a, <1>b, <1>z, FlowsKept
<1>6. StepUpOwned'
  BY <1>a, <1>b, <1>z, FlowsKept
<1>7. TabsApart'
  BY <1>a, <1>b, <1>z, FlowsKept
<1> QED BY <1>1, <1>2, <1>3, <1>4, <1>5, <1>6, <1>7

\* A refusal starts nothing.
LEMMA DenyStep ==
    ASSUME OAuthInv, NEW f \in Flows, Deny(f)
    PROVE  OAuthInv'
<1> USE OAuthAssumption DEF OAuthInv
<1>z. UNCHANGED <<hop, who, cameBy, stepped, puzzled>>
  BY DEF Deny
<1>a. /\ flow' \in [Flows -> FlowRecords] /\ FlowsGoOn
      /\ flow'[f].at = "denied" /\ flow'[f].here = flow[f].here /\ flow'[f].kind = flow[f].kind
      /\ flow[f].at = "consent" /\ \A g \in Flows : g # f => flow'[g] = flow[g]
  BY DEF Deny, OAuthTypes, FlowRecords, NoFlow, Emails, FlowsGoOn
<1>b. dropped' = dropped /\ jar' = jar
  BY DEF Deny
<1>1. OAuthTypes'
  BY <1>a DEF Deny, OAuthTypes
<1>2. JarKnown'
  BY ZenonT(20), <1>a, <1>b DEF JarKnown, Own, OAuthTypes
<1>3. HopsKnown'
  BY <1>a, <1>b, <1>z, FlowsKept
<1>4. Spent'
  BY <1>a, <1>b, <1>z, FlowsKept
<1>5. OwnFlow'
  BY <1>a, <1>b, <1>z, FlowsKept
<1>6. StepUpOwned'
  BY <1>a, <1>b, <1>z, FlowsKept
<1>7. TabsApart'
  BY <1>a, <1>b, <1>z, FlowsKept
<1> QED BY <1>1, <1>2, <1>3, <1>4, <1>5, <1>6, <1>7

\* The cookies of the moment go with the request.
LEMMA OpenCallbackStep ==
    ASSUME OAuthInv, NEW h \in Hops, NEW f \in Flows, OpenCallback(h, f)
    PROVE  OAuthInv'
<1> USE OAuthAssumption DEF OAuthInv
<1> DEFINE r == [at |-> "state", flow |-> f, user |-> who, staffFlow |-> jar.marker,
                 cookie |-> IF jar.marker THEN jar.staff ELSE jar.social]
<1>a. hop' = [hop EXCEPT ![h] = r] /\ UNCHANGED <<jar, flow, who, stepped, cameBy, dropped,
                                                  puzzled>>
  BY DEF OpenCallback
<1>b. r \in HopRecords /\ r.at = "state" /\ r.flow = f /\ r.user = who /\ r.staffFlow = jar.marker
      /\ r.cookie = (IF jar.marker THEN jar.staff ELSE jar.social)
  BY DEF OAuthTypes, HopRecords
<1>c. flow[f].at \in {"code", "denied", "spent"}
  BY DEF OpenCallback
<1> HIDE DEF r
<1>d. hop' \in [Hops -> HopRecords] /\ hop'[h] = r /\ \A g \in Hops : g # h => hop'[g] = hop[g]
  BY <1>a, <1>b DEF OAuthTypes
<1>1. OAuthTypes'
  BY <1>d DEF OpenCallback, OAuthTypes
<1>2. JarKnown'
  BY <1>a DEF JarKnown, Own
<1>3. HopsKnown'
  <2>1. HopKnown(h)'
    BY <1>a, <1>b, <1>c, <1>d DEF HopKnown, JarKnown, Own, OAuthTypes, FlowRecords
  <2>2. ASSUME NEW g \in Hops, g # h PROVE HopKnown(g)'
    BY <1>a, <1>d, <2>2 DEF HopsKnown, HopKnown, Own
  <2> QED BY <2>1, <2>2 DEF HopsKnown
<1>4. Spent'
  BY <1>a DEF Spent
<1>5. OwnFlow'
  BY <1>a DEF OwnFlow
<1>6. StepUpOwned'
  BY <1>a DEF StepUpOwned
<1>7. TabsApart'
  BY <1>a DEF TabsApart
<1> QED BY <1>1, <1>2, <1>3, <1>4, <1>5, <1>6, <1>7

\* Another state than the cookie: the browser gave it up, or did not start it.
LEMMA RefuseStateStep ==
    ASSUME OAuthInv, NEW h \in Hops, RefuseState(h)
    PROVE  OAuthInv'
<1> USE OAuthAssumption DEF OAuthInv
<1>a. /\ hop[h].at = "state" /\ hop[h].cookie # hop[h].flow /\ hop' = [hop EXCEPT ![h] = NoHop]
      /\ UNCHANGED <<jar, flow, who, stepped, cameBy, dropped>>
  BY DEF RefuseState, StateMatches
<1>b. NoHop \in HopRecords
  BY DEF NoHop, HopRecords
<1>c. hop' \in [Hops -> HopRecords] /\ hop'[h] = NoHop /\ \A g \in Hops \ {h} : hop'[g] = hop[g]
  BY <1>a, <1>b DEF OAuthTypes
<1>d. puzzled' = puzzled
  BY <1>a DEF RefuseState, HopsKnown, HopKnown
<1>1. OAuthTypes'
  BY <1>c, <1>d DEF RefuseState, OAuthTypes
<1>2. JarKnown'
  BY <1>a, <1>d DEF JarKnown, Own
<1>3. HopsKnown'
  BY <1>a, <1>c, HopsKept
<1>4. Spent'
  BY <1>a, <1>d DEF Spent
<1>5. OwnFlow'
  BY <1>a, <1>d DEF OwnFlow
<1>6. StepUpOwned'
  BY <1>a, <1>d DEF StepUpOwned
<1>7. TabsApart'
  BY <1>a, <1>d DEF TabsApart
<1> QED BY <1>1, <1>2, <1>3, <1>4, <1>5, <1>6, <1>7

\* The state of the cookie is the one of the address.
LEMMA AcceptStateStep ==
    ASSUME OAuthInv, NEW h \in Hops, AcceptState(h)
    PROVE  OAuthInv'
<1> USE OAuthAssumption DEF OAuthInv
<1> DEFINE l == IF flow[hop[h].flow].at = "denied" THEN "sorry" ELSE "exchange"
<1>a. /\ hop[h].at = "state" /\ hop[h].cookie = hop[h].flow /\ hop' = [hop EXCEPT ![h].at = l]
      /\ UNCHANGED <<jar, flow, who, stepped, cameBy, dropped, puzzled>>
  BY DEF AcceptState, StateMatches
<1>b. l \in {"sorry", "exchange"}
  OBVIOUS
<1> HIDE DEF l
<1>c. /\ hop' \in [Hops -> HopRecords] /\ \A g \in Hops : g # h => hop'[g] = hop[g]
      /\ hop'[h].at = l /\ hop'[h].flow = hop[h].flow /\ hop'[h].cookie = hop[h].cookie
      /\ hop'[h].staffFlow = hop[h].staffFlow /\ hop'[h].user = hop[h].user
  BY <1>a, <1>b DEF OAuthTypes, HopRecords
<1>1. OAuthTypes'
  BY <1>c DEF AcceptState, OAuthTypes
<1>2. JarKnown'
  BY <1>a DEF JarKnown, Own
<1>3. HopsKnown'
  <2>1. HopKnown(h)'
    BY <1>a, <1>b, <1>c DEF HopsKnown, HopKnown, Own
  <2>2. ASSUME NEW g \in Hops, g # h PROVE HopKnown(g)'
    BY <1>a, <1>c, <2>2 DEF HopsKnown, HopKnown, Own
  <2> QED BY <2>1, <2>2 DEF HopsKnown
<1>4. Spent'
  BY <1>a DEF Spent
<1>5. OwnFlow'
  BY <1>a DEF OwnFlow
<1>6. StepUpOwned'
  BY <1>a DEF StepUpOwned
<1>7. TabsApart'
  BY <1>a DEF TabsApart
<1> QED BY <1>1, <1>2, <1>3, <1>4, <1>5, <1>6, <1>7

\* A code is spent once, for the verifier of its own flow.
LEMMA IdentityStep ==
    ASSUME OAuthInv, NEW h \in Hops, Identity(h)
    PROVE  OAuthInv'
<1> USE OAuthAssumption DEF OAuthInv
<1>0. /\ hop[h].at = "exchange" /\ hop[h].flow \in Flows /\ hop[h].cookie = hop[h].flow
      /\ flow[hop[h].flow].at \in {"code", "denied", "spent"} /\ hop[h] \in HopRecords
      /\ UNCHANGED <<jar, who, onStaff, stepped, cameBy, dropped, puzzled, hops>>
  BY DEF Identity, HopsKnown, HopKnown, OAuthTypes, HopRecords
<1>1a. \/ /\ flow' = [flow EXCEPT ![hop[h].flow].at = "spent"] /\ flow[hop[h].flow].at = "code"
          /\ flow[hop[h].flow].ok /\ hop' = [hop EXCEPT ![h].at = "finish"]
       \/ /\ flow' = [flow EXCEPT ![hop[h].flow].at = "spent"] /\ flow[hop[h].flow].at = "code"
          /\ hop' = [hop EXCEPT ![h].at = "sorry"]
       \/ flow' = flow /\ hop' = [hop EXCEPT ![h].at = "sorry"]
  BY <1>0 DEF Identity, Redeems, Trusted
<1>a. flow' \in [Flows -> FlowRecords] /\ FlowsGoOn
  <2>1. CASE flow' = [flow EXCEPT ![hop[h].flow].at = "spent"] /\ flow[hop[h].flow].at = "code"
    <3>1. /\ flow'[hop[h].flow].at = "spent" /\ flow'[hop[h].flow].here = flow[hop[h].flow].here
          /\ flow'[hop[h].flow].kind = flow[hop[h].flow].kind /\ flow' \in [Flows -> FlowRecords]
          /\ \A g \in Flows : g # hop[h].flow => flow'[g] = flow[g]
      BY <1>0, <2>1 DEF OAuthTypes, FlowRecords
    <3> QED BY <1>0, <2>1, <3>1 DEF FlowsGoOn
  <2>2. CASE flow' = flow
    BY <2>2 DEF FlowsGoOn, OAuthTypes
  <2> QED BY <1>1a, <2>1, <2>2
<1>b. /\ hop' \in [Hops -> HopRecords] /\ \A g \in Hops : g # h => hop'[g] = hop[g]
      /\ hop'[h].flow = hop[h].flow /\ hop'[h].cookie = hop[h].cookie
      /\ hop'[h].staffFlow = hop[h].staffFlow /\ hop'[h].user = hop[h].user
      /\ \/ hop'[h].at = "sorry"
         \/ hop'[h].at = "finish" /\ flow'[hop[h].flow].at = "spent" /\ flow'[hop[h].flow].ok
  <2>1. CASE hop' = [hop EXCEPT ![h].at = "sorry"]
    BY <2>1 DEF OAuthTypes, HopRecords
  <2>2. CASE /\ flow' = [flow EXCEPT ![hop[h].flow].at = "spent"] /\ flow[hop[h].flow].ok
             /\ hop' = [hop EXCEPT ![h].at = "finish"]
    <3>1. flow'[hop[h].flow].at = "spent" /\ flow'[hop[h].flow].ok
      BY <1>0, <2>2 DEF OAuthTypes, FlowRecords
    <3>2. hop'[h] = [hop[h] EXCEPT !.at = "finish"] /\ \A g \in Hops : g # h => hop'[g] = hop[g]
      BY <2>2 DEF OAuthTypes
    <3>3. /\ hop'[h] \in HopRecords /\ hop'[h].at = "finish" /\ hop'[h].flow = hop[h].flow
          /\ hop'[h].cookie = hop[h].cookie /\ hop'[h].staffFlow = hop[h].staffFlow
          /\ hop'[h].user = hop[h].user
      BY <1>0, <3>2 DEF HopRecords
    <3>4. hop' \in [Hops -> HopRecords]
      BY <2>2, <3>2, <3>3 DEF OAuthTypes
    <3> QED BY <3>1, <3>2, <3>3, <3>4
  <2> QED BY <1>1a, <2>1, <2>2
<1>c. \A g \in Flows : flow'[g].here = flow[g].here /\ flow'[g].kind = flow[g].kind
                       /\ (flow[g].at = "unused" <=> flow'[g].at = "unused")
  <2>1. CASE flow' = [flow EXCEPT ![hop[h].flow].at = "spent"] /\ flow[hop[h].flow].at = "code"
    BY <1>0, <2>1 DEF OAuthTypes, FlowRecords
  <2>2. CASE flow' = flow
    BY <2>2
  <2> QED BY <1>1a, <2>1, <2>2
<1>1. OAuthTypes'
  BY <1>0, <1>a, <1>b DEF OAuthTypes
<1>2. JarKnown'
  BY ZenonT(20), <1>0, <1>c DEF JarKnown, Own, OAuthTypes
<1>3. HopsKnown'
  <2>1. HopKnown(h)'
    <3>1. HopKnown(h) /\ flow'[hop[h].flow].at \in {"code", "denied", "spent"}
      BY <1>0, <1>a DEF HopsKnown, FlowsGoOn
    <3>2. Own(hop[h].cookie, IF hop[h].staffFlow THEN "staff" ELSE "social")
      BY <1>0, <3>1 DEF HopKnown
    <3>3. /\ flow'[hop[h].flow].here = flow[hop[h].flow].here
          /\ flow'[hop[h].flow].kind = flow[hop[h].flow].kind
      BY <1>0, <1>c
    <3> QED BY <1>0, <1>b, <3>1, <3>2, <3>3 DEF HopKnown, Own
  <2>2. ASSUME NEW g \in Hops, g # h PROVE HopKnown(g)'
    <3>1. /\ hop[g].at # "none" => hop[g].flow \in Flows
          /\ hop[g].cookie # 0 => hop[g].cookie \in Flows
      BY DEF OAuthTypes, HopRecords, HopsKnown, HopKnown
    <3>2. HopKnown(g)
      BY DEF HopsKnown
    <3>3. hop'[g] = hop[g] /\ who' = who /\ dropped' = dropped
      BY <1>0, <1>b, <2>2
    <3> QED BY <1>a, <1>c, <3>1, <3>2, <3>3 DEF HopKnown, Own, FlowsGoOn
  <2> QED BY <2>1, <2>2 DEF HopsKnown
<1>4. Spent'
  BY <1>0, <1>a DEF OAuthTypes, Spent, OwnFlow, StepUpOwned, TabsApart, FlowsGoOn
<1>5. OwnFlow'
  BY <1>0, <1>a DEF OAuthTypes, Spent, OwnFlow, StepUpOwned, TabsApart, FlowsGoOn
<1>6. StepUpOwned'
  BY <1>0, <1>a DEF OAuthTypes, Spent, OwnFlow, StepUpOwned, TabsApart, FlowsGoOn
<1>7. TabsApart'
  BY <1>0, <1>a DEF OAuthTypes, Spent, OwnFlow, StepUpOwned, TabsApart, FlowsGoOn
<1> QED BY <1>1, <1>2, <1>3, <1>4, <1>5, <1>6, <1>7

\* An error page gives the state up.
LEMMA ApologiseStep ==
    ASSUME OAuthInv, NEW h \in Hops, Apologise(h)
    PROVE  OAuthInv'
<1> USE OAuthAssumption DEF OAuthInv
<1>a. /\ hop' = [hop EXCEPT ![h] = NoHop] /\ UNCHANGED <<flow, who, stepped, cameBy, puzzled>>
      /\ jar' = Cleared(h) /\ dropped' = dropped \cup GivesUp(h)
  BY DEF Apologise
<1>b. NoHop \in HopRecords
  BY DEF NoHop, HopRecords
<1>c. hop' \in [Hops -> HopRecords] /\ hop'[h] = NoHop /\ \A g \in Hops \ {h} : hop'[g] = hop[g]
  BY <1>a, <1>b DEF OAuthTypes
<1>d. jar' \in [social : Flows \cup {0}, staff : Flows \cup {0}, marker : BOOLEAN]
      /\ dropped' \subseteq Flows
  BY <1>a DEF Cleared, GivesUp, OAuthTypes
<1>1. OAuthTypes'
  BY <1>c, <1>d DEF Apologise, OAuthTypes
<1>2. JarKnown'
  BY <1>a DEF JarKnown, Own, Cleared, GivesUp, OAuthTypes
<1>3. HopsKnown'
  BY <1>a, <1>c, HopsKept
<1>4. Spent'
  BY <1>a DEF Spent
<1>5. OwnFlow'
  BY <1>a DEF OwnFlow
<1>6. StepUpOwned'
  BY <1>a DEF StepUpOwned
<1>7. TabsApart'
  BY <1>a DEF TabsApart
<1> QED BY <1>1, <1>2, <1>3, <1>4, <1>5, <1>6, <1>7

\* The step-up is of the session the callback came with.
LEMMA staffStepUpStep ==
    ASSUME OAuthInv, NEW h \in Hops, staffStepUp(h)
    PROVE  OAuthInv'
<1> USE OAuthAssumption DEF OAuthInv
<1>a. /\ hop' = [hop EXCEPT ![h] = NoHop] /\ UNCHANGED <<flow, who, cameBy, puzzled>>
      /\ hop[h].at = "finish" /\ hop[h].staffFlow
      /\ jar' = [Cleared(h) EXCEPT !.marker = FALSE] /\ dropped' = dropped \cup GivesUp(h)
      /\ stepped' = stepped \/ (stepped' = hop[h].flow /\ StaffIdentity(h))
  BY DEF staffStepUp
<1>b. NoHop \in HopRecords
  BY DEF NoHop, HopRecords
<1>c. hop' \in [Hops -> HopRecords] /\ hop'[h] = NoHop /\ \A g \in Hops \ {h} : hop'[g] = hop[g]
  BY <1>a, <1>b DEF OAuthTypes
<1>d. /\ jar' \in [social : Flows \cup {0}, staff : Flows \cup {0}, marker : BOOLEAN]
      /\ jar'.social = jar.social /\ jar'.staff = 0 /\ dropped' = dropped \cup ({jar.staff} \ {0})
  BY <1>a DEF Cleared, GivesUp, OAuthTypes
<1>e. /\ hop[h].flow \in Flows /\ Own(hop[h].flow, "staff") /\ flow[hop[h].flow].ok
      /\ flow[hop[h].flow].at = "spent"
  BY <1>a DEF HopsKnown, HopKnown, OAuthTypes, HopRecords
<1>f. StaffIdentity(h) => who = "staff" /\ flow[hop[h].flow].email = "staff"
  BY DEF StaffIdentity, HopsKnown, HopKnown, Emails
<1>1. OAuthTypes'
  BY <1>a, <1>c, <1>d, <1>e DEF staffStepUp, OAuthTypes
<1>2. JarKnown'
  BY <1>a, <1>d DEF JarKnown, Own, OAuthTypes
<1>3. HopsKnown'
  BY <1>a, <1>c, HopsKept
<1>4. Spent'
  BY <1>a, <1>e DEF Spent
<1>5. OwnFlow'
  BY <1>a DEF OwnFlow
<1>6. StepUpOwned'
  BY <1>a, <1>e, <1>f DEF StepUpOwned, Own
<1>7. TabsApart'
  BY <1>a DEF TabsApart
<1> QED BY <1>1, <1>2, <1>3, <1>4, <1>5, <1>6, <1>7

\* Who consented is signed in, and callbacks under way have lost their session.
LEMMA oauthSignsInStep ==
    ASSUME OAuthInv, NEW h \in Hops, oauthSignsIn(h)
    PROVE  OAuthInv'
<1> USE OAuthAssumption DEF OAuthInv
<1>a. /\ hop[h].at = "finish" /\ ~hop[h].staffFlow /\ UNCHANGED <<flow, puzzled, onStaff>>
      /\ jar' = Cleared(h) /\ dropped' = dropped \cup GivesUp(h)
  BY DEF oauthSignsIn, SocialCallback
<1>b. \/ hop' = [hop EXCEPT ![h] = NoHop] /\ UNCHANGED <<who, cameBy, stepped>>
      \/ /\ who' = flow[hop[h].flow].email /\ cameBy' = hop[h].flow /\ stepped' = 0
         /\ hop' = [Forgotten EXCEPT ![h] = NoHop]
  BY DEF oauthSignsIn
<1>c. NoHop \in HopRecords
  BY DEF NoHop, HopRecords
<1>d. /\ hop' \in [Hops -> HopRecords] /\ hop'[h] = NoHop
      /\ \A g \in Hops \ {h} : \/ hop'[g] = hop[g] /\ UNCHANGED who
                               \/ hop'[g] = SessionGone(g)
  <2>1. CASE hop' = [hop EXCEPT ![h] = NoHop] /\ UNCHANGED who
    BY <1>c, <2>1 DEF OAuthTypes
  <2>2. CASE hop' = [Forgotten EXCEPT ![h] = NoHop]
    <3>1. Forgotten \in [Hops -> HopRecords]
      BY DEF Forgotten, OAuthTypes, HopRecords
    <3> QED BY <1>c, <2>2, <3>1 DEF Forgotten, SessionGone
  <2> QED BY <1>b, <2>1, <2>2
<1>e. /\ jar' \in [social : Flows \cup {0}, staff : Flows \cup {0}, marker : BOOLEAN]
      /\ jar'.staff = jar.staff /\ jar'.marker = jar.marker /\ jar'.social = 0
      /\ dropped' = dropped \cup ({jar.social} \ {0})
  BY <1>a DEF Cleared, GivesUp, OAuthTypes
<1>f. /\ hop[h].flow \in Flows /\ Own(hop[h].flow, "social") /\ flow[hop[h].flow].ok
      /\ flow[hop[h].flow].at = "spent" /\ flow[hop[h].flow].email \in Emails
  BY <1>a DEF HopsKnown, HopKnown, OAuthTypes, HopRecords, FlowRecords
<1>1. OAuthTypes'
  BY <1>a, <1>b, <1>d, <1>e, <1>f DEF oauthSignsIn, OAuthTypes
<1>2. JarKnown'
  BY <1>a, <1>e DEF JarKnown, Own, OAuthTypes
<1>3. HopsKnown'
  BY <1>a, <1>d, HopsKept
<1>4. Spent'
  BY <1>a, <1>b, <1>f DEF Spent
<1>5. OwnFlow'
  BY <1>a, <1>b, <1>f DEF OwnFlow, Own
<1>6. StepUpOwned'
  BY <1>a, <1>b DEF StepUpOwned
<1>7. TabsApart'
  BY <1>a DEF TabsApart
<1> QED BY <1>1, <1>2, <1>3, <1>4, <1>5, <1>6, <1>7

\* A cookie that is too old gives its state up.
LEMMA CookiesAgeStep ==
    ASSUME OAuthInv, CookiesAge
    PROVE  OAuthInv'
<1> USE OAuthAssumption DEF OAuthInv
<1>a. /\ UNCHANGED <<flow, who, onStaff, stepped, hop, cameBy, puzzled, hops>>
      /\ dropped' = dropped \cup ({jar.social, jar.staff} \ {0})
      /\ jar' \in [social : Flows \cup {0}, staff : Flows \cup {0}, marker : BOOLEAN]
      /\ jar'.social \in {0, jar.social} /\ jar'.staff \in {0, jar.staff}
  BY DEF CookiesAge, OAuthTypes
<1>b. FlowsGoOn /\ dropped \subseteq dropped'
  BY <1>a DEF FlowsGoOn
<1>1. OAuthTypes'
  BY <1>a DEF OAuthTypes
<1>2. JarKnown'
  BY <1>a DEF JarKnown, Own, OAuthTypes
<1>3. HopsKnown'
  BY <1>a, <1>b, FlowsKept
<1>4. Spent'
  BY <1>a, <1>b, FlowsKept
<1>5. OwnFlow'
  BY <1>a, <1>b, FlowsKept
<1>6. StepUpOwned'
  BY <1>a, <1>b, FlowsKept
<1>7. TabsApart'
  BY <1>a, <1>b, FlowsKept
<1> QED BY <1>1, <1>2, <1>3, <1>4, <1>5, <1>6, <1>7

\* Without a session there is nothing to step up.
LEMMA SignsOutStep ==
    ASSUME OAuthInv, SignsOut
    PROVE  OAuthInv'
<1> USE OAuthAssumption DEF OAuthInv
<1>a. /\ UNCHANGED <<jar, flow, onStaff, dropped, puzzled, hops>> /\ who' = "nobody"
      /\ stepped' = 0 /\ cameBy' = 0 /\ hop' = Forgotten
  BY DEF SignsOut
<1>b. ASSUME NEW g \in Hops
      PROVE  /\ hop'[g] \in HopRecords /\ hop'[g].at = hop[g].at /\ hop'[g].flow = hop[g].flow
             /\ hop'[g].cookie = hop[g].cookie /\ hop'[g].staffFlow = hop[g].staffFlow
             /\ hop'[g].user \notin Emails
  BY <1>a DEF Forgotten, OAuthTypes, HopRecords, Emails
<1>1. OAuthTypes'
  <2>1. hop' \in [Hops -> HopRecords]
    BY <1>a, <1>b DEF Forgotten
  <2> QED BY <1>a, <2>1 DEF OAuthTypes
<1>2. JarKnown'
  BY <1>a DEF JarKnown, Own
<1>3. HopsKnown'
  <2>1. ASSUME NEW g \in Hops PROVE HopKnown(g)'
    BY <1>a, <1>b DEF HopsKnown, HopKnown, Own
  <2> QED BY <2>1 DEF HopsKnown
<1>4. Spent'
  BY <1>a DEF Spent
<1>5. OwnFlow'
  BY <1>a DEF OwnFlow
<1>6. StepUpOwned'
  BY <1>a DEF StepUpOwned
<1>7. TabsApart'
  BY <1>a DEF TabsApart
<1> QED BY <1>1, <1>2, <1>3, <1>4, <1>5, <1>6, <1>7

\* A step-up already made is not looked at again.
LEMMA DemoteStaffStep ==
    ASSUME OAuthInv, DemoteStaff
    PROVE  OAuthInv'
<1> USE OAuthAssumption DEF OAuthInv
<1>a. UNCHANGED <<jar, flow, who, stepped, hop, cameBy, dropped, puzzled, hops>> /\ onStaff' = FALSE
  BY DEF DemoteStaff
<1>1. OAuthTypes'
  BY <1>a DEF OAuthTypes
<1>2. JarKnown'
  BY <1>a DEF JarKnown, Own
<1>3. HopsKnown'
  BY <1>a DEF HopsKnown, HopKnown, Own
<1>4. Spent'
  BY <1>a DEF Spent
<1>5. OwnFlow'
  BY <1>a DEF OwnFlow
<1>6. StepUpOwned'
  BY <1>a DEF StepUpOwned
<1>7. TabsApart'
  BY <1>a DEF TabsApart
<1> QED BY <1>1, <1>2, <1>3, <1>4, <1>5, <1>6, <1>7

\* Initially nothing has been started.
LEMMA OAuthStarts == OAuthInit => OAuthInv
<1> USE OAuthAssumption
<1> SUFFICES ASSUME OAuthInit PROVE OAuthInv
  OBVIOUS
<1>1. NoFlow \in FlowRecords /\ NoFlow.at = "unused"
  BY DEF NoFlow, FlowRecords, Emails
<1>2. NoHop \in HopRecords /\ NoHop.at = "none" /\ NoHop.cookie = 0 /\ NoHop.user \notin Emails
  BY DEF NoHop, HopRecords, Emails
<1>3. jar.social = 0 /\ jar.staff = 0
      /\ jar \in [social : Flows \cup {0}, staff : Flows \cup {0}, marker : BOOLEAN]
  BY DEF OAuthInit, EmptyJar
<1>4. (\A f \in Flows : flow[f].at = "unused") /\ flow \in [Flows -> FlowRecords]
  BY <1>1 DEF OAuthInit
<1>5. /\ \A h \in Hops : hop[h].at = "none" /\ hop[h].cookie = 0 /\ hop[h].user \notin Emails
      /\ hop \in [Hops -> HopRecords]
  BY <1>2 DEF OAuthInit
<1>6. OAuthTypes
  BY <1>3, <1>4, <1>5 DEF OAuthInit, OAuthTypes, Emails
<1>7. JarKnown
  BY <1>3, <1>4 DEF JarKnown, Own
<1>8. HopsKnown
  BY <1>5 DEF HopsKnown, HopKnown
<1>9. Spent /\ OwnFlow /\ StepUpOwned /\ TabsApart
  BY DEF OAuthInit, Spent, OwnFlow, StepUpOwned, TabsApart
<1> QED BY <1>6, <1>7, <1>8, <1>9 DEF OAuthInv

\* Whatever callbacks are opened in a browser, in which order and however often, it is signed in
\* and stepped up only by flows of its own, as the person who consented, and tabs do not cost one
\* another their state (oauthCallback, completeStaffSSO).
THEOREM OAuthIsSafe == OAuthSpec => []OAuthSafe
<1>1. OAuthInv /\ [OAuthNext]_oauthVars => OAuthInv'
  <2>1. ASSUME OAuthInv, UNCHANGED oauthVars PROVE OAuthInv'
    BY <2>1 DEF oauthVars, OAuthInv, OAuthTypes, JarKnown, Own, HopsKnown, HopKnown, Spent, OwnFlow,
         StepUpOwned, TabsApart
  <2> QED BY <2>1, oauthStartStep, adminSSOStartStep, StartElsewhereStep, AuthCodeURLStep, DenyStep,
       OpenCallbackStep, RefuseStateStep, AcceptStateStep, IdentityStep, ApologiseStep,
       staffStepUpStep, oauthSignsInStep, CookiesAgeStep, SignsOutStep, DemoteStaffStep
    DEF OAuthNext
<1>2. OAuthInv => OAuthSafe
  <2>1. OAuthInv => OAuthTypeOK
    BY DEF OAuthInv, OAuthTypes, OAuthTypeOK, FlowRecords, HopRecords
  <2> QED BY <2>1 DEF OAuthInv, OAuthSafe
<1> QED BY <1>1, <1>2, OAuthStarts, PTL DEF OAuthSpec

-----------------------------------------------------------------------------
(* Signing in.  A request that read MFA as off remembers it, a code is below    *)
(* the counter once it is spent, and a row that is challenged was pending and  *)
(* becomes nothing else but gone.                                           *)

SessionRecords ==
    [state : {"none", "pending", "full", "gone"}, kind : Kinds, user : Persons,
     by : Persons \cup {"nobody"}, factor : BOOLEAN, off : BOOLEAN, stepped : BOOLEAN]
CallRecords ==
    [at : {"idle", "checked", "passed", "linked", "cleared", "challenged", "factored",
           "completing", "enrolling", "coded", "starting"},
     kind : Kinds, mfa : BOOLEAN, off : BOOLEAN, row : Sessions \cup {"none"}, step : Steps,
     as : Persons, to : Persons]

OffKnown ==
    \A p \in Calls :
        /\ call[p].at # "idle" /\ ~mfa => call[p].off
        /\ call[p].at = "passed" /\ ~call[p].mfa => call[p].off

CodesSpent ==
    reenrolled \/ \A c \in Steps : uses[c] \in {0, 1} /\ (c > last => uses[c] = 0)

Answering == {"challenged", "factored", "completing"}

\* Requests that answer the mobile challenge of row s.
AnswersMobile(p, s) ==
    call[p].at \in {"challenged", "factored"} /\ call[p].kind = "mobile" /\ call[p].row = s

RowsKnown ==
    /\ \A p \in Calls : call[p].at \in Answering =>
          /\ call[p].row \in Sessions /\ session[call[p].row].state \in {"pending", "gone"}
          /\ session[call[p].row].kind = call[p].kind
          /\ call[p].at = "completing" => call[p].kind = "web"
    /\ \A p \in Calls, s \in Sessions : AnswersMobile(p, s) =>
          /\ session[s].state = "gone" /\ ended[s] = 0
          /\ \A q \in Calls : AnswersMobile(q, s) => q = p
    /\ \A s \in Sessions : session[s].state \in {"none", "pending"} => ended[s] = 0
    /\ \A s \in Sessions : session[s].kind = "mobile" => ended[s] <= 1

Completing(s) == {p \in Calls : call[p].at = "completing" /\ call[p].row = s}

WebEnded ==
    \A s \in Sessions :
        session[s].kind = "web" => ended[s] + Cardinality(Completing(s)) <= Cardinality(Calls)

SelfKnown ==
    /\ crossed \/ \A s \in Sessions :
          /\ session[s].user = "user" <=> session[s].by = "nobody"
          /\ session[s].by \in {"nobody", "user"}
    /\ \A p \in Calls : call[p].at = "starting" => call[p].to # call[p].as

SignInInv ==
    /\ SignInTypeOK /\ OffKnown /\ NoBypass /\ CodesSpent /\ ThrottleOvershoot
    /\ RowsKnown /\ WebEnded /\ SelfKnown

\* What the steps of a request keep: MFA read as off is remembered, and who is impersonated
\* is somebody else.
CallsGoOn ==
    /\ call' \in [Calls -> CallRecords] /\ OffKnown'
    /\ \A q \in Calls : call'[q].at = "starting" => call'[q].to # call'[q].as

\* A request that answers a challenge answered that one before.
AnswersGoOn ==
    \A q \in Calls : call'[q].at \in Answering =>
        /\ call[q].at \in Answering
        /\ call'[q].row = call[q].row /\ call'[q].kind = call[q].kind
        /\ call'[q].at = "completing" =>
              /\ call[q].kind = "web"
              /\ call[q].at = "completing" \/ session[call[q].row].state = "pending"

\* A row that is in use stays what it is, or ends.
SessionsGoOn ==
    /\ session' \in [Sessions -> SessionRecords] /\ NoBypass'
    /\ \A s \in Sessions :
          /\ \/ session[s].state = "none"
             \/ /\ session'[s].kind = session[s].kind
                /\ session'[s].state \in {session[s].state, "gone"}
          /\ crossed' \/ /\ session'[s].user = "user" <=> session'[s].by = "nobody"
                         /\ session'[s].by \in {"nobody", "user"}

\* Requests between LoginThrottle.Check and LoginThrottle.Record.
Checked == {p \in Calls : call[p].at = "checked"}

LEMMA CallsAreFinite ==
    /\ \A S \in SUBSET Calls : IsFiniteSet(S) /\ Cardinality(S) \in Nat
    /\ \A S \in SUBSET Calls : Cardinality(S) <= Cardinality(Calls)
    /\ \A S, T \in SUBSET Calls : S \subseteq T => Cardinality(S) <= Cardinality(T)
    /\ \A S \in SUBSET Calls : \A p \in S : Cardinality(S \ {p}) = Cardinality(S) - 1
<1>1. IsFiniteSet(Calls)
  BY SignInAssumption
<1>2. ASSUME NEW S \in SUBSET Calls
      PROVE  IsFiniteSet(S) /\ Cardinality(S) \in Nat /\ Cardinality(S) <= Cardinality(Calls)
  BY <1>1, <1>2, FS_Subset, FS_CardinalityType
<1>3. ASSUME NEW S \in SUBSET Calls, NEW T \in SUBSET Calls, S \subseteq T
      PROVE  Cardinality(S) <= Cardinality(T)
  BY <1>2, <1>3, FS_Subset
<1>4. ASSUME NEW S \in SUBSET Calls, NEW p \in S
      PROVE  Cardinality(S \ {p}) = Cardinality(S) - 1
  BY <1>2, FS_RemoveElement
<1> QED
  BY <1>2, <1>3, <1>4

\* Where no request enters the gap and no failure is added, the throttle holds as before.
LEMMA ThrottleKept ==
    ASSUME SignInInv, Checked' \subseteq Checked, fails' \in Nat, fails' <= fails,
           blind => blind'
    PROVE  ThrottleOvershoot'
<1> DEFINE C == Checked
           D == Checked'
<1>1. C \in SUBSET Calls /\ D \in SUBSET Calls /\ D \subseteq C
  BY DEF Checked
<1>2. Cardinality(D) \in Nat /\ Cardinality(C) \in Nat /\ Cardinality(Calls) \in Nat
      /\ Cardinality(D) <= Cardinality(C)
  BY <1>1, CallsAreFinite
<1>3. blind \/ fails + Cardinality(C) < MaxFails + Cardinality(Calls)
  BY DEF SignInInv, ThrottleOvershoot, Checked
<1>4. ThrottleOvershoot' <=> blind' \/ fails' + Cardinality(D) < MaxFails + Cardinality(Calls)
  BY DEF ThrottleOvershoot, Checked
<1> HIDE DEF C, D
<1>5. fails \in Nat /\ MaxFails \in Nat
  BY SignInAssumption DEF SignInInv, SignInTypeOK
<1> QED
  BY <1>2, <1>3, <1>4, <1>5

\* The invariant holds after any step that keeps requests, answers and rows in order.
LEMMA GoesOn ==
    ASSUME SignInInv, CallsGoOn, AnswersGoOn, SessionsGoOn, ended' = ended,
           SignInTypeOK', CodesSpent', ThrottleOvershoot'
    PROVE  SignInInv'
<1>1. SelfKnown' /\ OffKnown' /\ NoBypass'
  BY DEF SelfKnown, CallsGoOn, SessionsGoOn
<1>2. RowsKnown'
  <2>1. ASSUME NEW q \in Calls, call'[q].at \in Answering
        PROVE  /\ call'[q].row \in Sessions /\ session'[call'[q].row].state \in {"pending", "gone"}
               /\ session'[call'[q].row].kind = call'[q].kind
               /\ call'[q].at = "completing" => call'[q].kind = "web"
    BY <2>1 DEF SignInInv, RowsKnown, AnswersGoOn, SessionsGoOn
  <2>2. ASSUME NEW q \in Calls, NEW s \in Sessions, AnswersMobile(q, s)' PROVE AnswersMobile(q, s)
    BY <2>2 DEF SignInInv, RowsKnown, AnswersGoOn, AnswersMobile, Answering
  <2>3. ASSUME NEW q \in Calls, NEW s \in Sessions, AnswersMobile(q, s)'
        PROVE  /\ session'[s].state = "gone" /\ ended'[s] = 0
               /\ \A o \in Calls : AnswersMobile(o, s)' => o = q
    BY <2>2, <2>3 DEF SignInInv, RowsKnown, SessionsGoOn
  <2>4. ASSUME NEW s \in Sessions
        PROVE  /\ session'[s].state \in {"none", "pending"} => ended'[s] = 0
               /\ session'[s].kind = "mobile" => ended'[s] <= 1
    BY <2>4 DEF SignInInv, RowsKnown, SessionsGoOn
  <2> QED
    BY <2>1, <2>3, <2>4 DEF RowsKnown
<1>3. WebEnded'
  <2> SUFFICES ASSUME NEW s \in Sessions, session'[s].kind = "web"
               PROVE  ended'[s] + Cardinality(Completing(s)') <= Cardinality(Calls)
    BY DEF WebEnded
  <2> DEFINE C == Completing(s)
             D == Completing(s)'
  <2>1. C \in SUBSET Calls /\ D \in SUBSET Calls
    BY DEF Completing
  <2>2. /\ Cardinality(C) \in Nat /\ Cardinality(D) \in Nat /\ Cardinality(Calls) \in Nat
        /\ Cardinality(D) <= Cardinality(Calls) /\ (D \subseteq C => Cardinality(D) <= Cardinality(C))
    BY <2>1, CallsAreFinite
  <2>3. ended[s] = 0 \/ (session[s].kind = "web" /\ D \subseteq C)
    <3>1. CASE session[s].state \in {"none", "pending"}
      BY <3>1 DEF SignInInv, RowsKnown
    <3>2. CASE session[s].state \notin {"none", "pending"}
      <4>1. session[s].kind = "web"
        BY <3>2 DEF SessionsGoOn
      <4>2. ASSUME NEW q \in D PROVE q \in C
        BY <3>2, <4>2 DEF Completing, AnswersGoOn, Answering
      <4> QED
        BY <4>1, <4>2
    <3> QED
      BY <3>1, <3>2
  <2>4. session[s].kind = "web" => ended[s] + Cardinality(C) <= Cardinality(Calls)
    BY DEF SignInInv, WebEnded
  <2>5. ended[s] \in Nat
    BY DEF SignInInv, SignInTypeOK
  <2> HIDE DEF C, D
  <2>6. ended[s] + Cardinality(D) <= Cardinality(Calls)
    BY <2>2, <2>3, <2>4, <2>5
  <2> QED
    BY <2>6 DEF D
<1> QED
  BY <1>1, <1>2, <1>3 DEF SignInInv

\* The records of the tables, and of a request, as the type invariant gives them.
LEMMA SignInTypes ==
    ASSUME SignInInv
    PROVE  /\ session \in [Sessions -> SessionRecords] /\ call \in [Calls -> CallRecords]
           /\ mfa \in BOOLEAN /\ Resting \in CallRecords /\ Resting.at = "idle"
           /\ \A s \in Sessions : session[s] \in SessionRecords
           /\ \A p \in Calls : call[p] \in CallRecords
<1>1. session \in [Sessions -> SessionRecords] /\ call \in [Calls -> CallRecords] /\ mfa \in BOOLEAN
  BY DEF SignInInv, SignInTypeOK, SessionRecords, CallRecords
<1>2. 0 \in Steps
  BY SignInAssumption DEF Steps
<1>3. Resting \in CallRecords /\ Resting.at = "idle"
  BY <1>2 DEF Resting, CallRecords, Kinds, Persons
<1> QED
  BY <1>1, <1>3

\* What request p answers with record r, it answered before.
Continues(p, r) ==
    r.at \in Answering =>
        /\ call[p].at \in Answering /\ r.row = call[p].row /\ r.kind = call[p].kind
        /\ r.at = "completing" =>
              /\ call[p].kind = "web"
              /\ call[p].at = "completing" \/ session[call[p].row].state = "pending"

\* One request takes a step to r.
LEMMA CallMoves ==
    ASSUME SignInInv, NEW p \in Calls, NEW r \in CallRecords,
           call' = [call EXCEPT ![p] = r], ~mfa' => ~mfa,
           r.at # "idle" /\ ~mfa => r.off,
           r.at = "passed" /\ ~r.mfa => r.off,
           r.at = "starting" => r.to # r.as
    PROVE  /\ CallsGoOn /\ call'[p] = r
           /\ \A q \in Calls \ {p} : call'[q] = call[q]
           /\ r.at # "checked" => Checked' \subseteq Checked
           /\ Continues(p, r) => AnswersGoOn
<1>1. call \in [Calls -> CallRecords]
  BY SignInTypes
<1>2. call' \in [Calls -> CallRecords] /\ call'[p] = r /\ \A q \in Calls \ {p} : call'[q] = call[q]
  BY <1>1
<1>3. OffKnown'
  BY <1>2 DEF SignInInv, OffKnown
<1>4. \A q \in Calls : call'[q].at = "starting" => call'[q].to # call'[q].as
  BY <1>2 DEF SignInInv, SelfKnown
<1>5. r.at # "checked" => Checked' \subseteq Checked
  BY <1>2 DEF Checked
<1>6. ASSUME Continues(p, r) PROVE AnswersGoOn
  <2> SUFFICES ASSUME NEW q \in Calls, call'[q].at \in Answering
               PROVE  /\ call[q].at \in Answering
                      /\ call'[q].row = call[q].row /\ call'[q].kind = call[q].kind
                      /\ call'[q].at = "completing" =>
                           /\ call[q].kind = "web"
                           /\ \/ call[q].at = "completing"
                              \/ session[call[q].row].state = "pending"
    BY DEF AnswersGoOn
  <2>1. CASE q = p
    BY <1>2, <1>6, <2>1 DEF Continues
  <2>2. CASE q # p
    BY <1>2, <2>2 DEF SignInInv, RowsKnown
  <2> QED
    BY <2>1, <2>2
<1> QED
  BY <1>2, <1>3, <1>4, <1>5, <1>6 DEF CallsGoOn

\* A request that ends.
LEMMA CallEnds ==
    ASSUME SignInInv, NEW p \in Calls, End(p), ~mfa' => ~mfa
    PROVE  /\ CallsGoOn /\ AnswersGoOn /\ Checked' \subseteq Checked
           /\ call'[p] = Resting /\ \A q \in Calls \ {p} : call'[q] = call[q]
<1>1. Resting \in CallRecords /\ Resting.at = "idle"
  BY SignInTypes
<1>2. Continues(p, Resting)
  BY <1>1 DEF Continues, Answering
<1> QED
  BY <1>1, <1>2, CallMoves DEF End

\* A request that begins with record c.
LEMMA CallBegins ==
    ASSUME SignInInv, NEW p \in Calls, NEW c \in CallRecords, Begin(p, c), mfa' = mfa,
           c.at \notin {"idle", "passed"} \/ c.mfa = mfa,
           c.at = "starting" => c.to # c.as
    PROVE  /\ CallsGoOn /\ call[p].at = "idle"
           /\ call'[p].at = c.at /\ call'[p].row = c.row /\ call'[p].kind = c.kind
           /\ \A q \in Calls \ {p} : call'[q] = call[q]
           /\ c.at # "checked" => Checked' \subseteq Checked
           /\ c.at \notin Answering => AnswersGoOn
<1>1. mfa \in BOOLEAN
  BY SignInTypes
<1>2. PICK b \in BOOLEAN : b = ~mfa
  OBVIOUS
<1> DEFINE r == [c EXCEPT !.off = b]
<1>3. call' = [call EXCEPT ![p] = r] /\ call[p].at = "idle"
  BY <1>2 DEF Begin
<1> DEFINE B == BOOLEAN
           R == [at : {"idle", "checked", "passed", "linked", "cleared", "challenged", "factored",
                       "completing", "enrolling", "coded", "starting"},
                 kind : Kinds, mfa : B, off : B, row : Sessions \cup {"none"}, step : Steps,
                 as : Persons, to : Persons]
<1>4. c \in R /\ b \in B /\ R = CallRecords
  BY <1>2 DEF CallRecords
<1> HIDE DEF B
<1>5. /\ r \in R /\ r.at = c.at /\ r.row = c.row /\ r.kind = c.kind /\ r.off = b /\ r.mfa = c.mfa
      /\ r.to = c.to /\ r.as = c.as
  BY <1>4
<1> HIDE DEF r, R
<1>6. r \in CallRecords
  BY <1>4, <1>5
<1>7. ~mfa => r.off
  BY <1>2, <1>5
<1>8. r.at = "passed" /\ ~r.mfa => r.off
  BY <1>1, <1>5, <1>7
<1>9. Continues(p, r) \/ c.at \in Answering
  BY <1>5 DEF Continues
<1> QED
  BY ZenonT(20), <1>3, <1>5, <1>6, <1>7, <1>8, <1>9, CallMoves

\* A request that goes on with another place, and with what it read of mfa_enabled.
LEMMA CallGoesOn ==
    ASSUME SignInInv, NEW p \in Calls, NEW at, NEW m \in BOOLEAN,
           at \in {"passed", "cleared", "factored", "completing", "coded"},
           call' = [call EXCEPT ![p] = [call[p] EXCEPT !.at = at, !.mfa = m]],
           call[p].at # "idle", mfa' = mfa, at = "passed" => m = mfa
    PROVE  /\ CallsGoOn /\ Checked' \subseteq Checked
           /\ call'[p].at = at /\ call'[p].row = call[p].row /\ call'[p].kind = call[p].kind
           /\ \A q \in Calls \ {p} : call'[q] = call[q]
           /\ at \notin Answering => AnswersGoOn
           /\ call[p].at \in {"challenged", "factored"} /\ at = "factored" => AnswersGoOn
           /\ /\ call[p].at = "factored" /\ at = "completing" /\ call[p].kind = "web"
              /\ session[call[p].row].state = "pending"
              => AnswersGoOn
<1> DEFINE r == [call[p] EXCEPT !.at = at, !.mfa = m]
           B == BOOLEAN
           R == [at : {"idle", "checked", "passed", "linked", "cleared", "challenged", "factored",
                       "completing", "enrolling", "coded", "starting"},
                 kind : Kinds, mfa : B, off : B, row : Sessions \cup {"none"}, step : Steps,
                 as : Persons, to : Persons]
<1>1. call[p] \in R /\ m \in B /\ R = CallRecords
  BY SignInTypes DEF CallRecords
<1> HIDE DEF B
<1>2. /\ r \in R /\ r.at = at /\ r.row = call[p].row /\ r.kind = call[p].kind
      /\ r.off = call[p].off /\ r.mfa = m
  BY <1>1
<1>3. call' = [call EXCEPT ![p] = r]
  OBVIOUS
<1> HIDE DEF r, R
<1>4. r \in CallRecords
  BY <1>1, <1>2
<1>5. ~mfa => r.off
  BY <1>2 DEF SignInInv, OffKnown
<1>6. r.at = "passed" /\ ~r.mfa => r.off
  BY <1>2, <1>5
<1>7. at \notin Answering => Continues(p, r)
  BY <1>2 DEF Continues
<1>8. call[p].at \in {"challenged", "factored"} /\ at = "factored" => Continues(p, r)
  BY <1>2 DEF Continues, Answering
<1>9. ASSUME call[p].at = "factored", at = "completing", call[p].kind = "web",
             session[call[p].row].state = "pending"
      PROVE  Continues(p, r)
  BY <1>2, <1>9 DEF Continues, Answering
<1> QED
  BY ZenonT(60), <1>2, <1>3, <1>4, <1>5, <1>6, <1>7, <1>8, <1>9, CallMoves

\* To moves a request and leaves what it read.
LEMMA CallTo ==
    ASSUME SignInInv, NEW p \in Calls, NEW at \in {"cleared", "factored", "completing", "coded"},
           To(p, at), call[p].at # "idle", mfa' = mfa
    PROVE  /\ CallsGoOn /\ Checked' \subseteq Checked
           /\ at \notin Answering => AnswersGoOn
           /\ call[p].at = "challenged" /\ at = "factored" => AnswersGoOn
           /\ /\ call[p].at = "factored" /\ at = "completing" /\ call[p].kind = "web"
              /\ session[call[p].row].state = "pending"
              => AnswersGoOn
<1>1. call \in [Calls -> CallRecords] /\ call[p] \in CallRecords
  BY SignInTypes
<1>2. PICK m \in BOOLEAN : m = call[p].mfa
  BY <1>1 DEF CallRecords
<1>3. [call[p] EXCEPT !.at = at, !.mfa = call[p].mfa] = [call[p] EXCEPT !.at = at]
  BY <1>1 DEF CallRecords
<1>4. call' = [call EXCEPT ![p] = [call[p] EXCEPT !.at = at, !.mfa = m]]
  BY <1>1, <1>2, <1>3 DEF To
<1> QED
  BY <1>2, <1>4, CallGoesOn

\* A first factor is passed, and mfa_enabled is what the request read with it.
LEMMA CallPasses ==
    ASSUME SignInInv, NEW p \in Calls, call[p].at # "idle", mfa' = mfa,
           call' = [call EXCEPT ![p] = [call[p] EXCEPT !.at = "passed", !.mfa = mfa]]
    PROVE  CallsGoOn /\ AnswersGoOn /\ Checked' \subseteq Checked
<1>1. PICK m \in BOOLEAN : m = mfa
  BY SignInTypes
<1>2. call' = [call EXCEPT ![p] = [call[p] EXCEPT !.at = "passed", !.mfa = m]]
  BY <1>1
<1>3. "passed" \notin Answering
  BY DEF Answering
<1> QED
  BY <1>1, <1>2, <1>3, CallGoesOn

\* Gone is a row that nobody acts with, and Row one of the user's own.
LEMMA RowRecords ==
    ASSUME SignInInv
    PROVE  /\ \A s \in Sessions :
                /\ Gone(s) \in SessionRecords /\ Gone(s).state = "gone"
                /\ Gone(s).kind = session[s].kind
                /\ Gone(s).user = "user" /\ Gone(s).by = "nobody"
           /\ \A kind \in Kinds, state \in {"pending", "full"}, f, o \in BOOLEAN :
                /\ Row(kind, state, f, o) \in SessionRecords
                /\ Row(kind, state, f, o).state = state /\ Row(kind, state, f, o).kind = kind
                /\ Row(kind, state, f, o).factor = f /\ Row(kind, state, f, o).off = o
                /\ Row(kind, state, f, o).user = "user" /\ Row(kind, state, f, o).by = "nobody"
<1> DEFINE B == BOOLEAN
           R == [state : {"none", "pending", "full", "gone"}, kind : Kinds, user : Persons,
                 by : Persons \cup {"nobody"}, factor : B, off : B, stepped : B]
<1>1. R = SessionRecords /\ FALSE \in B
  BY DEF SessionRecords
<1>2. \A s \in Sessions : session[s].kind \in Kinds
  BY SignInTypes DEF SessionRecords
<1>3. \A x \in BOOLEAN : x \in B
  OBVIOUS
<1> HIDE DEF B
<1>4. ASSUME NEW kind \in Kinds, NEW state \in {"pending", "full", "gone"}, NEW f \in B, NEW o \in B
      PROVE  /\ Row(kind, state, f, o) \in R
             /\ Row(kind, state, f, o).state = state /\ Row(kind, state, f, o).kind = kind
             /\ Row(kind, state, f, o).factor = f /\ Row(kind, state, f, o).off = o
             /\ Row(kind, state, f, o).user = "user" /\ Row(kind, state, f, o).by = "nobody"
  BY <1>1 DEF Row, NoSession, Persons
<1>5. ASSUME NEW s \in Sessions
      PROVE  /\ Gone(s) \in R /\ Gone(s).state = "gone" /\ Gone(s).kind = session[s].kind
             /\ Gone(s).user = "user" /\ Gone(s).by = "nobody"
  BY <1>1, <1>2 DEF Gone, Row, NoSession, Persons
<1> HIDE DEF R
<1> QED
  BY <1>1, <1>3, <1>4, <1>5

\* No row changes.
LEMMA RowsStay ==
    ASSUME SignInInv, session' = session, crossed' = crossed
    PROVE  SessionsGoOn
  BY SignInTypes DEF SignInInv, SessionsGoOn, NoBypass, SelfKnown

\* Some rows end.
LEMMA RowsEnd ==
    ASSUME SignInInv, NEW S \in SUBSET Sessions, crossed' = crossed,
           session' = [s \in Sessions |-> IF s \in S THEN Gone(s) ELSE session[s]]
    PROVE  SessionsGoOn
<1>1. /\ session \in [Sessions -> SessionRecords]
      /\ \A s \in Sessions : /\ Gone(s) \in SessionRecords /\ Gone(s).state = "gone"
                             /\ Gone(s).kind = session[s].kind
                             /\ Gone(s).user = "user" /\ Gone(s).by = "nobody"
  BY SignInTypes, RowRecords
<1>2. session' \in [Sessions -> SessionRecords]
  BY <1>1
<1>3. \A s \in Sessions : session'[s] = IF s \in S THEN Gone(s) ELSE session[s]
  OBVIOUS
<1>4. NoBypass'
  BY <1>1, <1>3 DEF SignInInv, NoBypass
<1>5. ASSUME NEW s \in Sessions
      PROVE  /\ session'[s].kind = session[s].kind
             /\ session'[s].state \in {session[s].state, "gone"}
             /\ crossed' \/ /\ session'[s].user = "user" <=> session'[s].by = "nobody"
                            /\ session'[s].by \in {"nobody", "user"}
  BY <1>1, <1>3 DEF SignInInv, SelfKnown
<1> QED
  BY <1>2, <1>4, <1>5 DEF SessionsGoOn

\* One row ends.
LEMMA RowEnds ==
    ASSUME SignInInv, NEW s \in Sessions, crossed' = crossed,
           session' = [session EXCEPT ![s] = Gone(s)]
    PROVE  /\ SessionsGoOn /\ session'[s] = Gone(s)
           /\ \A t \in Sessions \ {s} : session'[t] = session[t]
<1>1. session \in [Sessions -> SessionRecords]
  BY SignInTypes
<1>2. session' = [t \in Sessions |-> IF t \in {s} THEN Gone(t) ELSE session[t]]
  BY <1>1
<1> QED
  BY <1>1, <1>2, RowsEnd

\* A new row is one that was free.
LEMMA NewRowIsFree ==
    ASSUME RowFree
    PROVE  NewRow \in Sessions /\ session[NewRow].state = "none"
  BY DEF RowFree, NewRow

\* A new row, of the user's own, that owes no second factor.
LEMMA RowInserted ==
    ASSUME SignInInv, NEW row \in SessionRecords, Insert(row), crossed' = crossed,
           row.user = "user", row.by = "nobody", row.state = "full" => row.factor \/ row.off
    PROVE  /\ SessionsGoOn /\ NewRow \in Sessions /\ session[NewRow].state = "none"
           /\ session'[NewRow] = row /\ \A s \in Sessions \ {NewRow} : session'[s] = session[s]
<1> DEFINE n == NewRow
<1>1. n \in Sessions /\ session[n].state = "none" /\ session \in [Sessions -> SessionRecords]
  BY NewRowIsFree, SignInTypes DEF Insert
<1>2. session' = [session EXCEPT ![n] = row]
  BY DEF Insert
<1> HIDE DEF n
<1>3. /\ session' \in [Sessions -> SessionRecords] /\ session'[n] = row
      /\ \A s \in Sessions \ {n} : session'[s] = session[s]
  BY <1>1, <1>2
<1>4. NoBypass'
  BY <1>3 DEF SignInInv, NoBypass
<1>5. ASSUME NEW s \in Sessions
      PROVE  /\ \/ session[s].state = "none"
                \/ /\ session'[s].kind = session[s].kind
                   /\ session'[s].state \in {session[s].state, "gone"}
             /\ crossed' \/ /\ session'[s].user = "user" <=> session'[s].by = "nobody"
                            /\ session'[s].by \in {"nobody", "user"}
  BY <1>1, <1>3 DEF SignInInv, SelfKnown
<1>6. SessionsGoOn
  BY <1>3, <1>4, <1>5 DEF SessionsGoOn
<1> QED
  BY <1>1, <1>3, <1>6 DEF n

\* The codes stay spent, and of their type, while no credential changes.
LEMMA CodesStay ==
    ASSUME SignInInv, UNCHANGED credentials
    PROVE  CodesSpent'
  BY DEF SignInInv, CodesSpent, credentials

\* A request that starts, gives up or goes on within itself touches no table.
LEMMA AbandonKeeps ==
    ASSUME SignInInv, NEW p \in Calls, Abandon(p)
    PROVE  SignInInv'
<1>1. CallsGoOn /\ AnswersGoOn /\ Checked' \subseteq Checked
  BY CallEnds DEF Abandon, credentials
<1>2. SessionsGoOn /\ CodesSpent'
  BY RowsStay, CodesStay DEF Abandon
<1>3. SignInTypeOK'
  BY <1>1, <1>2
  DEF SignInInv, SignInTypeOK, CallsGoOn, SessionsGoOn, CallRecords, SessionRecords, Abandon,
       credentials
<1>4. fails \in Nat
  BY DEF SignInInv, SignInTypeOK
<1>5. ThrottleOvershoot'
  BY <1>1, <1>4, ThrottleKept DEF Abandon
<1> QED
  BY <1>1, <1>2, <1>3, <1>5, GoesOn DEF Abandon

\* LoginThrottle.Check lets a request through below the limit, and whoever else was let
\* through is a request too.
LEMMA CredentialsKeeps ==
    ASSUME SignInInv, NEW p \in Calls, NEW kind \in Kinds, Credentials(p, kind)
    PROVE  SignInInv'
<1> DEFINE c == [Resting EXCEPT !.at = "checked", !.kind = kind]
<1>1. PICK unread \in BOOLEAN :
        /\ unread \/ ~Locked
        /\ Begin(p, c) /\ blind' = (blind \/ unread)
        /\ UNCHANGED <<clock, credentials, fails, link, verified, session, ended, crossed>>
  BY DEF Credentials
<1>2. c \in CallRecords /\ c.at = "checked"
  BY SignInTypes DEF Resting, CallRecords
<1> HIDE DEF c
<1>3. CallsGoOn /\ AnswersGoOn
  BY <1>1, <1>2, CallBegins DEF credentials, Answering
<1>4. SessionsGoOn /\ CodesSpent'
  BY <1>1, RowsStay, CodesStay
<1>5. calls' \in Nat /\ blind' \in BOOLEAN
  <2>1. calls' \in Nat
    BY <1>1 DEF Begin, SignInInv, SignInTypeOK
  <2>2. blind' \in BOOLEAN
    BY <1>1
  <2> QED
    BY <2>1, <2>2
<1>6. SignInTypeOK'
  BY <1>1, <1>3, <1>4, <1>5
  DEF SignInInv, SignInTypeOK, CallsGoOn, SessionsGoOn, CallRecords, SessionRecords, credentials
<1>7. ThrottleOvershoot'
  <2>1. CASE unread
    BY <1>1, <2>1 DEF ThrottleOvershoot
  <2>2. CASE ~unread
    <3>1. fails \in Nat /\ fails' < MaxFails /\ MaxFails \in Nat
      BY <1>1, <2>2, SignInAssumption DEF Locked, SignInInv, SignInTypeOK
    <3> DEFINE C == Checked'
    <3>2. C \in SUBSET Calls
      BY DEF Checked
    <3> HIDE DEF C
    <3>3. /\ Cardinality(C) \in Nat /\ Cardinality(Calls) \in Nat
          /\ Cardinality(C) <= Cardinality(Calls)
      BY <3>2, CallsAreFinite
    <3>4. fails' + Cardinality(C) < MaxFails + Cardinality(Calls)
      BY <1>1, <3>1, <3>3
    <3> QED
      BY <3>4 DEF ThrottleOvershoot, C, Checked
  <2> QED
    BY <2>1, <2>2
<1> QED
  BY <1>1, <1>3, <1>4, <1>6, <1>7, GoesOn

\* A wrong password: the request leaves the gap and may add its failure.
LEMMA WrongPasswordKeeps ==
    ASSUME SignInInv, NEW p \in Calls, WrongPassword(p),
           UNCHANGED <<clock, credentials, link, verified, session, ended, crossed, blind, calls>>
    PROVE  SignInInv'
<1>1. /\ CallsGoOn /\ AnswersGoOn /\ Checked' \subseteq Checked
      /\ call'[p] = Resting /\ call[p].at = "checked"
  BY CallEnds DEF WrongPassword, credentials
<1>2. SessionsGoOn /\ CodesSpent'
  BY RowsStay, CodesStay
<1>3. fails \in Nat /\ fails' \in {fails, fails + 1} /\ MaxFails \in Nat
  BY SignInAssumption DEF WrongPassword, Record, SignInInv, SignInTypeOK
<1>4. SignInTypeOK'
  BY <1>1, <1>2, <1>3
  DEF SignInInv, SignInTypeOK, CallsGoOn, SessionsGoOn, CallRecords, SessionRecords, credentials
<1>5. ThrottleOvershoot'
  <2> DEFINE C == Checked
             D == Checked'
  <2>1. p \in C /\ D \subseteq C \ {p} /\ C \in SUBSET Calls /\ D \in SUBSET Calls
    BY <1>1 DEF Checked, Resting
  <2>2. blind \/ fails + Cardinality(C) < MaxFails + Cardinality(Calls)
    BY DEF SignInInv, ThrottleOvershoot, Checked
  <2>3. ThrottleOvershoot' <=> blind \/ fails' + Cardinality(D) < MaxFails + Cardinality(Calls)
    BY DEF ThrottleOvershoot, Checked
  <2> HIDE DEF C, D
  <2>4. /\ Cardinality(C) \in Nat /\ Cardinality(D) \in Nat /\ Cardinality(Calls) \in Nat
        /\ Cardinality(D) <= Cardinality(C \ {p}) /\ Cardinality(C \ {p}) = Cardinality(C) - 1
    BY <2>1, CallsAreFinite
  <2> QED
    BY <1>3, <2>2, <2>3, <2>4
<1> QED
  BY <1>1, <1>2, <1>4, <1>5, GoesOn

\* The right password: mfa_enabled is read with the row.
LEMMA RightPasswordKeeps ==
    ASSUME SignInInv, NEW p \in Calls, RightPassword(p),
           UNCHANGED <<clock, credentials, link, verified, session, ended, crossed, blind, calls>>
    PROVE  SignInInv'
<1>1. call' = [call EXCEPT ![p] = [call[p] EXCEPT !.at = "passed", !.mfa = mfa]]
  BY SignInTypes DEF RightPassword
<1>2. CallsGoOn /\ AnswersGoOn /\ Checked' \subseteq Checked
  BY <1>1, CallPasses DEF RightPassword, credentials
<1>3. SessionsGoOn /\ CodesSpent'
  BY RowsStay, CodesStay
<1>4. fails \in Nat /\ fails' \in {fails, 0}
  BY DEF RightPassword, Record, SignInInv, SignInTypeOK
<1>5. SignInTypeOK'
  BY <1>2, <1>3, <1>4
  DEF SignInInv, SignInTypeOK, CallsGoOn, SessionsGoOn, CallRecords, SessionRecords, credentials
<1>6. ThrottleOvershoot'
  BY <1>2, <1>4, ThrottleKept
<1> QED
  BY <1>2, <1>3, <1>5, <1>6, GoesOn

\* magicLinkConsume: the link, then mfa_enabled.
LEMMA MagicLinkKeeps ==
    ASSUME SignInInv, NEW p \in Calls, NEW k \in Links, magicLinkConsume(p, k)
    PROVE  SignInInv'
<1> USE DEF credentials
<1>1. /\ UNCHANGED <<clock, credentials, fails, verified, session, ended, crossed, blind>>
      /\ calls' \in Nat /\ link' \in [Links -> {"none", "magic", "verify", "gone"}]
  BY SMTT(20) DEF magicLinkConsume, ConsumeMagicLink, Begin, SignInInv, SignInTypeOK
<1>2. CallsGoOn /\ AnswersGoOn /\ Checked' \subseteq Checked
  <2>1. CASE Begin(p, [Resting EXCEPT !.at = "linked"])
    <3> DEFINE c == [Resting EXCEPT !.at = "linked"]
    <3>1. c \in CallRecords /\ c.at = "linked" /\ Begin(p, c)
      BY <2>1, SignInTypes DEF Resting, CallRecords
    <3> HIDE DEF c
    <3> QED
      BY <1>1, <3>1, CallBegins DEF Answering
  <2>2. CASE call[p].at = "linked" /\ call' = [call EXCEPT ![p].at = "passed", ![p].mfa = MFAOwed]
    <3>1. call' = [call EXCEPT ![p] = [call[p] EXCEPT !.at = "passed", !.mfa = mfa]]
      BY <2>2, SignInTypes DEF MFAOwed
    <3> QED
      BY <1>1, <2>2, <3>1, CallPasses
  <2> QED
    BY <2>1, <2>2 DEF magicLinkConsume
<1>3. SessionsGoOn /\ CodesSpent'
  BY <1>1, RowsStay, CodesStay
<1>4. SignInTypeOK'
  BY <1>1, <1>2, <1>3
  DEF SignInInv, SignInTypeOK, CallsGoOn, SessionsGoOn, CallRecords, SessionRecords
<1>5. fails \in Nat
  BY DEF SignInInv, SignInTypeOK
<1>6. ThrottleOvershoot'
  BY <1>1, <1>2, <1>5, ThrottleKept
<1> QED
  BY <1>1, <1>2, <1>3, <1>4, <1>6, GoesOn

\* oauthCallback, for a user who exists.
LEMMA OauthKeeps ==
    ASSUME SignInInv, NEW p \in Calls, oauthCallback(p)
    PROVE  SignInInv'
<1> USE DEF credentials
<1>1. /\ UNCHANGED <<clock, credentials, fails, link, verified, session, ended, crossed, blind>>
      /\ calls' \in Nat
  BY DEF oauthCallback, Begin, SignInInv, SignInTypeOK
<1> DEFINE c == [Resting EXCEPT !.at = "passed", !.mfa = mfa]
           B == BOOLEAN
           R == [at : {"idle", "checked", "passed", "linked", "cleared", "challenged", "factored",
                       "completing", "enrolling", "coded", "starting"},
                 kind : Kinds, mfa : B, off : B, row : Sessions \cup {"none"}, step : Steps,
                 as : Persons, to : Persons]
<1>2. Resting \in R /\ R = CallRecords /\ mfa \in B
  BY SignInTypes DEF CallRecords
<1> HIDE DEF B
<1>3. c \in R /\ c.at = "passed" /\ c.mfa = mfa
  BY <1>2
<1>4. Begin(p, c)
  BY DEF oauthCallback
<1> HIDE DEF c, R
<1>5. CallsGoOn /\ AnswersGoOn /\ Checked' \subseteq Checked
  BY <1>1, <1>2, <1>3, <1>4, CallBegins DEF Answering
<1>6. SessionsGoOn /\ CodesSpent'
  BY <1>1, RowsStay, CodesStay
<1>7. SignInTypeOK'
  BY <1>1, <1>5, <1>6
  DEF SignInInv, SignInTypeOK, CallsGoOn, SessionsGoOn, CallRecords, SessionRecords
<1>8. fails \in Nat
  BY DEF SignInInv, SignInTypeOK
<1>9. ThrottleOvershoot'
  BY <1>1, <1>5, <1>8, ThrottleKept
<1> QED
  BY <1>1, <1>5, <1>6, <1>7, <1>9, GoesOn

\* The steps that leave the user's credentials and the throttle alone.
LEMMA CredentialsStay ==
    ASSUME SignInInv, CallsGoOn, AnswersGoOn, SessionsGoOn, Checked' \subseteq Checked,
           UNCHANGED <<clock, credentials, fails, link, verified, ended, blind>>,
           calls' \in Nat, crossed' \in BOOLEAN
    PROVE  SignInInv'
<1>1. CodesSpent'
  BY CodesStay
<1>2. SignInTypeOK'
  BY DEF SignInInv, SignInTypeOK, CallsGoOn, SessionsGoOn, CallRecords, SessionRecords, credentials
<1>3. fails \in Nat
  BY DEF SignInInv, SignInTypeOK
<1>4. ThrottleOvershoot'
  BY <1>3, ThrottleKept
<1> QED
  BY <1>1, <1>2, <1>4, GoesOn

\* The tail of a sign-in: a full session if MFA was read as off, else a pending one.
LEMMA SessionMadeKeeps ==
    ASSUME SignInInv, NEW p \in Calls, Create(p) \/ CreatePending(p) \/ CreateChallenge(p)
    PROVE  SignInInv'
<1> USE DEF credentials
<1>1. /\ UNCHANGED <<clock, credentials, fails, link, verified, ended, crossed, blind, calls>>
      /\ End(p)
  BY DEF Create, CreatePending, CreateChallenge
<1>2. CallsGoOn /\ AnswersGoOn /\ Checked' \subseteq Checked
  BY <1>1, CallEnds
<1>3. SessionsGoOn
  <2>1. CASE Create(p)
    <3>1. PICK o \in BOOLEAN : o = call[p].off
      BY SignInTypes DEF CallRecords
    <3>2. o /\ call[p].kind \in Kinds
      BY <2>1, <3>1, SignInTypes DEF Create, SignInInv, OffKnown, CallRecords
    <3> DEFINE row == Row(call[p].kind, "full", FALSE, o)
    <3>3. Insert(row)
      BY <2>1, <3>1 DEF Create
    <3>4. row \in SessionRecords /\ row.user = "user" /\ row.by = "nobody" /\ row.off = o
      BY <3>2, RowRecords
    <3> HIDE DEF row
    <3> QED
      BY <1>1, <3>2, <3>3, <3>4, RowInserted
  <2>2. ASSUME NEW kind \in Kinds, Insert(Row(kind, "pending", FALSE, FALSE)) PROVE SessionsGoOn
    <3>1. PICK f \in BOOLEAN : f = FALSE
      OBVIOUS
    <3> DEFINE row == Row(kind, "pending", f, f)
    <3>2. Insert(row)
      BY <2>2, <3>1
    <3>3. /\ row \in SessionRecords /\ row.user = "user" /\ row.by = "nobody"
          /\ row.state = "pending"
      BY RowRecords
    <3> HIDE DEF row
    <3> QED
      BY <1>1, <3>2, <3>3, RowInserted
  <2> QED
    BY <2>1, <2>2 DEF CreatePending, CreateChallenge, Kinds
<1>4. calls' \in Nat /\ crossed' \in BOOLEAN
  BY <1>1 DEF SignInInv, SignInTypeOK
<1> QED
  BY <1>1, <1>2, <1>3, <1>4, CredentialsStay

\* The pending sessions of earlier attempts go before the new one is held.
LEMMA ClearPendingKeeps ==
    ASSUME SignInInv, NEW p \in Calls, ClearPending(p)
    PROVE  SignInInv'
<1> USE DEF credentials
<1>1. UNCHANGED <<clock, credentials, fails, link, verified, ended, crossed, blind, calls>>
  BY DEF ClearPending
<1>2. CallsGoOn /\ AnswersGoOn /\ Checked' \subseteq Checked
  <2>1. "cleared" \notin Answering /\ To(p, "cleared") /\ call[p].at # "idle"
    BY DEF Answering, ClearPending
  <2> QED
    BY <1>1, <2>1, CallTo
<1>3. SessionsGoOn
  <2> DEFINE S == {s \in Sessions : session[s].state = "pending" /\ session[s].kind = "web"}
  <2>1. session' = [s \in Sessions |-> IF s \in S THEN Gone(s) ELSE session[s]]
    BY DEF ClearPending
  <2>2. S \in SUBSET Sessions
    OBVIOUS
  <2> HIDE DEF S
  <2> QED
    BY <1>1, <2>1, <2>2, RowsEnd
<1>4. calls' \in Nat /\ crossed' \in BOOLEAN
  BY <1>1 DEF SignInInv, SignInTypeOK
<1> QED
  BY <1>1, <1>2, <1>3, <1>4, CredentialsStay

\* The second factor: a code above the counter, so of a step not used before, or a recovery code.
LEMMA SecondFactorKeeps ==
    ASSUME SignInInv, NEW p \in Calls, SecondFactor(p)
    PROVE  SignInInv'
<1>1. /\ UNCHANGED <<clock, fails, link, verified, session, ended, crossed, blind, calls>>
      /\ mfa' = mfa /\ reenrolled' = reenrolled
  BY DEF SecondFactor, VerifyAndConsumeTOTP, ConsumeRecoveryCode
<1>2. CallsGoOn /\ AnswersGoOn /\ Checked' \subseteq Checked
  <2>1. To(p, "factored") /\ call[p].at = "challenged"
    BY DEF SecondFactor
  <2> QED
    BY <1>1, <2>1, CallTo
<1>3. SessionsGoOn
  BY <1>1, RowsStay
<1>4. CodesSpent' /\ last' \in Steps /\ unused' \in SUBSET Codes /\ uses' \in [Steps -> Nat]
  <2>1. uses \in [Steps -> Nat] /\ last \in Steps /\ unused \in SUBSET Codes /\ Steps \subseteq Nat
    BY SignInAssumption DEF SignInInv, SignInTypeOK, Steps
  <2>2. CASE \E c \in Steps : VerifyAndConsumeTOTP(c)
    <3>1. PICK c \in Steps : VerifyAndConsumeTOTP(c)
      BY <2>2
    <3>2. /\ c > last /\ last' = c /\ uses' = [uses EXCEPT ![c] = @ + 1]
          /\ unused' = unused
      BY <3>1 DEF VerifyAndConsumeTOTP, Unspent
    <3>3. CodesSpent'
      BY <1>1, <2>1, <3>2 DEF SignInInv, CodesSpent
    <3> QED
      BY <2>1, <3>2, <3>3
  <2>3. CASE \E k \in Codes : ConsumeRecoveryCode(k)
    BY <1>1, <2>1, <2>3 DEF ConsumeRecoveryCode, SignInInv, CodesSpent
  <2> QED
    BY <2>2, <2>3 DEF SecondFactor
<1>5. SignInTypeOK'
  BY <1>1, <1>2, <1>3, <1>4
  DEF SignInInv, SignInTypeOK, CallsGoOn, SessionsGoOn, CallRecords, SessionRecords
<1>6. fails \in Nat
  BY DEF SignInInv, SignInTypeOK
<1>7. ThrottleOvershoot'
  BY <1>1, <1>2, <1>6, ThrottleKept
<1> QED
  BY <1>1, <1>2, <1>3, <1>4, <1>5, <1>7, GoesOn

\* CompleteMFA reads the pending row.
LEMMA CompletingKeeps ==
    ASSUME SignInInv, NEW p \in Calls, call[p].at = "factored", call[p].kind = "web",
           PendingMFAUser(call[p].row), To(p, "completing"),
           UNCHANGED <<clock, credentials, fails, link, verified, session, ended, crossed, blind,
                       calls>>
    PROVE  SignInInv'
<1> USE DEF credentials
<1>2. CallsGoOn /\ AnswersGoOn /\ Checked' \subseteq Checked
  BY CallTo DEF PendingMFAUser
<1>3. SessionsGoOn
  BY RowsStay
<1>4. calls' \in Nat /\ crossed' \in BOOLEAN
  BY DEF SignInInv, SignInTypeOK
<1> QED
  BY <1>2, <1>3, <1>4, CredentialsStay

\* logout, mobileLogout and the timeouts: a row ends.
LEMMA RowEndsKeeps ==
    ASSUME SignInInv, NEW s \in Sessions, session' = [session EXCEPT ![s] = Gone(s)],
           UNCHANGED <<clock, credentials, fails, link, verified, call, ended, crossed, blind,
                       calls>>
    PROVE  SignInInv'
<1>1. CallsGoOn /\ AnswersGoOn /\ Checked' \subseteq Checked
  <2>1. CallsGoOn
    BY SignInTypes DEF CallsGoOn, SignInInv, SelfKnown, OffKnown, credentials
  <2>2. AnswersGoOn
    BY DEF AnswersGoOn, SignInInv, RowsKnown
  <2> QED
    BY <2>1, <2>2 DEF Checked
<1>2. SessionsGoOn
  BY RowEnds
<1>3. calls' \in Nat /\ crossed' \in BOOLEAN
  BY DEF SignInInv, SignInTypeOK
<1> QED
  BY <1>1, <1>2, <1>3, CredentialsStay

\* The invariant after a step that begins or ends the answer to a challenge.
LEMMA AnswerStep ==
    ASSUME SignInInv, CallsGoOn, SessionsGoOn, RowsKnown', WebEnded', Checked' \subseteq Checked,
           UNCHANGED <<clock, credentials, fails, link, verified, blind>>,
           calls' \in Nat, crossed' \in BOOLEAN, ended' \in [Sessions -> Nat]
    PROVE  SignInInv'
<1>1. CodesSpent'
  BY CodesStay
<1>2. SignInTypeOK'
  BY DEF SignInInv, SignInTypeOK, CallsGoOn, SessionsGoOn, CallRecords, SessionRecords, credentials
<1>3. fails \in Nat
  BY DEF SignInInv, SignInTypeOK
<1>4. ThrottleOvershoot'
  BY <1>3, ThrottleKept
<1>5. SelfKnown' /\ OffKnown' /\ NoBypass'
  BY DEF SelfKnown, CallsGoOn, SessionsGoOn
<1> QED
  BY <1>1, <1>2, <1>4, <1>5 DEF SignInInv

\* mfaChallengeSubmit begins with a pending session, which stays.
LEMMA ChallengeBegins ==
    ASSUME SignInInv, NEW p \in Calls, NEW s \in Sessions, PendingMFAUser(s),
           Begin(p, [Resting EXCEPT !.at = "challenged", !.row = s]),
           UNCHANGED <<clock, credentials, fails, link, verified, session, ended, crossed, blind>>
    PROVE  SignInInv'
<1> USE DEF credentials
<1> DEFINE c == [Resting EXCEPT !.at = "challenged", !.row = s]
<1>1. /\ c \in CallRecords /\ c.at = "challenged" /\ c.row = s /\ c.kind = "web" /\ Begin(p, c)
  BY SignInTypes DEF Resting, CallRecords
<1> HIDE DEF c
<1>2. /\ CallsGoOn /\ Checked' \subseteq Checked /\ call[p].at = "idle"
      /\ call'[p].at = "challenged" /\ call'[p].row = s /\ call'[p].kind = "web"
      /\ \A q \in Calls \ {p} : call'[q] = call[q]
  BY <1>1, CallBegins
<1>3. SessionsGoOn
  BY RowsStay
<1>4. session[s].state = "pending" /\ session[s].kind = "web"
  BY DEF PendingMFAUser
<1>5. \A q \in Calls, t \in Sessions : AnswersMobile(q, t)' <=> AnswersMobile(q, t)
  BY <1>2 DEF AnswersMobile
<1>6. RowsKnown'
  <2>1. ASSUME NEW q \in Calls, call'[q].at \in Answering
        PROVE  /\ call'[q].row \in Sessions /\ session'[call'[q].row].state \in {"pending", "gone"}
               /\ session'[call'[q].row].kind = call'[q].kind
               /\ call'[q].at = "completing" => call'[q].kind = "web"
    <3>1. CASE q = p
      BY <1>2, <1>4, <3>1
    <3>2. CASE q # p
      BY <1>2, <2>1, <3>2 DEF SignInInv, RowsKnown
    <3> QED
      BY <3>1, <3>2
  <2> QED
    BY <1>5, <2>1 DEF SignInInv, RowsKnown
<1>7. WebEnded'
  <2>1. \A t \in Sessions : Completing(t)' = Completing(t)
    BY <1>2 DEF Completing
  <2> QED
    BY <2>1 DEF SignInInv, WebEnded
<1>8. calls' \in Nat /\ crossed' \in BOOLEAN /\ ended' \in [Sessions -> Nat]
  BY DEF Begin, SignInInv, SignInTypeOK
<1> QED
  BY <1>2, <1>3, <1>6, <1>7, <1>8, AnswerStep

\* mobileMFAVerify begins by deleting the challenge: no other request has it.
LEMMA MobileChallengeBegins ==
    ASSUME SignInInv, NEW p \in Calls, NEW s \in Sessions,
           session[s].state = "pending", session[s].kind = "mobile", session' = ConsumeChallenge(s),
           Begin(p, [Resting EXCEPT !.at = "challenged", !.row = s, !.kind = "mobile"]),
           UNCHANGED <<clock, credentials, fails, link, verified, ended, crossed, blind>>
    PROVE  SignInInv'
<1> USE DEF credentials
<1> DEFINE c == [Resting EXCEPT !.at = "challenged", !.row = s, !.kind = "mobile"]
<1>1. c \in CallRecords /\ c.at = "challenged" /\ c.row = s /\ c.kind = "mobile" /\ Begin(p, c)
  BY SignInTypes DEF Resting, CallRecords, Kinds
<1> HIDE DEF c
<1>2. /\ CallsGoOn /\ Checked' \subseteq Checked /\ call[p].at = "idle"
      /\ call'[p].at = "challenged" /\ call'[p].row = s /\ call'[p].kind = "mobile"
      /\ \A q \in Calls \ {p} : call'[q] = call[q]
  BY <1>1, CallBegins
<1>3. /\ SessionsGoOn /\ session'[s].state = "gone" /\ session'[s].kind = "mobile"
      /\ \A t \in Sessions \ {s} : session'[t] = session[t]
  <2>1. session' = [session EXCEPT ![s] = Gone(s)]
    BY DEF ConsumeChallenge
  <2>2. SessionsGoOn /\ session'[s] = Gone(s) /\ \A t \in Sessions \ {s} : session'[t] = session[t]
    BY <2>1, RowEnds
  <2>3. Gone(s).state = "gone" /\ Gone(s).kind = "mobile"
    BY RowRecords
  <2> QED
    BY <2>2, <2>3
<1>4. \A q \in Calls, t \in Sessions : AnswersMobile(q, t)' <=> AnswersMobile(q, t) \/ (q = p /\ t = s)
  BY <1>2 DEF AnswersMobile
<1>5. \A q \in Calls : ~AnswersMobile(q, s)
  BY DEF SignInInv, RowsKnown
<1>6. ended[s] = 0
  BY DEF SignInInv, RowsKnown
<1>7. RowsKnown'
  <2>1. ASSUME NEW q \in Calls, call'[q].at \in Answering
        PROVE  /\ call'[q].row \in Sessions /\ session'[call'[q].row].state \in {"pending", "gone"}
               /\ session'[call'[q].row].kind = call'[q].kind
               /\ call'[q].at = "completing" => call'[q].kind = "web"
    <3>1. CASE q = p
      BY <1>2, <1>3, <3>1
    <3>2. CASE q # p
      BY <1>2, <1>3, <2>1, <3>2 DEF SignInInv, RowsKnown
    <3> QED
      BY <3>1, <3>2
  <2>2. ASSUME NEW q \in Calls, NEW t \in Sessions, AnswersMobile(q, t)'
        PROVE  /\ session'[t].state = "gone" /\ ended'[t] = 0
               /\ \A o \in Calls : AnswersMobile(o, t)' => o = q
    <3>1. CASE t = s
      BY <1>3, <1>4, <1>5, <1>6, <2>2, <3>1
    <3>2. CASE t # s
      BY <1>3, <1>4, <2>2, <3>2 DEF SignInInv, RowsKnown
    <3> QED
      BY <3>1, <3>2
  <2>3. ASSUME NEW t \in Sessions
        PROVE  /\ session'[t].state \in {"none", "pending"} => ended'[t] = 0
               /\ session'[t].kind = "mobile" => ended'[t] <= 1
    BY <1>3, <1>6 DEF SignInInv, RowsKnown
  <2> QED
    BY <2>1, <2>2, <2>3 DEF RowsKnown
<1>8. WebEnded'
  <2>1. \A t \in Sessions : Completing(t)' = Completing(t)
    BY <1>2 DEF Completing
  <2> QED
    BY <1>3, <2>1 DEF SignInInv, WebEnded
<1>9. calls' \in Nat /\ crossed' \in BOOLEAN /\ ended' \in [Sessions -> Nat]
  BY DEF Begin, SignInInv, SignInTypeOK
<1> QED
  BY <1>2, <1>3, <1>7, <1>8, <1>9, AnswerStep

\* issueMobileToken: the only request with the challenge makes the only token of it.
LEMMA MobileTokenKeeps ==
    ASSUME SignInInv, NEW p \in Calls, NEW s \in Sessions, call[p].kind = "mobile", call[p].row = s,
           issueMobileToken(p),
           UNCHANGED <<clock, credentials, fails, link, verified, crossed, blind, calls>>
    PROVE  SignInInv'
<1> USE DEF credentials
<1>1. call[p].at = "factored" /\ End(p) /\ ended' = [ended EXCEPT ![s] = @ + 1]
  BY DEF issueMobileToken
<1>2. /\ CallsGoOn /\ Checked' \subseteq Checked /\ call'[p].at = "idle"
      /\ \A q \in Calls \ {p} : call'[q] = call[q]
  BY <1>1, CallEnds, SignInTypes
<1> DEFINE n == NewRow
<1>3. /\ SessionsGoOn /\ n \in Sessions /\ session[n].state = "none"
      /\ session'[n].state = "full" /\ session'[n].kind = "mobile"
      /\ \A t \in Sessions \ {n} : session'[t] = session[t]
  <2>1. PICK t \in BOOLEAN, f \in BOOLEAN : t = TRUE /\ f = FALSE
    OBVIOUS
  <2> DEFINE row == Row("mobile", "full", t, f)
  <2>2. Insert(row)
    BY <2>1 DEF issueMobileToken
  <2>3. /\ row \in SessionRecords /\ row.user = "user" /\ row.by = "nobody" /\ row.factor = t
        /\ row.state = "full" /\ row.kind = "mobile"
    BY RowRecords DEF Kinds
  <2> HIDE DEF row
  <2> QED
    BY <2>1, <2>2, <2>3, RowInserted
<1> HIDE DEF n
<1>4. /\ AnswersMobile(p, s) /\ session[s].state = "gone" /\ session[s].kind = "mobile"
      /\ ended[s] = 0 /\ s # n
  BY <1>1, <1>3 DEF AnswersMobile, SignInInv, RowsKnown, Answering
<1>5. ended \in [Sessions -> Nat]
  BY DEF SignInInv, SignInTypeOK
<1>6. ended'[s] = 1 /\ \A t \in Sessions \ {s} : ended'[t] = ended[t]
  BY <1>1, <1>4, <1>5
<1>7. \A q \in Calls, t \in Sessions :
         AnswersMobile(q, t)' => AnswersMobile(q, t) /\ q # p /\ t # s
  <2>1. \A q \in Calls, t \in Sessions : AnswersMobile(q, t)' => AnswersMobile(q, t) /\ q # p
    BY <1>2 DEF AnswersMobile
  <2>2. \A q \in Calls : AnswersMobile(q, s) => q = p
    BY <1>4 DEF SignInInv, RowsKnown
  <2> QED
    BY <2>1, <2>2
<1>8. RowsKnown'
  <2>1. ASSUME NEW q \in Calls, call'[q].at \in Answering
        PROVE  /\ call'[q].row \in Sessions /\ session'[call'[q].row].state \in {"pending", "gone"}
               /\ session'[call'[q].row].kind = call'[q].kind
               /\ call'[q].at = "completing" => call'[q].kind = "web"
    <3>1. q # p
      BY <1>2, <2>1 DEF Answering
    <3>2. call'[q] = call[q] /\ call[q].row # n
      BY <1>2, <1>3, <2>1, <3>1 DEF SignInInv, RowsKnown
    <3> QED
      BY <1>3, <2>1, <3>2 DEF SignInInv, RowsKnown
  <2>2. ASSUME NEW q \in Calls, NEW t \in Sessions, AnswersMobile(q, t)'
        PROVE  /\ session'[t].state = "gone" /\ ended'[t] = 0
               /\ \A o \in Calls : AnswersMobile(o, t)' => o = q
    <3>1. AnswersMobile(q, t) /\ t # s
      BY <1>7, <2>2
    <3>2. session[t].state = "gone" /\ ended[t] = 0 /\ \A o \in Calls : AnswersMobile(o, t) => o = q
      BY <3>1 DEF SignInInv, RowsKnown
    <3> QED
      BY <1>3, <1>6, <1>7, <3>1, <3>2
  <2>3. ASSUME NEW t \in Sessions
        PROVE  /\ session'[t].state \in {"none", "pending"} => ended'[t] = 0
               /\ session'[t].kind = "mobile" => ended'[t] <= 1
    BY <1>3, <1>4, <1>6 DEF SignInInv, RowsKnown
  <2> QED
    BY <2>1, <2>2, <2>3 DEF RowsKnown
<1>9. WebEnded'
  <2>1. \A t \in Sessions : Completing(t)' = Completing(t)
    BY <1>1, <1>2 DEF Completing
  <2>2. \A t \in Sessions : session'[t].kind = "web" =>
            session[t].kind = "web" /\ ended'[t] = ended[t]
    BY <1>3, <1>4, <1>6
  <2> QED
    BY <2>1, <2>2 DEF SignInInv, WebEnded
<1>10. calls' \in Nat /\ crossed' \in BOOLEAN /\ ended' \in [Sessions -> Nat]
  BY <1>1, <1>5 DEF SignInInv, SignInTypeOK
<1> QED
  BY <1>2, <1>3, <1>8, <1>9, <1>10, AnswerStep

\* CompleteMFA: one full session per request that had read the pending row.
LEMMA CompleteKeeps ==
    ASSUME SignInInv, NEW p \in Calls, NEW s \in Sessions, call[p].at = "completing",
           call[p].row = s, CompleteMFA(p),
           UNCHANGED <<clock, credentials, fails, link, verified, crossed, blind, calls>>
    PROVE  SignInInv'
<1> USE DEF credentials
<1>0. RowFree /\ End(p) /\ ended' = [ended EXCEPT ![s] = @ + 1]
  BY DEF CompleteMFA
<1>1. /\ CallsGoOn /\ Checked' \subseteq Checked /\ call'[p].at = "idle"
      /\ \A q \in Calls \ {p} : call'[q] = call[q]
  BY <1>0, CallEnds, SignInTypes
<1>2. session[s].state \in {"pending", "gone"} /\ session[s].kind = "web"
  BY DEF SignInInv, RowsKnown, Answering
<1> DEFINE n == NewRow
<1>3. n \in Sessions /\ session[n].state = "none" /\ n # s
  BY <1>0, <1>2, NewRowIsFree
<1>4. PICK t \in BOOLEAN, f \in BOOLEAN : t = TRUE /\ f = FALSE
  OBVIOUS
<1> DEFINE row == Row("web", "full", t, f)
           gone == Gone(s)
<1>5. /\ row \in SessionRecords /\ row.user = "user" /\ row.by = "nobody" /\ row.factor = t
      /\ row.state = "full" /\ row.kind = "web"
      /\ gone \in SessionRecords /\ gone.user = "user" /\ gone.by = "nobody"
      /\ gone.state = "gone" /\ gone.kind = "web"
  BY <1>2, RowRecords DEF Kinds
<1>6. session' = [session EXCEPT ![s] = gone, ![n] = row]
  BY <1>4 DEF CompleteMFA
<1> HIDE DEF n, row, gone
<1>7. session \in [Sessions -> SessionRecords]
  BY SignInTypes
<1>8. /\ session' \in [Sessions -> SessionRecords] /\ session'[s] = gone /\ session'[n] = row
      /\ \A u \in Sessions \ {s, n} : session'[u] = session[u]
  BY <1>3, <1>5, <1>6, <1>7
<1>9. SessionsGoOn
  <2>1. NoBypass'
    BY <1>4, <1>5, <1>8 DEF SignInInv, NoBypass
  <2>2. ASSUME NEW u \in Sessions
        PROVE  /\ \/ session[u].state = "none"
                  \/ /\ session'[u].kind = session[u].kind
                     /\ session'[u].state \in {session[u].state, "gone"}
               /\ crossed' \/ /\ session'[u].user = "user" <=> session'[u].by = "nobody"
                              /\ session'[u].by \in {"nobody", "user"}
    BY <1>2, <1>3, <1>5, <1>8 DEF SignInInv, SelfKnown
  <2> QED
    BY <1>8, <2>1, <2>2 DEF SessionsGoOn
<1>10. ended \in [Sessions -> Nat]
  BY DEF SignInInv, SignInTypeOK
<1>11. ended'[s] = ended[s] + 1 /\ \A u \in Sessions \ {s} : ended'[u] = ended[u]
  BY <1>0, <1>10
<1>12. \A q \in Calls, u \in Sessions : AnswersMobile(q, u)' => AnswersMobile(q, u) /\ u # s
  <2>1. \A q \in Calls, u \in Sessions : AnswersMobile(q, u)' => AnswersMobile(q, u)
    BY <1>1 DEF AnswersMobile
  <2>2. \A q \in Calls : ~AnswersMobile(q, s)
    BY <1>2 DEF SignInInv, RowsKnown, AnswersMobile, Answering
  <2> QED
    BY <2>1, <2>2
<1>13. RowsKnown'
  <2>1. ASSUME NEW q \in Calls, call'[q].at \in Answering
        PROVE  /\ call'[q].row \in Sessions /\ session'[call'[q].row].state \in {"pending", "gone"}
               /\ session'[call'[q].row].kind = call'[q].kind
               /\ call'[q].at = "completing" => call'[q].kind = "web"
    <3>1. q # p
      BY <1>1, <2>1 DEF Answering
    <3>2. call'[q] = call[q] /\ call[q].row # n
      BY <1>1, <1>3, <2>1, <3>1 DEF SignInInv, RowsKnown
    <3> QED
      BY <1>2, <1>5, <1>8, <2>1, <3>2 DEF SignInInv, RowsKnown
  <2>2. ASSUME NEW q \in Calls, NEW u \in Sessions, AnswersMobile(q, u)'
        PROVE  /\ session'[u].state = "gone" /\ ended'[u] = 0
               /\ \A o \in Calls : AnswersMobile(o, u)' => o = q
    <3>1. AnswersMobile(q, u) /\ u # s
      BY <1>12, <2>2
    <3>2. session[u].state = "gone" /\ ended[u] = 0 /\ \A o \in Calls : AnswersMobile(o, u) => o = q
      BY <3>1 DEF SignInInv, RowsKnown
    <3> QED
      BY <1>3, <1>8, <1>11, <1>12, <3>1, <3>2
  <2>3. ASSUME NEW u \in Sessions
        PROVE  /\ session'[u].state \in {"none", "pending"} => ended'[u] = 0
               /\ session'[u].kind = "mobile" => ended'[u] <= 1
    BY <1>3, <1>5, <1>8, <1>11 DEF SignInInv, RowsKnown
  <2> QED
    BY <2>1, <2>2, <2>3 DEF RowsKnown
<1>14. WebEnded'
  <2> SUFFICES ASSUME NEW u \in Sessions, session'[u].kind = "web"
               PROVE  ended'[u] + Cardinality(Completing(u)') <= Cardinality(Calls)
    BY DEF WebEnded
  <2> DEFINE C == Completing(u)
             D == Completing(u)'
  <2>1. C \in SUBSET Calls /\ D \in SUBSET Calls /\ D \subseteq C \ {p} /\ (u = s => p \in C)
    BY <1>1 DEF Completing
  <2>2. session[u].kind = "web" => ended[u] + Cardinality(C) <= Cardinality(Calls)
    BY DEF SignInInv, WebEnded
  <2>3. /\ u = s => session[u].kind = "web"
        /\ u = n => ended'[u] = 0
        /\ u \notin {s, n} => session[u].kind = "web" /\ ended'[u] = ended[u]
    BY <1>2, <1>3, <1>8, <1>11 DEF SignInInv, RowsKnown
  <2> HIDE DEF C, D
  <2>4. /\ Cardinality(C) \in Nat /\ Cardinality(D) \in Nat /\ Cardinality(Calls) \in Nat
        /\ Cardinality(D) <= Cardinality(Calls) /\ Cardinality(D) <= Cardinality(C)
        /\ u = s => Cardinality(D) <= Cardinality(C) - 1
    <3>1. D \subseteq C /\ C \ {p} \in SUBSET Calls
      BY <2>1
    <3>2. u = s => Cardinality(C \ {p}) = Cardinality(C) - 1 /\ Cardinality(D) <= Cardinality(C \ {p})
      BY <2>1, <3>1, CallsAreFinite
    <3> QED
      BY <2>1, <3>1, <3>2, CallsAreFinite
  <2>5. ended[u] \in Nat /\ (u = s => ended'[u] = ended[u] + 1)
    BY <1>10, <1>11
  <2>6. ended'[u] + Cardinality(D) <= Cardinality(Calls)
    BY <2>2, <2>3, <2>4, <2>5
  <2> QED
    BY <2>6 DEF D
<1>15. calls' \in Nat /\ crossed' \in BOOLEAN /\ ended' \in [Sessions -> Nat]
  BY <1>0, <1>10 DEF SignInInv, SignInTypeOK
<1> QED
  BY <1>1, <1>9, <1>13, <1>14, <1>15, AnswerStep

\* mfaEnable begins as a user without MFA.
LEMMA EnrolBegins ==
    ASSUME SignInInv, NEW p \in Calls, NEW s \in Sessions, NEW c \in Steps,
           Begin(p, [Resting EXCEPT !.at = "enrolling", !.step = c, !.row = s]),
           UNCHANGED <<clock, credentials, fails, link, verified, session, ended, crossed, blind>>
    PROVE  SignInInv'
<1> USE DEF credentials
<1> DEFINE r == [Resting EXCEPT !.at = "enrolling", !.step = c, !.row = s]
<1>1. r \in CallRecords /\ r.at = "enrolling" /\ Begin(p, r)
  BY SignInTypes DEF Resting, CallRecords
<1> HIDE DEF r
<1>2. CallsGoOn /\ AnswersGoOn /\ Checked' \subseteq Checked
  BY <1>1, CallBegins DEF Answering
<1>3. SessionsGoOn
  BY RowsStay
<1>4. calls' \in Nat /\ crossed' \in BOOLEAN
  BY DEF Begin, SignInInv, SignInTypeOK
<1> QED
  BY <1>2, <1>3, <1>4, CredentialsStay

\* mfaEnable goes on: new recovery codes, then the flag, with the confirming code spent.
LEMMA EnrolKeeps ==
    ASSUME SignInInv, NEW p \in Calls,
           \/ call[p].at = "enrolling" /\ ReplaceRecoveryCodes /\ To(p, "coded")
           \/ call[p].at = "coded" /\ EnableMFA(call[p].step) /\ End(p),
           UNCHANGED <<clock, fails, link, verified, session, ended, crossed, blind, calls>>
    PROVE  SignInInv'
<1>1. SessionsGoOn
  BY RowsStay
<1>2. /\ CallsGoOn /\ AnswersGoOn /\ Checked' \subseteq Checked
      /\ CodesSpent' /\ mfa' \in BOOLEAN /\ reenrolled' \in BOOLEAN /\ last' \in Steps
      /\ unused' \in SUBSET Codes /\ uses' \in [Steps -> Nat]
  <2>1. CASE call[p].at = "enrolling" /\ ReplaceRecoveryCodes /\ To(p, "coded")
    <3>1. CallsGoOn /\ AnswersGoOn /\ Checked' \subseteq Checked
      BY <2>1, CallTo DEF ReplaceRecoveryCodes, Answering
    <3>2. CodesSpent'
      BY <2>1 DEF ReplaceRecoveryCodes, SignInInv, CodesSpent
    <3>3. /\ mfa' \in BOOLEAN /\ reenrolled' \in BOOLEAN /\ last' \in Steps
          /\ unused' \in SUBSET Codes /\ uses' \in [Steps -> Nat]
      BY <2>1 DEF ReplaceRecoveryCodes, SignInInv, SignInTypeOK
    <3> QED
      BY <3>1, <3>2, <3>3
  <2>2. CASE call[p].at = "coded" /\ EnableMFA(call[p].step) /\ End(p)
    <3> DEFINE c == call[p].step
    <3>1. mfa' /\ mfa' \in BOOLEAN
      BY <2>2 DEF EnableMFA
    <3>2. CallsGoOn /\ AnswersGoOn /\ Checked' \subseteq Checked
      BY <2>2, <3>1, CallEnds
    <3>3. c \in Steps /\ last' = c /\ unused' = unused
      BY <2>2, SignInTypes DEF EnableMFA, CallRecords
    <3>4. Steps \subseteq Nat
      BY SignInAssumption DEF Steps
    <3>5. CASE mfa
      <4>1. reenrolled' = TRUE /\ uses' = uses
        BY <2>2, <3>5 DEF EnableMFA
      <4>2. CodesSpent'
        BY <4>1 DEF CodesSpent
      <4> QED
        BY <3>1, <3>2, <3>3, <4>1, <4>2 DEF SignInInv, SignInTypeOK
    <3>6. CASE ~mfa
      <4>1. uses' = [d \in Steps |-> IF d = c THEN 1 ELSE 0]
        BY <2>2, <3>6 DEF EnableMFA
      <4>2. CodesSpent'
        <5>1. \A d \in Steps : uses'[d] \in {0, 1} /\ (d # c => uses'[d] = 0)
          BY <4>1
        <5>2. ASSUME NEW d \in Steps
              PROVE  d > c => d # c
          <6>1. c \in Nat /\ d \in Nat
            BY <3>3, <3>4
          <6> QED BY <6>1
        <5>3. \A d \in Steps : d > last' => uses'[d] = 0
          BY <3>3, <5>1, <5>2
        <5> QED BY <5>1, <5>3 DEF CodesSpent
      <4>3. reenrolled' \in BOOLEAN
        BY <2>2 DEF EnableMFA
      <4> QED
        BY <3>1, <3>2, <3>3, <4>1, <4>2, <4>3 DEF SignInInv, SignInTypeOK
    <3> QED
      BY <3>5, <3>6
  <2> QED
    BY <2>1, <2>2
<1>3. SignInTypeOK'
  BY <1>1, <1>2
  DEF SignInInv, SignInTypeOK, CallsGoOn, SessionsGoOn, CallRecords, SessionRecords
<1>4. fails \in Nat
  BY DEF SignInInv, SignInTypeOK
<1>5. ThrottleOvershoot'
  BY <1>2, <1>4, ThrottleKept
<1> QED
  BY <1>1, <1>2, <1>3, <1>5, GoesOn

\* mfaDisable: every request that is running has seen MFA off.
LEMMA DisableKeeps ==
    ASSUME SignInInv, NEW s \in Sessions, mfaDisable(s)
    PROVE  SignInInv'
<1>1. /\ UNCHANGED <<clock, fails, link, verified, session, ended, crossed, blind, calls>>
      /\ UNCHANGED <<last, uses, reenrolled>> /\ mfa' = FALSE /\ unused' = {}
  BY DEF mfaDisable, DisableMFA
<1>2. SessionsGoOn
  BY <1>1, RowsStay
<1>3. CodesSpent'
  BY <1>1 DEF SignInInv, CodesSpent
<1> DEFINE B == BOOLEAN
           R == [at : {"idle", "checked", "passed", "linked", "cleared", "challenged", "factored",
                       "completing", "enrolling", "coded", "starting"},
                 kind : Kinds, mfa : B, off : B, row : Sessions \cup {"none"}, step : Steps,
                 as : Persons, to : Persons]
<1>4. PICK isOff \in B : isOff = TRUE
  OBVIOUS
<1> DEFINE r(q) == IF call[q].at = "idle" THEN call[q] ELSE [call[q] EXCEPT !.off = isOff]
<1>5. call' = [q \in Calls |-> r(q)]
  BY <1>4 DEF mfaDisable
<1>6. (\A q \in Calls : call[q] \in R) /\ R = CallRecords
  BY SignInTypes DEF CallRecords
<1> HIDE DEF B
<1>7. ASSUME NEW q \in Calls
      PROVE  /\ r(q) \in R /\ r(q).at = call[q].at /\ r(q).row = call[q].row
             /\ r(q).kind = call[q].kind /\ r(q).to = call[q].to /\ r(q).as = call[q].as
             /\ r(q).at # "idle" => r(q).off = isOff
  BY <1>4, <1>6
<1> HIDE DEF R, r
<1>8. /\ call' \in [Calls -> CallRecords]
      /\ \A q \in Calls : /\ call'[q].at = call[q].at /\ call'[q].row = call[q].row
                          /\ call'[q].kind = call[q].kind
                          /\ call'[q].to = call[q].to /\ call'[q].as = call[q].as
                          /\ call'[q].at # "idle" => call'[q].off = isOff
  BY <1>5, <1>6, <1>7
<1>9. OffKnown'
  BY <1>4, <1>8 DEF OffKnown
<1>10. CallsGoOn /\ Checked' \subseteq Checked
  BY <1>8, <1>9 DEF CallsGoOn, SignInInv, SelfKnown, Checked
<1>11. AnswersGoOn
  BY <1>8 DEF AnswersGoOn, SignInInv, RowsKnown
<1>12. SignInTypeOK'
  BY <1>1, <1>2, <1>8
  DEF SignInInv, SignInTypeOK, SessionsGoOn, CallRecords, SessionRecords
<1>13. fails \in Nat
  BY DEF SignInInv, SignInTypeOK
<1>14. ThrottleOvershoot'
  BY <1>1, <1>10, <1>13, ThrottleKept
<1> QED
  BY <1>1, <1>2, <1>3, <1>10, <1>11, <1>12, <1>14, GoesOn

\* A session's row is rewritten by the staff console, with the state, the kind and what it was paid with.
LEMMA RowRewritten ==
    ASSUME SignInInv, NEW s \in Sessions, NEW row \in SessionRecords,
           session' = [session EXCEPT ![s] = row],
           row.state = session[s].state, row.kind = session[s].kind,
           row.factor = session[s].factor, row.off = session[s].off, crossed => crossed',
           ~crossed' => /\ row.user = "user" <=> row.by = "nobody"
                        /\ row.by \in {"nobody", "user"}
    PROVE  SessionsGoOn
<1>1. session \in [Sessions -> SessionRecords]
  BY SignInTypes
<1>2. /\ session' \in [Sessions -> SessionRecords] /\ session'[s] = row
      /\ \A t \in Sessions \ {s} : session'[t] = session[t]
  BY <1>1
<1>3. NoBypass'
  BY <1>2 DEF SignInInv, NoBypass
<1>4. ASSUME NEW t \in Sessions
      PROVE  /\ session'[t].kind = session[t].kind
             /\ session'[t].state \in {session[t].state, "gone"}
             /\ crossed' \/ /\ session'[t].user = "user" <=> session'[t].by = "nobody"
                            /\ session'[t].by \in {"nobody", "user"}
  BY <1>2 DEF SignInInv, SelfKnown
<1> QED
  BY <1>2, <1>3, <1>4 DEF SessionsGoOn

\* A request that is not there to begin or end leaves the requests alone.
LEMMA CallsStay ==
    ASSUME SignInInv, call' = call, mfa' = mfa
    PROVE  CallsGoOn /\ AnswersGoOn /\ Checked' \subseteq Checked
<1>1. CallsGoOn
  BY SignInTypes DEF CallsGoOn, SignInInv, SelfKnown, OffKnown
<1>2. AnswersGoOn
  BY DEF AnswersGoOn, SignInInv, RowsKnown
<1> QED
  BY <1>1, <1>2 DEF Checked

\* The step-up of a session, and its age.
LEMMA StepUpKeeps ==
    ASSUME SignInInv, NEW s \in Sessions, completeStaffSSO(s) \/ StepUpAges(s)
    PROVE  SignInInv'
<1> USE DEF credentials
<1>1. UNCHANGED <<clock, credentials, fails, link, verified, call, ended, crossed, blind, calls>>
  BY DEF completeStaffSSO, StepUpAges
<1> DEFINE B == BOOLEAN
           R == [state : {"none", "pending", "full", "gone"}, kind : Kinds, user : Persons,
                 by : Persons \cup {"nobody"}, factor : B, off : B, stepped : B]
<1>2. PICK b \in B : session' = [session EXCEPT ![s].stepped = b]
  BY DEF completeStaffSSO, StepUpAges
<1>3. session \in [Sessions -> R] /\ R = SessionRecords
  BY SignInTypes DEF SessionRecords
<1> DEFINE row == [session[s] EXCEPT !.stepped = b]
<1> HIDE DEF B
<1>4. /\ row \in R /\ row.state = session[s].state /\ row.kind = session[s].kind
      /\ row.factor = session[s].factor /\ row.off = session[s].off
      /\ row.user = session[s].user /\ row.by = session[s].by
      /\ session' = [session EXCEPT ![s] = row]
  BY <1>2, <1>3
<1> HIDE DEF row, R
<1>5. SessionsGoOn
  BY <1>1, <1>3, <1>4, RowRewritten DEF SignInInv, SelfKnown
<1>6. calls' \in Nat /\ crossed' \in BOOLEAN
  BY <1>1 DEF SignInInv, SignInTypeOK
<1> QED
  BY <1>1, <1>5, <1>6, CallsStay, CredentialsStay

\* impersonateStop hands the session back to who started.
LEMMA StopKeeps ==
    ASSUME SignInInv, NEW s \in Sessions, impersonateStop(s)
    PROVE  SignInInv'
<1> USE DEF credentials
<1>1. /\ UNCHANGED <<clock, credentials, fails, link, verified, call, ended, crossed, blind, calls>>
      /\ session[s].by # "nobody"
  BY DEF impersonateStop, Impersonated
<1> DEFINE row == [session[s] EXCEPT !.user = session[s].by, !.by = "nobody"]
<1>2. session' = [session EXCEPT ![s] = row]
  BY DEF impersonateStop, StopImpersonation
<1>3. session[s] \in SessionRecords
  BY SignInTypes
<1>4. /\ row \in SessionRecords /\ row.state = session[s].state /\ row.kind = session[s].kind
      /\ row.factor = session[s].factor /\ row.off = session[s].off
      /\ row.user = session[s].by /\ row.by = "nobody"
  BY <1>1, <1>3 DEF SessionRecords
<1> HIDE DEF row
<1>5. ~crossed' => row.user = "user"
  BY <1>1, <1>4 DEF SignInInv, SelfKnown
<1>6. SessionsGoOn
  BY <1>1, <1>2, <1>4, <1>5, RowRewritten
<1>7. calls' \in Nat /\ crossed' \in BOOLEAN
  BY <1>1 DEF SignInInv, SignInTypeOK
<1> QED
  BY <1>1, <1>6, <1>7, CallsStay, CredentialsStay

\* adminImpersonate begins, for somebody else than the session's user.
LEMMA StartBegins ==
    ASSUME SignInInv, NEW p \in Calls, NEW s \in Sessions, NEW t \in Persons, t # session[s].user,
           Begin(p, [Resting EXCEPT !.at = "starting", !.row = s, !.as = session[s].user, !.to = t]),
           UNCHANGED <<clock, credentials, fails, link, verified, session, ended, crossed, blind>>
    PROVE  SignInInv'
<1> USE DEF credentials
<1> DEFINE c == [Resting EXCEPT !.at = "starting", !.row = s, !.as = session[s].user, !.to = t]
<1>1. session[s].user \in Persons
  BY SignInTypes DEF SessionRecords
<1>2. c \in CallRecords /\ c.at = "starting" /\ c.to # c.as /\ Begin(p, c)
  BY <1>1, SignInTypes DEF Resting, CallRecords
<1> HIDE DEF c
<1>3. CallsGoOn /\ AnswersGoOn /\ Checked' \subseteq Checked
  BY <1>2, CallBegins DEF Answering
<1>4. SessionsGoOn
  BY RowsStay
<1>5. calls' \in Nat /\ crossed' \in BOOLEAN
  BY DEF Begin, SignInInv, SignInTypeOK
<1> QED
  BY <1>3, <1>4, <1>5, CredentialsStay

\* StartImpersonation, as the staff user the request was loaded with.
LEMMA StartKeeps ==
    ASSUME SignInInv, NEW p \in Calls, NEW s \in Sessions, call[p].at = "starting",
           StartImpersonation(s, call[p].as, call[p].to), End(p),
           crossed' = (crossed \/ call[p].as # "user"),
           UNCHANGED <<clock, credentials, fails, link, verified, ended, blind, calls>>
    PROVE  SignInInv'
<1> USE DEF credentials
<1>1. CallsGoOn /\ AnswersGoOn /\ Checked' \subseteq Checked
  BY CallEnds
<1> DEFINE row == [session[s] EXCEPT !.user = call[p].to, !.by = call[p].as]
<1>2. session[s] \in SessionRecords /\ call[p].to \in Persons /\ call[p].as \in Persons
  BY SignInTypes DEF CallRecords
<1>3. session' = [session EXCEPT ![s] = row]
  BY SignInTypes DEF StartImpersonation
<1>4. /\ row \in SessionRecords /\ row.state = session[s].state /\ row.kind = session[s].kind
      /\ row.factor = session[s].factor /\ row.off = session[s].off
      /\ row.user = call[p].to /\ row.by = call[p].as
  BY <1>2 DEF SessionRecords
<1> HIDE DEF row
<1>5. (crossed => crossed') /\ (~crossed' => call[p].as = "user")
  OBVIOUS
<1>6. ~crossed' => row.by = "user" /\ row.user # "user"
  BY <1>4, <1>5 DEF SignInInv, SelfKnown
<1>7. SessionsGoOn
  BY <1>3, <1>4, <1>5, <1>6, RowRewritten
<1>8. calls' \in Nat /\ crossed' \in BOOLEAN
  BY DEF SignInInv, SignInTypeOK
<1> QED
  BY <1>1, <1>7, <1>8, CredentialsStay

\* The clock, the failures and the links.
LEMMA QuietKeeps ==
    ASSUME SignInInv, UNCHANGED <<credentials, session, call, ended, crossed, blind, calls>>,
           clock' \in 1 .. MaxStep, fails' \in Nat, fails' <= fails, verified' \in BOOLEAN,
           link' \in [Links -> {"none", "magic", "verify", "gone"}]
    PROVE  SignInInv'
<1>1. CallsGoOn /\ AnswersGoOn /\ Checked' \subseteq Checked
  BY CallsStay DEF credentials
<1>2. SessionsGoOn /\ CodesSpent'
  BY RowsStay, CodesStay
<1>3. SignInTypeOK'
  BY DEF SignInInv, SignInTypeOK, credentials
<1>4. ThrottleOvershoot'
  BY <1>1, ThrottleKept
<1> QED
  BY <1>1, <1>2, <1>3, <1>4, GoesOn

\* Every step keeps the invariant.
LEMMA SignInStep ==
    ASSUME SignInInv, [SignInNext]_signVars
    PROVE  SignInInv'
<1>1. ASSUME NEW p \in Calls, loginSubmit(p) \/ mobileLogin(p) PROVE SignInInv'
  <2>1. CASE Credentials(p, "web") \/ Credentials(p, "mobile")
    BY <2>1, CredentialsKeeps DEF Kinds
  <2>2. CASE /\ WrongPassword(p) \/ RightPassword(p)
             /\ UNCHANGED <<clock, credentials, link, verified, session, ended, crossed, blind,
                            calls>>
    BY <2>2, WrongPasswordKeeps, RightPasswordKeeps
  <2> QED
    BY <1>1, <2>1, <2>2 DEF loginSubmit, mobileLogin
<1>2. ASSUME NEW p \in Calls, NEW s \in Sessions, mfaChallengeSubmit(p, s) PROVE SignInInv'
  <2>1. CASE /\ PendingMFAUser(s) /\ Begin(p, [Resting EXCEPT !.at = "challenged", !.row = s])
             /\ UNCHANGED <<clock, credentials, fails, link, verified, session, ended, crossed,
                            blind>>
    BY <2>1, ChallengeBegins
  <2>2. CASE /\ call[p].kind = "web" /\ call[p].row = s /\ CompleteMFA(p)
             /\ UNCHANGED <<clock, credentials, fails, link, verified, crossed, blind, calls>>
    <3>1. CASE call[p].at = "completing"
      BY <2>2, <3>1, CompleteKeeps
    <3>2. CASE call[p].at # "completing"
      <4>1. /\ call[p].at = "factored" /\ PendingMFAUser(call[p].row) /\ To(p, "completing")
            /\ UNCHANGED <<session, ended>>
        BY <2>2, <3>2 DEF CompleteMFA
      <4> QED
        BY <2>2, <4>1, CompletingKeeps
    <3> QED
      BY <3>1, <3>2
  <2> QED
    BY <1>2, <2>1, <2>2 DEF mfaChallengeSubmit
<1>3. ASSUME NEW p \in Calls, NEW s \in Sessions, mobileMFAVerify(p, s) PROVE SignInInv'
  <2>1. CASE /\ session[s].state = "pending" /\ session[s].kind = "mobile"
             /\ session' = ConsumeChallenge(s)
             /\ Begin(p, [Resting EXCEPT !.at = "challenged", !.row = s, !.kind = "mobile"])
             /\ UNCHANGED <<clock, credentials, fails, link, verified, ended, crossed, blind>>
    BY <2>1, MobileChallengeBegins
  <2>2. CASE /\ call[p].kind = "mobile" /\ call[p].row = s /\ issueMobileToken(p)
             /\ UNCHANGED <<clock, credentials, fails, link, verified, crossed, blind, calls>>
    BY <2>2, MobileTokenKeeps
  <2> QED
    BY <1>3, <2>1, <2>2 DEF mobileMFAVerify
<1>4. ASSUME NEW p \in Calls, NEW s \in Sessions, mfaEnable(p, s) PROVE SignInInv'
  <2>1. ASSUME NEW c \in Steps,
               Begin(p, [Resting EXCEPT !.at = "enrolling", !.step = c, !.row = s]),
               UNCHANGED <<clock, credentials, fails, link, verified, session, ended, crossed,
                           blind>>
        PROVE  SignInInv'
    BY <2>1, EnrolBegins
  <2>2. CASE /\ \/ call[p].at = "enrolling" /\ ReplaceRecoveryCodes /\ To(p, "coded")
                \/ call[p].at = "coded" /\ EnableMFA(call[p].step) /\ End(p)
             /\ UNCHANGED <<clock, fails, link, verified, session, ended, crossed, blind, calls>>
    BY <2>2, EnrolKeeps
  <2> QED
    BY <1>4, <2>1, <2>2 DEF mfaEnable
<1>5. ASSUME NEW p \in Calls, NEW s \in Sessions, adminImpersonate(p, s) PROVE SignInInv'
  <2>1. ASSUME NEW t \in Persons, t # session[s].user,
               Begin(p, [Resting EXCEPT !.at = "starting", !.row = s,
                                        !.as = session[s].user, !.to = t]),
               UNCHANGED <<clock, credentials, fails, link, verified, session, ended, crossed,
                           blind>>
        PROVE  SignInInv'
    BY <2>1, StartBegins
  <2>2. CASE /\ call[p].at = "starting" /\ call[p].row = s
             /\ StartImpersonation(s, call[p].as, call[p].to) /\ End(p)
             /\ crossed' = (crossed \/ call[p].as # "user")
             /\ UNCHANGED <<clock, credentials, fails, link, verified, ended, blind, calls>>
    BY <2>2, StartKeeps
  <2> QED
    BY <1>5, <2>1, <2>2 DEF adminImpersonate
<1>6. ASSUME NEW s \in Sessions, logout(s) \/ mobileLogout(s) \/ Expire(s) PROVE SignInInv'
  BY <1>6, RowEndsKeeps DEF logout, mobileLogout, Expire, Destroy, Revoke
<1>7. ASSUME NEW k \in Links,
             \/ \E s \in Sessions : verifyEmailResend(s, k)
             \/ magicLinkRequest(k) \/ verifyEmail(k) \/ ExpireLink(k)
      PROVE  SignInInv'
  <2> USE DEF verifyEmailResend, magicLinkRequest, verifyEmail, VerifyEmail, ExpireLink,
          CreateMagicLinkToken, CreateVerificationToken
  <2>1. UNCHANGED <<clock, credentials, fails, session, call, ended, crossed, blind, calls>>
    BY <1>7
  <2>2. \E to \in {"magic", "verify", "gone"} : link' = [link EXCEPT ![k] = to]
    BY <1>7
  <2>3. link' \in [Links -> {"none", "magic", "verify", "gone"}]
    BY <2>2 DEF SignInInv, SignInTypeOK
  <2>4. verified' \in BOOLEAN
    BY <1>7 DEF SignInInv, SignInTypeOK
  <2>5. clock' \in 1 .. MaxStep /\ fails' \in Nat /\ fails' <= fails
    BY <2>1 DEF SignInInv, SignInTypeOK
  <2> QED
    BY <2>1, <2>3, <2>4, <2>5, QuietKeeps
<1>8. ASSUME AgeOut \/ NextStep \/ UNCHANGED signVars PROVE SignInInv'
  <2>1. /\ UNCHANGED <<credentials, session, call, ended, crossed, blind, calls>>
        /\ clock' \in 1 .. MaxStep /\ fails' \in Nat /\ fails' <= fails /\ verified' \in BOOLEAN
        /\ link' \in [Links -> {"none", "magic", "verify", "gone"}]
    BY <1>8, SignInAssumption DEF AgeOut, NextStep, signVars, SignInInv, SignInTypeOK, credentials
  <2> QED
    BY <2>1, QuietKeeps
<1>9. ASSUME NEW p \in Calls, NEW k \in Links, magicLinkConsume(p, k) PROVE SignInInv'
  BY <1>9, MagicLinkKeeps
<1>10. ASSUME NEW p \in Calls,
              \/ Abandon(p) \/ oauthCallback(p) \/ SecondFactor(p) \/ Create(p) \/ ClearPending(p)
              \/ CreatePending(p) \/ CreateChallenge(p)
       PROVE  SignInInv'
  BY <1>10, AbandonKeeps, OauthKeeps, SecondFactorKeeps, SessionMadeKeeps, ClearPendingKeeps
<1>11. ASSUME NEW s \in Sessions,
              mfaDisable(s) \/ completeStaffSSO(s) \/ StepUpAges(s) \/ impersonateStop(s)
       PROVE  SignInInv'
  BY <1>11, DisableKeeps, StepUpKeeps, StopKeeps
<1> QED
  BY <1>1, <1>2, <1>3, <1>4, <1>5, <1>6, <1>7, <1>8, <1>9, <1>10, <1>11 DEF SignInNext

\* Nobody is signed in, nothing is running and nothing is spent.
LEMMA SignInStarts ==
    ASSUME SignInInit
    PROVE  SignInInv
<1>1. SignInTypeOK
  <2>1. Resting \in CallRecords /\ 0 \in Steps /\ NoSession \in SessionRecords
    <3>1. 0 \in Steps
      BY SignInAssumption DEF Steps
    <3>2. Resting \in CallRecords
      BY <3>1 DEF Resting, CallRecords, Kinds, Persons
    <3>3. NoSession \in SessionRecords
      BY DEF NoSession, SessionRecords, Kinds, Persons
    <3> QED
      BY <3>1, <3>2, <3>3
  <2>2. session \in [Sessions -> SessionRecords] /\ call \in [Calls -> CallRecords]
    BY <2>1 DEF SignInInit
  <2>3. uses \in [Steps -> Nat] /\ ended \in [Sessions -> Nat] /\ clock \in 1 .. MaxStep
    BY SignInAssumption DEF SignInInit
  <2> QED
    BY <2>1, <2>2, <2>3 DEF SignInInit, SignInTypeOK, SessionRecords, CallRecords
<1>2. /\ \A p \in Calls : call[p].at = "idle"
      /\ \A s \in Sessions : /\ session[s].state = "none" /\ session[s].kind = "web"
                             /\ session[s].user = "user" /\ session[s].by = "nobody"
                             /\ ended[s] = 0
  BY DEF SignInInit, Resting, NoSession
<1>3. OffKnown /\ NoBypass /\ RowsKnown /\ SelfKnown
  BY <1>2 DEF OffKnown, NoBypass, RowsKnown, SelfKnown, Answering, AnswersMobile
<1>4. CodesSpent
  BY SignInAssumption DEF SignInInit, CodesSpent, Steps
<1>5. ThrottleOvershoot
  <2>1. {p \in Calls : call[p].at = "checked"} = {}
    BY <1>2
  <2>2. Cardinality(Calls) \in Nat /\ Cardinality({}) = 0 /\ MaxFails \in Nat \ {0}
    BY CallsAreFinite, FS_EmptySet, SignInAssumption
  <2>3. fails = 0
    BY DEF SignInInit
  <2> QED
    BY SMTT(20), <2>1, <2>2, <2>3 DEF ThrottleOvershoot
<1>6. WebEnded
  <2>1. \A s \in Sessions : Completing(s) = {}
    BY <1>2 DEF Completing
  <2>2. Cardinality(Calls) \in Nat /\ Cardinality({}) = 0
    BY CallsAreFinite, FS_EmptySet
  <2> QED
    BY <1>2, <2>1, <2>2 DEF WebEnded
<1> QED
  BY <1>1, <1>3, <1>4, <1>5, <1>6 DEF SignInInv

\* However many requests sign in at once, and for any number of rows, links and steps: a full
\* session was paid for with the second factor or MFA was off while it was made, a code and a
\* mobile challenge are good once, a pending session yields no more than the requests that ran
\* at once, failures overshoot the limit by no more than those, and an impersonation ends where it
\* began (loginSubmit, magicLinkConsume, oauthCallback, CompleteMFA, mobileMFAVerify,
\* LoginThrottle, StartImpersonation).
THEOREM SignInIsSafe == SignInSpec => []SignInSafe
<1>1. SignInInv /\ [SignInNext]_signVars => SignInInv'
  BY SignInStep
<1>2. SignInInv => SignInSafe
  <2> SUFFICES ASSUME SignInInv PROVE SignInSafe
    OBVIOUS
  <2>1. CodeOnce
    BY DEF SignInInv, CodesSpent, CodeOnce
  <2>2. ChallengeOnce
    <3> SUFFICES ASSUME NEW s \in Sessions
                 PROVE  ended[s] <= IF session[s].kind = "mobile" THEN 1 ELSE Cardinality(Calls)
      BY DEF ChallengeOnce
    <3>1. session[s].kind \in {"web", "mobile"} /\ ended[s] \in Nat
      BY SignInTypes DEF SessionRecords, Kinds, SignInInv, SignInTypeOK
    <3>2. CASE session[s].kind = "mobile"
      BY <3>2 DEF SignInInv, RowsKnown
    <3>3. CASE session[s].kind = "web"
      <4>1. Completing(s) \in SUBSET Calls
        BY DEF Completing
      <4>2. Cardinality(Completing(s)) \in Nat /\ Cardinality(Calls) \in Nat
        BY <4>1, CallsAreFinite
      <4>3. ended[s] + Cardinality(Completing(s)) <= Cardinality(Calls)
        BY <3>3 DEF SignInInv, WebEnded
      <4> QED
        BY <3>1, <3>3, <4>2, <4>3
    <3> QED
      BY <3>1, <3>2, <3>3
  <2>3. ReturnsToSelf
    BY DEF SignInInv, SelfKnown, ReturnsToSelf
  <2> QED
    BY <2>1, <2>2, <2>3 DEF SignInInv, SignInSafe
<1> QED
  BY <1>1, <1>2, SignInStarts, PTL DEF SignInSpec

-----------------------------------------------------------------------------
(* The middleware.  A right that is withdrawn does not come back while a      *)
(* request is on its way, so one that lacked a right when it arrived lacks it *)
(* still; the invariant says which middleware is yet to find out (Barred), and *)
(* that the context it will look at was filled after the loss.  What is still  *)
(* there was seen by whoever looked (Ready), so a refusal misses something.    *)

Loaders == {"LoadUser", "LoadAccount", "LoadMembership", "csrf"}

\* A way of n middlewares; the first four are the same everywhere.
Begins(c, n) ==
    /\ Len(c) = n
    /\ c[1] = "LoadUser" /\ c[2] = "LoadAccount" /\ c[3] = "LoadMembership" /\ c[4] = "csrf"

\* What the proofs need of a way through the middleware.
WayKnown(d, r) ==
    LET c == Chain(d, r)
        needs == Doors[d][r].needs
    IN  /\ Len(c) \in 4 .. 8
        /\ c[1] = "LoadUser" /\ c[2] = "LoadAccount" /\ c[3] = "LoadMembership" /\ c[4] = "csrf"
        /\ \A i \in 5 .. Len(c) : c[i] \notin Loaders
        /\ d = "web" => \A i \in 5 .. Len(c) : c[i] \notin Loading
        /\ d = "web" /\ r \notin PublicRoutes => Len(c) >= 5 /\ c[5] = "user"
        /\ r \in {"sso", "admin"} => d = "web" /\ Len(c) >= 6 /\ c[6] \in {"staff", "staffSSO"}
        /\ r = "admin" => c[6] = "staffSSO"
        /\ d = "web" /\ r \notin PublicRoutes \cup OwnLogin => Len(c) >= 6 /\ c[6] = "account"
        /\ d = "web" /\ needs # "none" => Len(c) >= 7 /\ c[7] = "action"
        /\ d = "v1" => Len(c) >= 7 /\ c[5] = "key" /\ c[6] = "keyAccount" /\ c[7] = "scope"
        /\ r \in Creates => d \in {"web", "v1"} /\ Len(c) = 8
        /\ r \in Creates /\ d = "web" => c[8] = "trial"
        /\ r \in Creates /\ d = "v1" => c[8] = "v1trial"
        /\ d = "v1" => needs \in Scopes
        /\ d = "hook" => r \in PublicRoutes
        /\ d = "mobile" /\ r \notin PublicRoutes =>
              Len(c) = 7 /\ c[5] = "token" /\ c[6] = "member" /\ c[7] = "keyAccount"
        /\ d = "share" => Len(c) = 6 /\ c[5] = "link" /\ c[6] = "view"
        /\ d = "share" <=> r = "share"
        /\ \A i \in 5 .. Len(c) : c[i] \in {"link", "view"} => d = "share"

\* A gate stands only before the routes that need what it asks for.
GatesFit(d, r) ==
    LET c == Chain(d, r)
        needs == Doors[d][r].needs
    IN  \A i \in 5 .. Len(c) :
          /\ c[i] \in {"user", "account", "action", "trial", "staff", "staffSSO"} =>
                d = "web" /\ r \notin PublicRoutes
          /\ c[i] = "staff" => r \in {"sso", "admin"}
          /\ c[i] = "staffSSO" => r = "admin"
          /\ c[i] \in {"account", "action"} => r \notin OwnLogin \cup {"share"}
          /\ c[i] = "action" => needs # "none"
          /\ c[i] = "trial" => r \in Creates \cup Tidies
          /\ c[i] \in {"key", "scope", "v1trial"} => d = "v1"
          /\ c[i] \in {"key", "keyAccount", "token", "member", "scope", "v1trial"} =>
                d \in {"v1", "mobile"} /\ r \notin PublicRoutes \cup OwnLogin \cup {"share"}
          /\ c[i] = "v1trial" => r \in Creates
          /\ c[i] \in {"token", "member"} => d = "mobile"
          /\ c[i] = "link" => d = "share" /\ r = "share"
          /\ c[i] \in {"user", "staff", "staffSSO", "account", "action", "trial", "key", "keyAccount",
                       "scope", "v1trial", "token", "member", "link", "view"}

WebShape(r) ==
    LET gates == Doors["web"][r].gates
        needs == Doors["web"][r].needs
    IN  \/ r \in {"site", "signin"} /\ gates = <<>> /\ needs = "none"
        \/ r = "stop" /\ gates = <<"user">> /\ needs = "none"
        \/ r = "sso" /\ gates = <<"user", "staff">> /\ needs = "none"
        \/ r = "admin" /\ gates = <<"user", "staffSSO">> /\ needs = "none"
        \/ r = "own" /\ gates = <<"user", "account">> /\ needs = "none"
        \/ /\ r \in {"targetRead", "drillRead", "heartbeatRead", "evidenceRead", "accountRead",
                     "teamRead", "memberWrite", "accountWrite", "billingWrite", "teamWrite"}
           /\ gates = <<"user", "account", "action">> /\ needs # "none"
        \/ /\ r \in {"targetWrite", "drillWrite", "heartbeatWrite", "targetTidy", "drillTidy",
                     "heartbeatTidy"}
           /\ gates = <<"user", "account", "action", "trial">> /\ needs # "none"

LEMMA DoorsAre ==
  /\ DOMAIN Doors = {"web", "hook", "v1", "mobile", "share"}
  /\ Doors["web"] = pageRoutes
  /\ Doors["hook"] = hookRoutes
  /\ Doors["v1"] = v1Routes
  /\ Doors["mobile"] = mobileRoutes
  /\ Doors["share"] = shareRoutes
  BY DEF Doors

LEMMA WebNames ==
  DOMAIN webRoutes = {"stop", "sso", "admin", "own", "targetRead", "drillRead", "heartbeatRead",
                 "evidenceRead", "accountRead", "teamRead", "targetWrite", "drillWrite",
                 "heartbeatWrite", "targetTidy", "drillTidy", "heartbeatTidy", "memberWrite",
                 "accountWrite", "billingWrite", "teamWrite"}
  BY DEF webRoutes

LEMMA SiteNames ==
  DOMAIN siteRoutes = {"site", "signin"}
  BY DEF siteRoutes

LEMMA PageNames ==
  /\ DOMAIN pageRoutes = DOMAIN webRoutes \cup DOMAIN siteRoutes
  /\ \A r \in DOMAIN siteRoutes : pageRoutes[r] = siteRoutes[r]
  /\ \A r \in DOMAIN webRoutes : pageRoutes[r] = webRoutes[r]
  BY WebNames, SiteNames DEF pageRoutes

LEMMA SiteGroups ==
  /\ siteRoutes["site"].gates = <<>> /\ siteRoutes["site"].needs = "none"
  /\ siteRoutes["signin"].gates = <<>> /\ siteRoutes["signin"].needs = "none"
  BY DEF siteRoutes, Group

LEMMA WebGroups ==
  /\ webRoutes["stop"].gates = <<"user">>
  /\ webRoutes["sso"].gates = <<"user", "staff">>
  /\ webRoutes["admin"].gates = <<"user", "staffSSO">>
  /\ webRoutes["own"].gates = <<"user", "account">>
  /\ webRoutes["targetRead"].gates = <<"user", "account", "action">>
  /\ webRoutes["drillRead"].gates = <<"user", "account", "action">>
  /\ webRoutes["heartbeatRead"].gates = <<"user", "account", "action">>
  /\ webRoutes["evidenceRead"].gates = <<"user", "account", "action">>
  /\ webRoutes["accountRead"].gates = <<"user", "account", "action">>
  /\ webRoutes["teamRead"].gates = <<"user", "account", "action">>
  /\ webRoutes["memberWrite"].gates = <<"user", "account", "action">>
  /\ webRoutes["accountWrite"].gates = <<"user", "account", "action">>
  /\ webRoutes["billingWrite"].gates = <<"user", "account", "action">>
  /\ webRoutes["teamWrite"].gates = <<"user", "account", "action">>
  /\ webRoutes["targetWrite"].gates = <<"user", "account", "action", "trial">>
  /\ webRoutes["drillWrite"].gates = <<"user", "account", "action", "trial">>
  /\ webRoutes["heartbeatWrite"].gates = <<"user", "account", "action", "trial">>
  /\ webRoutes["targetTidy"].gates = <<"user", "account", "action", "trial">>
  /\ webRoutes["drillTidy"].gates = <<"user", "account", "action", "trial">>
  /\ webRoutes["heartbeatTidy"].gates = <<"user", "account", "action", "trial">>
  /\ webRoutes["stop"].needs = "none"
  /\ webRoutes["sso"].needs = "none"
  /\ webRoutes["admin"].needs = "none"
  /\ webRoutes["own"].needs = "none"
  BY DEF webRoutes, Group

LEMMA WebNeeds ==
  /\ webRoutes["targetRead"].needs # "none"
  /\ webRoutes["drillRead"].needs # "none"
  /\ webRoutes["heartbeatRead"].needs # "none"
  /\ webRoutes["evidenceRead"].needs # "none"
  /\ webRoutes["accountRead"].needs # "none"
  /\ webRoutes["teamRead"].needs # "none"
  /\ webRoutes["memberWrite"].needs # "none"
  /\ webRoutes["accountWrite"].needs # "none"
  /\ webRoutes["billingWrite"].needs # "none"
  /\ webRoutes["teamWrite"].needs # "none"
  /\ webRoutes["targetWrite"].needs # "none"
  /\ webRoutes["drillWrite"].needs # "none"
  /\ webRoutes["heartbeatWrite"].needs # "none"
  /\ webRoutes["targetTidy"].needs # "none"
  /\ webRoutes["drillTidy"].needs # "none"
  /\ webRoutes["heartbeatTidy"].needs # "none"
  BY DEF webRoutes, Group

LEMMA WebShapes ==
  ASSUME NEW r \in DOMAIN Doors["web"]
  PROVE  WebShape(r)
<1>1. r \in DOMAIN webRoutes \/ r \in DOMAIN siteRoutes
  BY PageNames, DoorsAre
<1>2. CASE r \in DOMAIN siteRoutes
  <2>1. Doors["web"][r] = siteRoutes[r]
    BY <1>2, PageNames, DoorsAre
  <2>2. siteRoutes[r].gates = <<>> /\ siteRoutes[r].needs = "none"
    BY <1>2, SiteNames, SiteGroups
  <2> QED BY <1>2, <2>1, <2>2, SiteNames DEF WebShape
<1>3. CASE r \in DOMAIN webRoutes
  <2>1. Doors["web"][r] = webRoutes[r]
    BY <1>3, PageNames, DoorsAre
  <2> QED BY <1>3, <2>1, WebNames, WebGroups, WebNeeds DEF WebShape
<1> QED BY <1>1, <1>2, <1>3

LEMMA ChainOfNone ==
  ASSUME NEW d, NEW r, Doors[d][r].gates = <<>>
  PROVE  Begins(Chain(d, r), 4)
  BY DEF Chain, Global, Begins

LEMMA ChainOfOne ==
  ASSUME NEW d, NEW r, NEW e, Doors[d][r].gates = <<e>>
  PROVE  Begins(Chain(d, r), 5) /\ Chain(d, r)[5] = e
  BY DEF Chain, Global, Begins

LEMMA ChainOfTwo ==
  ASSUME NEW d, NEW r, NEW e, NEW f, Doors[d][r].gates = <<e, f>>
  PROVE  Begins(Chain(d, r), 6) /\ Chain(d, r)[5] = e /\ Chain(d, r)[6] = f
  BY DEF Chain, Global, Begins

LEMMA ChainOfThree ==
  ASSUME NEW d, NEW r, NEW e, NEW f, NEW h, Doors[d][r].gates = <<e, f, h>>
  PROVE  Begins(Chain(d, r), 7) /\ Chain(d, r)[5] = e /\ Chain(d, r)[6] = f /\ Chain(d, r)[7] = h
  BY DEF Chain, Global, Begins

LEMMA ChainOfFour ==
  ASSUME NEW d, NEW r, NEW e, NEW f, NEW h, NEW k, Doors[d][r].gates = <<e, f, h, k>>
  PROVE  /\ Begins(Chain(d, r), 8) /\ Chain(d, r)[5] = e /\ Chain(d, r)[6] = f
         /\ Chain(d, r)[7] = h /\ Chain(d, r)[8] = k
  BY DEF Chain, Global, Begins

LEMMA WebWay ==
  ASSUME NEW r \in DOMAIN Doors["web"]
  PROVE  WayKnown("web", r) /\ GatesFit("web", r)
<1> DEFINE c == Chain("web", r)
<1>1. WebShape(r)
  BY WebShapes
<1> USE DEF WayKnown, GatesFit, PublicRoutes, OwnLogin, Creates, Tidies, Loaders, Loading, Begins
<1>5. CASE r \in {"site", "signin"}
  <2>1. Begins(c, 4) /\ Doors["web"][r].needs = "none"
    BY <1>1, <1>5, ChainOfNone DEF WebShape
  <2>5. Len(c) = 4
    BY <2>1
  <2>2. 5 .. Len(c) = {}
    <3> HIDE DEF c
    <3> QED BY <2>5
  <2>3. GatesFit("web", r)
    BY <2>2
  <2>4. WayKnown("web", r)
    BY <1>5, <2>1
  <2> QED BY <2>3, <2>4
<1>6. CASE r = "stop"
  <2>1. Begins(c, 5) /\ c[5] = "user" /\ Doors["web"][r].needs = "none"
    BY <1>1, <1>6, ChainOfOne DEF WebShape
  <2>2. \A i \in 5 .. Len(c) : c[i] = "user"
    BY <2>1
  <2>3. GatesFit("web", r)
    BY <1>6, <2>2
  <2>4. WayKnown("web", r)
    BY SMTT(20), <1>6, <2>1, <2>2
  <2> QED BY <2>3, <2>4
<1>7. CASE r = "sso"
  <2>1. Begins(c, 6) /\ c[5] = "user" /\ Doors["web"][r].needs = "none" /\ c[6] = "staff"
    BY <1>1, <1>7, ChainOfTwo DEF WebShape
  <2>2. \A i \in 5 .. Len(c) : c[i] \in {"user", "staff"}
    BY <2>1
  <2> HIDE DEF c
  <2> QED BY <1>7, <2>1, <2>2 DEF c
<1>11. CASE r = "admin"
  <2>1. Begins(c, 6) /\ c[5] = "user" /\ Doors["web"][r].needs = "none" /\ c[6] = "staffSSO"
    BY <1>1, <1>11, ChainOfTwo DEF WebShape
  <2> QED BY SMTT(20), <1>11, <2>1
<1>8. CASE r = "own"
  <2>1. /\ Begins(c, 6) /\ c[5] = "user" /\ Doors["web"][r].needs = "none" /\ c[6] = "account"
    BY <1>1, <1>8, ChainOfTwo DEF WebShape
  <2> QED BY SMTT(20), <1>8, <2>1
<1>9. CASE r \in {"targetRead", "drillRead", "heartbeatRead", "evidenceRead", "accountRead",
                     "teamRead", "memberWrite", "accountWrite", "billingWrite", "teamWrite"}
  <2>1. /\ Begins(c, 7) /\ c[5] = "user" /\ c[6] = "account" /\ c[7] = "action"
        /\ Doors["web"][r].needs # "none"
    BY <1>1, <1>9, ChainOfThree DEF WebShape
  <2> QED BY SMTT(20), <1>9, <2>1
<1>10. CASE r \in {"targetWrite", "drillWrite", "heartbeatWrite", "targetTidy", "drillTidy",
                     "heartbeatTidy"}
  <2>1. /\ Begins(c, 8) /\ c[5] = "user" /\ c[6] = "account" /\ c[7] = "action" /\ c[8] = "trial"
        /\ Doors["web"][r].needs # "none"
    BY <1>1, <1>10, ChainOfFour DEF WebShape
  <2>2. \A i \in 5 .. Len(c) : c[i] \in {"user", "account", "action", "trial"}
    BY <2>1
  <2>3. \A i \in 5 .. Len(c) : c[i] \notin Loading \cup Loaders \cup {"link", "view"}
    BY <2>2
  <2>4. /\ r \in Creates \cup Tidies /\ r \notin {"sso", "admin", "share"}
        /\ r \notin PublicRoutes \cup OwnLogin
    BY <1>10
  <2>5. WayKnown("web", r)
    BY <2>1, <2>3, <2>4
  <2>6. GatesFit("web", r)
    BY <2>1, <2>2, <2>4
  <2> QED BY <2>5, <2>6
<1> QED BY <1>1, <1>5, <1>6, <1>7, <1>8, <1>9, <1>10, <1>11 DEF WebShape

LEMMA HookWay ==
  ASSUME NEW r \in DOMAIN Doors["hook"]
  PROVE  WayKnown("hook", r) /\ GatesFit("hook", r)
<1>1. r \in {"webhooks", "ping"}
  BY DoorsAre DEF hookRoutes
<1>2. hookRoutes["webhooks"].gates = <<>> /\ hookRoutes["ping"].gates = <<>>
  BY DEF hookRoutes, Group
<1>3. Begins(Chain("hook", r), 4)
  BY <1>1, <1>2, ChainOfNone, DoorsAre
<1> QED BY <1>1, <1>3 DEF WayKnown, GatesFit, PublicRoutes, OwnLogin, Creates, Tidies, Loaders,
     Loading, Begins

LEMMA ShareWay ==
  ASSUME NEW r \in DOMAIN Doors["share"]
  PROVE  WayKnown("share", r) /\ GatesFit("share", r)
<1>1. r = "share"
  BY DoorsAre DEF shareRoutes
<1>2. shareRoutes["share"].gates = <<"link", "view">>
  BY DEF shareRoutes, Group
<1> DEFINE c == Chain("share", r)
<1>3. Begins(c, 6) /\ c[5] = "link" /\ c[6] = "view"
  BY <1>1, <1>2, ChainOfTwo, DoorsAre
<1> QED BY <1>1, <1>3 DEF WayKnown, GatesFit, PublicRoutes, OwnLogin, Creates, Tidies, Loaders,
     Loading, Begins

LEMMA MobileWay ==
  ASSUME NEW r \in DOMAIN Doors["mobile"]
  PROVE  WayKnown("mobile", r) /\ GatesFit("mobile", r)
<1>1. r \in {"mobileSignin", "mobileApp"}
  BY DoorsAre DEF mobileRoutes
<1>2. /\ mobileRoutes["mobileSignin"].gates = <<>>
      /\ mobileRoutes["mobileApp"].gates = <<"token", "member", "keyAccount">>
  BY DEF mobileRoutes, Group
<1> DEFINE c == Chain("mobile", r)
<1>3. CASE r = "mobileSignin"
  <2>1. Begins(c, 4)
    BY <1>2, <1>3, ChainOfNone, DoorsAre
  <2> QED BY <1>3, <2>1 DEF WayKnown, GatesFit, PublicRoutes, OwnLogin, Creates, Tidies, Loaders,
       Loading, Begins
<1>4. CASE r = "mobileApp"
  <2>1. Begins(c, 7) /\ c[5] = "token" /\ c[6] = "member" /\ c[7] = "keyAccount"
    BY <1>2, <1>4, ChainOfThree, DoorsAre
  <2> QED BY SMTT(20), <1>4, <2>1 DEF WayKnown, GatesFit, PublicRoutes, OwnLogin, Creates, Tidies,
       Loaders, Loading, Begins
<1> QED BY <1>1, <1>3, <1>4

LEMMA V1Way ==
  ASSUME NEW r \in DOMAIN Doors["v1"]
  PROVE  WayKnown("v1", r) /\ GatesFit("v1", r)
<1>1. r \in {"v1Databases", "v1Drills", "v1Heartbeats", "v1CreateDatabases", "v1CreateDrills", "v1Erase"}
  BY DoorsAre DEF v1Routes
<1>2. /\ v1Routes["v1Databases"].gates = <<"key", "keyAccount", "scope">>
      /\ v1Routes["v1Drills"].gates = <<"key", "keyAccount", "scope">>
      /\ v1Routes["v1Heartbeats"].gates = <<"key", "keyAccount", "scope">>
      /\ v1Routes["v1Erase"].gates = <<"key", "keyAccount", "scope">>
      /\ v1Routes["v1CreateDatabases"].gates = <<"key", "keyAccount", "scope", "v1trial">>
      /\ v1Routes["v1CreateDrills"].gates = <<"key", "keyAccount", "scope", "v1trial">>
  BY DEF v1Routes, Group, Erasure
<1>5. Doors["v1"][r].needs \in Scopes
  <2>1. /\ v1Routes["v1Databases"].needs = "databases:read" /\ v1Routes["v1Drills"].needs = "drills:read"
        /\ v1Routes["v1Heartbeats"].needs = "heartbeats:read"
        /\ v1Routes["v1Erase"].needs = "account:delete"
        /\ v1Routes["v1CreateDatabases"].needs = "databases:write"
        /\ v1Routes["v1CreateDrills"].needs = "drills:write"
    BY DEF v1Routes, Group, Erasure
  <2> QED BY <1>1, <2>1, DoorsAre DEF Scopes
<1> DEFINE c == Chain("v1", r)
<1>3. CASE r \in {"v1Databases", "v1Drills", "v1Heartbeats", "v1Erase"}
  <2>1. Begins(c, 7) /\ c[5] = "key" /\ c[6] = "keyAccount" /\ c[7] = "scope"
    BY <1>2, <1>3, ChainOfThree, DoorsAre
  <2> QED BY SMTT(20), <1>3, <1>5, <2>1 DEF WayKnown, GatesFit, PublicRoutes, OwnLogin, Creates,
       Tidies, Loaders, Loading, Begins
<1>4. CASE r \in {"v1CreateDatabases", "v1CreateDrills"}
  <2>1. Begins(c, 8) /\ c[5] = "key" /\ c[6] = "keyAccount" /\ c[7] = "scope" /\ c[8] = "v1trial"
    BY <1>2, <1>4, ChainOfFour, DoorsAre
  <2> QED BY SMTT(20), <1>4, <1>5, <2>1 DEF WayKnown, GatesFit, PublicRoutes, OwnLogin, Creates,
       Tidies, Loaders, Loading, Begins
<1> QED BY <1>1, <1>3, <1>4

LEMMA V1Ends ==
  ASSUME NEW d, NEW r, d = "v1", WayKnown(d, r), GatesFit(d, r), r \in DOMAIN Doors[d],
         NEW i \in 7 .. Len(Chain(d, r))
  PROVE  Chain(d, r)[i] \in {"scope", "v1trial"}
<1>1. r \in {"v1Databases", "v1Drills", "v1Heartbeats", "v1CreateDatabases", "v1CreateDrills", "v1Erase"}
  BY DoorsAre DEF v1Routes
<1>2. /\ v1Routes["v1Databases"].gates = <<"key", "keyAccount", "scope">>
      /\ v1Routes["v1Drills"].gates = <<"key", "keyAccount", "scope">>
      /\ v1Routes["v1Heartbeats"].gates = <<"key", "keyAccount", "scope">>
      /\ v1Routes["v1Erase"].gates = <<"key", "keyAccount", "scope">>
      /\ v1Routes["v1CreateDatabases"].gates = <<"key", "keyAccount", "scope", "v1trial">>
      /\ v1Routes["v1CreateDrills"].gates = <<"key", "keyAccount", "scope", "v1trial">>
  BY DEF v1Routes, Group, Erasure
<1> DEFINE c == Chain("v1", r)
<1>3. CASE Doors["v1"][r].gates = <<"key", "keyAccount", "scope">>
  <2>1. Begins(c, 7) /\ c[7] = "scope"
    BY <1>3, ChainOfThree
  <2> QED BY <2>1 DEF Begins
<1>4. CASE Doors["v1"][r].gates = <<"key", "keyAccount", "scope", "v1trial">>
  <2>1. Begins(c, 8) /\ c[7] = "scope" /\ c[8] = "v1trial"
    BY <1>4, ChainOfFour
  <2> QED BY <2>1 DEF Begins
<1> QED BY <1>1, <1>2, <1>3, <1>4, DoorsAre

LEMMA WaysKnown ==
  ASSUME NEW d \in DOMAIN Doors, NEW r \in DOMAIN Doors[d]
  PROVE  WayKnown(d, r) /\ GatesFit(d, r)
  BY WebWay, HookWay, V1Way, MobileWay, ShareWay, DoorsAre

-----------------------------------------------------------------------------
RouteNames == UNION {DOMAIN Doors[d] : d \in DOMAIN Doors}
GuestRecords ==
    [at : 0 .. 8, route : RouteNames, verb : {"GET", "POST", "DELETE"}, token : BOOLEAN,
     entitled : SUBSET Accounts, user : BOOLEAN, fresh : BOOLEAN, in : Accounts,
     account : BOOLEAN, paid : BOOLEAN, role : GuestRoles \cup {"none"},
     scopes : SUBSET Scopes, seen : Nat, out : {"none", "served", "402", "refused"}]

GatewayTypes ==
    /\ door \in DOMAIN Doors /\ cred \in {"none", "pending", "live", "ended"}
    /\ held \in [Accounts -> GuestRoles \cup {"none"}] /\ on \in Accounts \cup {"none"}
    /\ staff \in BOOLEAN /\ fresh \in BOOLEAN /\ open \in BOOLEAN /\ paid \in BOOLEAN
    /\ guest \in [Guests -> GuestRecords]
    /\ views \in Nat /\ shown \in Nat /\ unseen \in Nat /\ knocks \in 0 .. MaxKnocks

\* A request on its way is at a middleware of its route.
OnItsWay ==
    \A g \in Guests :
       /\ guest[g].at = 0 => guest[g].out = "none"
       /\ guest[g].at > 0 => /\ guest[g].route \in DOMAIN Doors[door] /\ knocks > 0
                             /\ guest[g].verb \in Doors[door][guest[g].route].verbs
                             /\ guest[g].at <= Len(Chain(door, guest[g].route))

\* The rights a request can lack in account x, each with the last middleware that lets it on
\* without it and what the context already says of it.
NoLogin(q) ==
    /\ q.route \notin PublicRoutes /\ cred # "live"
    /\ q.at <= 5 /\ (door = "web" /\ q.at > 1 => ~q.user)
NoToken(q) == door = "web" /\ q.verb # "GET" /\ ~q.token /\ q.at <= 4
NoStaff(q) == q.route \in {"sso", "admin"} /\ ~staff /\ q.at <= 6
NoStepUp(q) == q.route = "admin" /\ ~fresh /\ q.at <= 6 /\ (q.at > 1 => ~q.fresh)
NoAccount(q, x) ==
    /\ q.route \notin PublicRoutes \cup OwnLogin \cup {"share"} /\ ~AccountOpen(x)
    /\ IF door = "web" THEN q.at <= 6 /\ (q.at > 2 => ~q.account) ELSE q.at <= 5
NoMember(q, x) ==
    /\ door \in {"web", "mobile"} /\ q.route \notin PublicRoutes \cup OwnLogin /\ held[x] = "none"
    /\ q.at <= 6 /\ (door = "web" /\ q.at > 3 => ~q.account)
NoRole(q, x) ==
    LET needs == Doors[door][q.route].needs
    IN  /\ door = "web" /\ needs # "none" /\ ~Allowed(held[x], needs)
        /\ q.at <= 7 /\ ~Allowed(q.role, needs)
NoGrant(q) ==
    LET needs == Doors[door][q.route].needs
    IN  /\ door = "v1" /\ ~Grants(needs)
        /\ q.at <= 7 /\ (q.at > 5 => needs \notin q.scopes)
NoTrial(q, x) ==
    /\ q.route \in Creates /\ ~AccountPaid(x)
    /\ (q.at > (IF door = "web" THEN 2 ELSE 6) => ~q.paid)

Barred(q, x) ==
    NoLogin(q) \/ NoToken(q) \/ NoStaff(q) \/ NoStepUp(q) \/ NoAccount(q, x) \/ NoMember(q, x)
    \/ NoRole(q, x) \/ NoGrant(q) \/ NoTrial(q, x)

\* A request that arrived without a right it needs in x, and may still be or is brought to x,
\* meets a middleware that refuses it.
Guarded(n) ==
    n.at > 0 /\ n.out \in {"none", "served"} =>
       \A x \in Accounts : x \notin n.entitled /\ (n.at > 2 => n.in = x) =>
          n.out = "none" /\ Barred(n, x)
LacksAreMet == \A g \in Guests : Guarded(guest[g])

\* Conversely, the context of a request on its way has every right that is still there.
Ready(q) ==
    /\ door # "web" => q.in = "here" /\ ~q.user
    /\ q.at > 1 /\ door = "web" /\ cred = "live" => q.user
    /\ q.at > 1 /\ fresh => q.fresh
    /\ q.at > 2 /\ door = "web" /\ q.user /\ held[q.in] # "none" /\ AccountOpen(q.in) => q.account
    /\ q.at > 2 /\ door = "web" /\ AccountPaid(q.in) => q.paid
    /\ q.at > 3 /\ door = "web" /\ q.user /\ AccountOpen(q.in) =>
          \A a : Allowed(held[q.in], a) => Allowed(q.role, a)
    /\ q.at > 5 /\ door = "v1" => q.scopes = normalizeScopes(asked)
    /\ q.at > 6 /\ door = "v1" /\ paid => q.paid
Welcome(n) == n.at > 0 /\ n.out = "none" => Ready(n)
RightsAreSeen == \A g \in Guests : Welcome(guest[g])

\* An answer of refusal is right.
Justly(n) ==
    n.out \in {"402", "refused"} =>
       \/ ~Entitled(n.in, n.route, n.verb, n.token)
       \/ n.out = "402" /\ n.route \in Tidies /\ ~AccountPaid(n.in)

GatewayInv ==
    GatewayTypes /\ OnItsWay /\ LacksAreMet /\ RightsAreSeen /\ NeverTurnedAway /\ ViewsCounted

-----------------------------------------------------------------------------
\* What middleware m makes of the context p of a request, and what it leaves alone.
Made(m, p, q) ==
    /\ q \in GuestRecords
    /\ q.at = p.at /\ q.route = p.route /\ q.verb = p.verb /\ q.token = p.token
    /\ q.entitled = p.entitled /\ q.out = p.out
    /\ m # "LoadAccount" => q.in = p.in
    /\ m = "LoadUser" => q.user = SessionHolds(door) /\ q.fresh = fresh
    /\ m # "LoadUser" => q.user = p.user /\ q.fresh = p.fresh
    /\ m = "LoadAccount" => /\ q.account = (p.user /\ held[q.in] # "none" /\ AccountOpen(q.in))
                            /\ q.paid = AccountPaid(q.in)
    /\ m = "LoadMembership" =>
          /\ q.account = (p.account /\ held[p.in] # "none") /\ q.role \in {held[p.in], p.role}
          /\ q.account => q.role = held[p.in]
    /\ m = "keyAccount" => q.account = TRUE /\ q.paid = paid
    /\ m \notin {"LoadAccount", "LoadMembership", "keyAccount"} => q.account = p.account
    /\ m \notin {"LoadAccount", "keyAccount"} => q.paid = p.paid
    /\ m \notin {"LoadMembership", "member"} => q.role = p.role
    /\ m = "key" => q.scopes = normalizeScopes(asked)
    /\ m # "key" => q.scopes = p.scopes

LEMMA ThroughMakes ==
  ASSUME NEW m, NEW p \in GuestRecords, NEW x \in Accounts, GatewayTypes
  PROVE  Made(m, p, Through(m, p, x)) /\ (m = "LoadAccount" => Through(m, p, x).in = x)
<1> USE DEF Made
<1> DEFINE q == Through(m, p, x)
<1>1. CASE m = "LoadUser"
  <2>1. Through(m, p, x) = LoadsUser(p)
    BY <1>1 DEF Through, Loading
  <2>2. LoadsUser(p) \in GuestRecords
    BY DEF LoadsUser, GuestRecords, GatewayTypes, SessionHolds
  <2>3. /\ LoadsUser(p).at = p.at
        /\ LoadsUser(p).route = p.route
        /\ LoadsUser(p).verb = p.verb
        /\ LoadsUser(p).token = p.token
        /\ LoadsUser(p).entitled = p.entitled
        /\ LoadsUser(p).out = p.out
        /\ LoadsUser(p).in = p.in
        /\ LoadsUser(p).account = p.account
        /\ LoadsUser(p).paid = p.paid
        /\ LoadsUser(p).role = p.role
        /\ LoadsUser(p).scopes = p.scopes
    BY DEF LoadsUser, GuestRecords
  <2>4. LoadsUser(p).user = SessionHolds(door)
    BY DEF LoadsUser, GuestRecords
  <2>5. LoadsUser(p).fresh = fresh
    BY DEF LoadsUser, GuestRecords
  <2> QED BY <1>1, <2>1, <2>2, <2>3, <2>4, <2>5
<1>2. CASE m = "LoadAccount"
  <2>1. Through(m, p, x) = LoadsAccount(p, x)
    BY <1>2 DEF Through, Loading
  <2>2. LoadsAccount(p, x) \in GuestRecords
    BY DEF LoadsAccount, GuestRecords, GatewayTypes, AccountOpen, AccountPaid
  <2>3. /\ LoadsAccount(p, x).at = p.at
        /\ LoadsAccount(p, x).route = p.route
        /\ LoadsAccount(p, x).verb = p.verb
        /\ LoadsAccount(p, x).token = p.token
        /\ LoadsAccount(p, x).entitled = p.entitled
        /\ LoadsAccount(p, x).out = p.out
        /\ LoadsAccount(p, x).user = p.user
        /\ LoadsAccount(p, x).fresh = p.fresh
        /\ LoadsAccount(p, x).role = p.role
        /\ LoadsAccount(p, x).scopes = p.scopes
    BY DEF LoadsAccount, GuestRecords
  <2>4. /\ LoadsAccount(p, x).account = (p.user /\ held[x] # "none" /\ AccountOpen(x))
        /\ LoadsAccount(p, x).in = x
    BY DEF LoadsAccount, GuestRecords
  <2>5. LoadsAccount(p, x).paid = AccountPaid(x)
    BY DEF LoadsAccount, GuestRecords
  <2> QED BY <1>2, <2>1, <2>2, <2>3, <2>4, <2>5
<1>3. CASE m = "LoadMembership"
  <2>1. Through(m, p, x) = LoadsMembership(p)
    BY <1>3 DEF Through, Loading
  <2>2. LoadsMembership(p) \in GuestRecords
    BY DEF LoadsMembership, GuestRecords, GatewayTypes, SessionHolds
  <2> QED BY ZenonT(20), <1>3, <2>1, <2>2 DEF LoadsMembership, GuestRecords
<1>4. CASE m = "key"
  <2>1. normalizeScopes(asked) \in SUBSET Scopes
    BY DEF normalizeScopes, AllScopes
  <2>2. Through(m, p, x) = LoadsKey(p)
    BY <1>4 DEF Through, Loading
  <2>3. LoadsKey(p) \in GuestRecords
    BY <2>1 DEF LoadsKey, GuestRecords
  <2> QED BY <1>4, <2>2, <2>3 DEF LoadsKey, GuestRecords
<1>5. CASE m = "keyAccount"
  <2>1. Through(m, p, x) = LoadsKeyAccount(p)
    BY <1>5 DEF Through, Loading
  <2>2. LoadsKeyAccount(p) \in GuestRecords
    BY DEF LoadsKeyAccount, GuestRecords, GatewayTypes, SessionHolds
  <2>3. /\ LoadsKeyAccount(p).at = p.at
        /\ LoadsKeyAccount(p).route = p.route
        /\ LoadsKeyAccount(p).verb = p.verb
        /\ LoadsKeyAccount(p).token = p.token
        /\ LoadsKeyAccount(p).entitled = p.entitled
        /\ LoadsKeyAccount(p).out = p.out
        /\ LoadsKeyAccount(p).in = p.in
        /\ LoadsKeyAccount(p).user = p.user
        /\ LoadsKeyAccount(p).fresh = p.fresh
        /\ LoadsKeyAccount(p).role = p.role
        /\ LoadsKeyAccount(p).scopes = p.scopes
    BY DEF LoadsKeyAccount, GuestRecords
  <2>4. LoadsKeyAccount(p).account = TRUE
    BY DEF LoadsKeyAccount, GuestRecords
  <2>5. LoadsKeyAccount(p).paid = paid
    BY DEF LoadsKeyAccount, GuestRecords
  <2> QED BY <1>5, <2>1, <2>2, <2>3, <2>4, <2>5
<1>6. CASE m = "member"
  <2>1. Through(m, p, x) = LoadsMember(p)
    BY <1>6 DEF Through, Loading
  <2>2. LoadsMember(p) \in GuestRecords
    BY DEF LoadsMember, GuestRecords, GatewayTypes, SessionHolds
  <2> QED BY <1>6, <2>1, <2>2 DEF LoadsMember, GuestRecords
<1>7. CASE m = "link"
  <2>1. Through(m, p, x) = LoadsLink(p)
    BY <1>7 DEF Through, Loading
  <2>2. LoadsLink(p) \in GuestRecords
    BY DEF LoadsLink, GuestRecords, GatewayTypes, SessionHolds
  <2> QED BY <1>7, <2>1, <2>2 DEF LoadsLink, GuestRecords
<1>8. CASE m \notin Loading
  BY <1>8 DEF Through, Loading
<1> QED BY <1>1, <1>2, <1>3, <1>4, <1>5, <1>6, <1>7, <1>8 DEF Loading

\* The request p is at middleware m of its way, which makes q of it and lets it on to n.
Goes(m, p, q, n) ==
    /\ p \in GuestRecords /\ p.at > 0 /\ p.route \in DOMAIN Doors[door]
    /\ p.at <= Len(Chain(door, p.route)) /\ m = Chain(door, p.route)[p.at]
    /\ Made(m, p, q) /\ Passes(m, q)
    /\ n.at = q.at + 1 /\ n.route = q.route /\ n.verb = q.verb /\ n.token = q.token
    /\ n.user = q.user /\ n.fresh = q.fresh /\ n.account = q.account /\ n.paid = q.paid
    /\ n.role = q.role /\ n.scopes = q.scopes /\ n.in = q.in
    /\ door # "web" => q.in = "here"

LEMMA NoLoginMet ==
  ASSUME GatewayTypes, NEW m, NEW p, NEW q, NEW n, Goes(m, p, q, n), NoLogin(p)
  PROVE  p.at < Len(Chain(door, p.route)) /\ NoLogin(n)
<1>1. WayKnown(door, p.route)
  BY WaysKnown DEF GatewayTypes, Goes
<1>2. p \in GuestRecords /\ q \in GuestRecords /\ door \in {"web", "hook", "v1", "mobile", "share"}
  BY DoorsAre DEF Goes, Made, GatewayTypes
<1> QED BY SMTT(20), <1>1, <1>2 DEF GatewayTypes, GuestRecords, WayKnown, Goes, Made, Passes,
     NoLogin, Loaders, Loading, PublicRoutes, SessionHolds, KeyPasses, TokenPasses, LinkPasses

LEMMA NoTokenMet ==
  ASSUME GatewayTypes, NEW m, NEW p, NEW q, NEW n, Goes(m, p, q, n), NoToken(p)
  PROVE  p.at < Len(Chain(door, p.route)) /\ NoToken(n)
<1>1. WayKnown(door, p.route)
  BY WaysKnown DEF GatewayTypes, Goes
<1>2. p \in GuestRecords /\ q \in GuestRecords /\ door \in {"web", "hook", "v1", "mobile", "share"}
  BY DoorsAre DEF Goes, Made, GatewayTypes
<1>3. /\ Len(Chain(door, p.route)) \in 4 .. 8 /\ Chain(door, p.route)[4] = "csrf"
      /\ p.at \in 0 .. 8 /\ p.verb \in {"GET", "POST", "DELETE"}
  BY <1>1, <1>2 DEF WayKnown, GuestRecords
<1>4. p.at = 4 => m = "csrf" /\ q.token
  BY <1>3 DEF Goes, Made, Passes, CSRFPasses, isUnsafe, isExempt, NoToken
<1>5. p.at < 4
  BY <1>3, <1>4 DEF Goes, Made, NoToken
<1> QED BY <1>3, <1>5 DEF Goes, Made, NoToken

LEMMA NoStaffMet ==
  ASSUME GatewayTypes, NEW m, NEW p, NEW q, NEW n, Goes(m, p, q, n), NoStaff(p)
  PROVE  p.at < Len(Chain(door, p.route)) /\ NoStaff(n)
<1>1. WayKnown(door, p.route)
  BY WaysKnown DEF GatewayTypes, Goes
<1>2. p \in GuestRecords /\ q \in GuestRecords /\ door \in {"web", "hook", "v1", "mobile", "share"}
  BY DoorsAre DEF Goes, Made, GatewayTypes
<1> QED BY <1>1, <1>2 DEF GatewayTypes, GuestRecords, WayKnown, Goes, Made, Passes, NoStaff,
     Loaders, Loading, StaffPasses, StaffSSOPasses

LEMMA NoStepUpMet ==
  ASSUME GatewayTypes, NEW m, NEW p, NEW q, NEW n, Goes(m, p, q, n), NoStepUp(p)
  PROVE  p.at < Len(Chain(door, p.route)) /\ NoStepUp(n)
<1>1. WayKnown(door, p.route)
  BY WaysKnown DEF GatewayTypes, Goes
<1>2. p \in GuestRecords /\ q \in GuestRecords /\ door \in {"web", "hook", "v1", "mobile", "share"}
  BY DoorsAre DEF Goes, Made, GatewayTypes
<1> QED BY <1>1, <1>2 DEF GatewayTypes, GuestRecords, WayKnown, Goes, Made, Passes, NoStepUp,
     Loaders, Loading, StaffSSOPasses

LEMMA NoAccountMet ==
  ASSUME GatewayTypes, NEW m, NEW p, NEW q, NEW n, Goes(m, p, q, n), NEW x \in Accounts,
         q.at > 1 => q.in = x, NoAccount(p, x)
  PROVE  p.at < Len(Chain(door, p.route)) /\ NoAccount(n, x)
<1>1. WayKnown(door, p.route)
  BY WaysKnown DEF GatewayTypes, Goes
<1>2. p \in GuestRecords /\ q \in GuestRecords /\ door \in {"web", "hook", "v1", "mobile", "share"}
  BY DoorsAre DEF Goes, Made, GatewayTypes
<1> QED BY SMTT(20), <1>1, <1>2 DEF GatewayTypes, GuestRecords, WayKnown, Goes, Made, Passes,
     NoAccount, Loaders, Loading, PublicRoutes, OwnLogin, KeyPasses, TokenPasses, AccountOpen

LEMMA NoMemberMet ==
  ASSUME GatewayTypes, NEW m, NEW p, NEW q, NEW n, Goes(m, p, q, n), NEW x \in Accounts,
         q.at > 1 => q.in = x, NoMember(p, x)
  PROVE  p.at < Len(Chain(door, p.route)) /\ NoMember(n, x)
<1>1. WayKnown(door, p.route)
  BY WaysKnown DEF GatewayTypes, Goes
<1>2. p \in GuestRecords /\ q \in GuestRecords /\ door \in {"web", "hook", "v1", "mobile", "share"}
  BY DoorsAre DEF Goes, Made, GatewayTypes
<1> QED BY SMTT(20), <1>1, <1>2 DEF GatewayTypes, GuestRecords, WayKnown, Goes, Made, Passes,
     NoMember, Loaders, Loading, PublicRoutes, OwnLogin

LEMMA NoRoleMet ==
  ASSUME GatewayTypes, NEW m, NEW p, NEW q, NEW n, Goes(m, p, q, n), NEW x \in Accounts,
         q.at > 1 => q.in = x, NoRole(p, x)
  PROVE  p.at < Len(Chain(door, p.route)) /\ NoRole(n, x)
<1>1. WayKnown(door, p.route)
  BY WaysKnown DEF GatewayTypes, Goes
<1>2. p \in GuestRecords /\ q \in GuestRecords /\ door \in {"web", "hook", "v1", "mobile", "share"}
  BY DoorsAre DEF Goes, Made, GatewayTypes
<1> QED BY SMTT(20), <1>1, <1>2 DEF GatewayTypes, GuestRecords, WayKnown, Goes, Made, Passes,
     NoRole, Loaders, Loading, ActionPasses

\* A key has the scopes its owner asked for, and if he asked for none that exists those all
\* new keys have.
LEMMA ScopesGranted ==
  ASSUME NEW needs \in Scopes
  PROVE  needs \in normalizeScopes(asked) <=> Grants(needs)
  BY DEF normalizeScopes, AllScopes, Grants, Scopes

LEMMA NoGrantMet ==
  ASSUME GatewayTypes, NEW m, NEW p, NEW q, NEW n, Goes(m, p, q, n), NoGrant(p)
  PROVE  p.at < Len(Chain(door, p.route)) /\ NoGrant(n)
<1>1. WayKnown(door, p.route)
  BY WaysKnown DEF GatewayTypes, Goes
<1>2. p \in GuestRecords /\ q \in GuestRecords /\ door \in {"web", "hook", "v1", "mobile", "share"}
  BY DoorsAre DEF Goes, Made, GatewayTypes
<1>3. Doors[door][p.route].needs \in normalizeScopes(asked) => ~NoGrant(p)
  BY <1>1, ScopesGranted DEF WayKnown, NoGrant
<1> QED BY SMTT(20), <1>1, <1>2, <1>3 DEF GatewayTypes, GuestRecords, WayKnown, Goes, Made,
     Passes, NoGrant, Loaders, Loading, ScopePasses

LEMMA NoTrialMet ==
  ASSUME GatewayTypes, NEW m, NEW p, NEW q, NEW n, Goes(m, p, q, n), NEW x \in Accounts,
         q.at > 1 => q.in = x, NoTrial(p, x)
  PROVE  p.at < Len(Chain(door, p.route)) /\ NoTrial(n, x)
<1>1. WayKnown(door, p.route)
  BY WaysKnown DEF GatewayTypes, Goes
<1>2. p \in GuestRecords /\ q \in GuestRecords /\ door \in {"web", "hook", "v1", "mobile", "share"}
  BY DoorsAre DEF Goes, Made, GatewayTypes
<1> DEFINE c == Chain(door, p.route)
<1>3. /\ c[1] = "LoadUser" /\ c[2] = "LoadAccount" /\ c[3] = "LoadMembership" /\ c[4] = "csrf"
      /\ Len(c) = 8 /\ p.at \in 1 .. 8 /\ p.at = q.at /\ p.at <= 8 /\ m = c[p.at] /\ p.route = q.route
      /\ p.route \in Creates /\ ~AccountPaid(x) /\ n.at = p.at + 1
      /\ n.route = p.route /\ n.paid = q.paid
  BY <1>1, <1>2 DEF WayKnown, GuestRecords, Goes, Made, NoTrial
<1>4. CASE door = "web"
  <2>1. c[8] = "trial" /\ \A i \in 5 .. 8 : c[i] \notin Loading
    BY <1>1, <1>3, <1>4 DEF WayKnown
  <2>2. p.at = 2 => q.paid = AccountPaid(x)
    BY <1>3 DEF Goes, Made
  <2>3. p.at > 2 => q.paid = p.paid
    BY <1>3, <2>1 DEF Goes, Made, Loading
  <2>4. p.at > 1 => ~q.paid
    BY <1>3, <1>4, <2>2, <2>3 DEF NoTrial
  <2>5. p.at # 8
    BY <1>3, <2>1, <2>4 DEF Goes, Passes, TrialPasses
  <2> QED BY <1>3, <1>4, <2>4, <2>5 DEF NoTrial
<1>5. CASE door = "v1"
  <2>1. c[5] = "key" /\ c[6] = "keyAccount" /\ c[7] = "scope" /\ c[8] = "v1trial"
    BY <1>1, <1>3, <1>5 DEF WayKnown
  <2>6. p.at = 6 => m = "keyAccount" /\ x = "here"
    BY <1>3, <1>5, <2>1 DEF Goes
  <2>7. m = "keyAccount" => q.paid = paid
    BY DEF Goes, Made
  <2>8. x = "here" => ~paid
    BY <1>3 DEF AccountPaid
  <2>2. p.at = 6 => ~q.paid
    BY <2>6, <2>7, <2>8
  <2>3. p.at > 6 => q.paid = p.paid
    BY <1>3, <2>1 DEF Goes, Made
  <2>4. p.at > 5 => ~q.paid
    BY <1>3, <1>5, <2>2, <2>3 DEF NoTrial
  <2>5. p.at # 8
    BY <1>3, <2>1, <2>4 DEF Goes, Passes, v1TrialPasses
  <2> QED BY <1>3, <1>5, <2>4, <2>5 DEF NoTrial
<1> QED BY <1>1, <1>3, <1>4, <1>5 DEF WayKnown

LEMMA BarredMet ==
  ASSUME GatewayTypes, NEW m, NEW p, NEW q, NEW n, Goes(m, p, q, n), NEW x \in Accounts,
         q.at > 1 => q.in = x, Barred(p, x)
  PROVE  p.at < Len(Chain(door, p.route)) /\ Barred(n, x)
<1>1. NoLogin(p) => p.at < Len(Chain(door, p.route)) /\ NoLogin(n)
  BY NoLoginMet
<1>2. NoToken(p) => p.at < Len(Chain(door, p.route)) /\ NoToken(n)
  BY NoTokenMet
<1>3. NoStaff(p) => p.at < Len(Chain(door, p.route)) /\ NoStaff(n)
  BY NoStaffMet
<1>4. NoStepUp(p) => p.at < Len(Chain(door, p.route)) /\ NoStepUp(n)
  BY NoStepUpMet
<1>5. NoAccount(p, x) => p.at < Len(Chain(door, p.route)) /\ NoAccount(n, x)
  BY NoAccountMet
<1>6. NoMember(p, x) => p.at < Len(Chain(door, p.route)) /\ NoMember(n, x)
  BY NoMemberMet
<1>7. NoRole(p, x) => p.at < Len(Chain(door, p.route)) /\ NoRole(n, x)
  BY NoRoleMet
<1>8. NoGrant(p) => p.at < Len(Chain(door, p.route)) /\ NoGrant(n)
  BY NoGrantMet
<1>9. NoTrial(p, x) => p.at < Len(Chain(door, p.route)) /\ NoTrial(n, x)
  BY NoTrialMet
<1> QED BY <1>1, <1>2, <1>3, <1>4, <1>5, <1>6, <1>7, <1>8, <1>9 DEF Barred

\* What is seen of the rights that are still there.
LEMMA ReadyMet ==
  ASSUME GatewayTypes, NEW m, NEW p, NEW q, NEW n, Goes(m, p, q, n), Ready(p)
  PROVE  Ready(n)
<1>0. /\ door # "web" => p.in = "here" /\ ~p.user
      /\ p.at > 1 /\ door = "web" /\ cred = "live" => p.user
      /\ p.at > 1 /\ fresh => p.fresh
      /\ p.at > 2 /\ door = "web" /\ p.user /\ held[p.in] # "none" /\ AccountOpen(p.in) => p.account
      /\ p.at > 2 /\ door = "web" /\ AccountPaid(p.in) => p.paid
      /\ p.at > 5 /\ door = "v1" => p.scopes = normalizeScopes(asked)
      /\ p.at > 6 /\ door = "v1" /\ paid => p.paid
  BY DEF Ready
<1> DEFINE c == Chain(door, p.route)
<1>1. /\ p \in GuestRecords /\ q \in GuestRecords /\ p.at \in 1 .. 8 /\ p.at <= Len(c) /\ m = c[p.at]
      /\ n.at = p.at + 1
  BY DEF Goes, Made, GuestRecords
<1>2. /\ c[1] = "LoadUser" /\ c[2] = "LoadAccount" /\ c[3] = "LoadMembership" /\ c[4] = "csrf"
      /\ \A i \in 5 .. Len(c) : c[i] \notin Loaders
      /\ door = "web" => \A i \in 5 .. Len(c) : c[i] \notin Loading
      /\ door = "v1" => c[5] = "key" /\ c[6] = "keyAccount" /\ \A i \in 7 .. Len(c) : c[i] \in {"scope", "v1trial"}
  <2>1. WayKnown(door, p.route) /\ GatesFit(door, p.route) /\ p.route \in DOMAIN Doors[door]
    BY WaysKnown DEF GatewayTypes, Goes
  <2>2. door = "v1" => \A i \in 7 .. Len(c) : c[i] \in {"scope", "v1trial"}
    BY <2>1, V1Ends
  <2> QED BY <2>1, <2>2 DEF WayKnown
<1> HIDE DEF c
<1>3. /\ p.at = 1 <=> m = "LoadUser"
      /\ p.at = 2 <=> m = "LoadAccount"
      /\ p.at = 3 <=> m = "LoadMembership"
  BY <1>1, <1>2 DEF Loaders
<1>4. /\ p.at # 1 => q.user = p.user /\ q.fresh = p.fresh
      /\ p.at # 2 => q.in = p.in
  BY <1>3 DEF Goes, Made
<1>5. n.user = q.user /\ n.fresh = q.fresh /\ n.in = q.in /\ n.account = q.account /\ n.paid = q.paid
      /\ n.role = q.role /\ n.scopes = q.scopes
  BY DEF Goes
<1>6. door # "web" => n.in = "here" /\ ~n.user
  BY <1>3, <1>5 DEF Goes, Made, Ready, SessionHolds
<1>13. /\ m = "LoadUser" => q.user = SessionHolds(door) /\ q.fresh = fresh
       /\ p.at = 1 \/ p.at > 1
  BY <1>1 DEF Goes, Made
<1>7. ASSUME door = "web", cred = "live" PROVE n.user
  <2>1. CASE p.at = 1
    BY <1>3, <1>5, <1>7, <1>13, <2>1 DEF SessionHolds
  <2>2. CASE p.at > 1
    <3>1. p.at # 1
      BY <2>2
    <3> QED BY <1>0, <1>4, <1>5, <1>7, <2>2, <3>1
  <2> QED BY <1>13, <2>1, <2>2
<1>8. ASSUME fresh PROVE n.fresh
  <2>1. CASE p.at = 1
    BY <1>3, <1>5, <1>8, <1>13, <2>1
  <2>2. CASE p.at > 1
    <3>1. p.at # 1
      BY <2>2
    <3> QED BY <1>0, <1>4, <1>5, <1>8, <2>2, <3>1
  <2> QED BY <1>13, <2>1, <2>2
<1>9. ASSUME n.at > 2, door = "web"
      PROVE  /\ n.user /\ held[n.in] # "none" /\ AccountOpen(n.in) => n.account
             /\ AccountPaid(n.in) => n.paid
  <2>1. CASE p.at = 2
    BY <1>3, <1>4, <1>5, <2>1 DEF Goes, Made
  <2>2. CASE p.at > 2
    <3>1. m \notin {"LoadAccount", "keyAccount"}
      BY <1>1, <1>2, <1>9, <2>2 DEF Loading
    <3>2. q.paid = p.paid /\ q.in = p.in /\ q.user = p.user
      BY <1>4, <2>2, <3>1 DEF Goes, Made
    <3>3. q.account = p.account \/ (q.account = (p.account /\ held[p.in] # "none"))
      BY <3>1 DEF Goes, Made
    <3> QED BY <1>5, <1>9, <2>2, <3>2, <3>3 DEF Ready
  <2> QED BY <1>1, <1>9, <2>1, <2>2
<1>10. ASSUME n.at > 3, door = "web", n.user, AccountOpen(n.in), NEW a, Allowed(held[n.in], a)
       PROVE  Allowed(n.role, a)
  <2>1. CASE p.at = 3
    <3>1. p.account /\ q.in = p.in
      <4>1. held[p.in] # "none"
        BY <1>4, <1>5, <1>10, <2>1 DEF Allowed, roleMatrix
      <4>2. q.in = p.in /\ q.user = p.user /\ p.at > 2
        BY <1>4, <2>1
      <4> QED BY <1>0, <1>5, <1>10, <4>1, <4>2
    <3>2. held[p.in] # "none"
      BY <1>4, <1>5, <1>10, <2>1 DEF Allowed, roleMatrix
    <3>3. q.account /\ q.role = held[p.in]
      BY <1>3, <2>1, <3>1, <3>2 DEF Goes, Made
    <3> QED BY <1>5, <1>10, <3>1, <3>3
  <2>2. CASE p.at > 3
    <3>1. m \notin {"LoadMembership", "member"}
      BY <1>1, <1>2, <1>10, <2>2 DEF Loading
    <3>2. q.role = p.role /\ q.in = p.in /\ q.user = p.user
      BY <1>4, <2>2, <3>1 DEF Goes, Made
    <3> QED BY <1>5, <1>10, <2>2, <3>2 DEF Ready
  <2> QED BY <1>1, <1>10, <2>1, <2>2
<1>11. n.at > 5 /\ door = "v1" => n.scopes = normalizeScopes(asked)
  <2>1. p.at = 5 /\ door = "v1" => m = "key"
    BY <1>1, <1>2
  <2>2. p.at > 5 /\ door = "v1" => m # "key"
    BY <1>1, <1>2
  <2> QED BY <1>0, <1>1, <1>5, <2>1, <2>2 DEF Goes, Made
<1>12. n.at > 6 /\ door = "v1" /\ paid => n.paid
  <2>1. p.at = 6 /\ door = "v1" => m = "keyAccount"
    BY <1>1, <1>2
  <2>2. p.at > 6 /\ door = "v1" => m \notin {"LoadAccount", "keyAccount"}
    BY <1>1, <1>2
  <2>3. m = "keyAccount" => q.paid = paid
    BY DEF Goes, Made
  <2>4. m \notin {"LoadAccount", "keyAccount"} => q.paid = p.paid
    BY DEF Goes, Made
  <2>5. n.at > 6 => p.at = 6 \/ p.at > 6
    BY <1>1
  <2> QED BY <1>0, <1>5, <2>1, <2>2, <2>3, <2>4, <2>5
<1> QED BY <1>6, <1>7, <1>8, <1>9, <1>10, <1>11, <1>12 DEF Ready

\* A middleware that refuses misses a right that is not there any more, except the trial gate
\* before the routes of Tidies.
LEMMA RefusedJustly ==
  ASSUME GatewayTypes, NEW p \in GuestRecords, NEW m, NEW q, Made(m, p, q), ~Passes(m, q), Ready(p),
         p.at > 0, p.route \in DOMAIN Doors[door], p.verb \in Doors[door][p.route].verbs,
         p.at <= Len(Chain(door, p.route)), m = Chain(door, p.route)[p.at],
         Entitled(p.in, p.route, p.verb, p.token)
  PROVE  m = "trial" /\ p.route \in Tidies /\ ~AccountPaid(p.in)
<1>0. /\ door # "web" => p.in = "here" /\ ~p.user
      /\ p.at > 1 /\ door = "web" /\ cred = "live" => p.user
      /\ p.at > 1 /\ fresh => p.fresh
      /\ p.at > 2 /\ door = "web" /\ p.user /\ held[p.in] # "none" /\ AccountOpen(p.in) => p.account
      /\ p.at > 2 /\ door = "web" /\ AccountPaid(p.in) => p.paid
      /\ p.at > 5 /\ door = "v1" => p.scopes = normalizeScopes(asked)
      /\ p.at > 6 /\ door = "v1" /\ paid => p.paid
  BY DEF Ready
<1> DEFINE c == Chain(door, p.route)
<1> DEFINE r == p.route
<1> DEFINE needs == Doors[door][p.route].needs
<1>1. WayKnown(door, r) /\ GatesFit(door, r) /\ p.at \in 1 .. 8
  BY WaysKnown DEF GatewayTypes, GuestRecords
<1>2. /\ c[1] = "LoadUser" /\ c[2] = "LoadAccount" /\ c[3] = "LoadMembership" /\ c[4] = "csrf"
      /\ Len(c) \in 4 .. 8
  BY <1>1 DEF WayKnown
<1>3. p.at > 3
  BY <1>1, <1>2 DEF Passes
<1>4. CASE p.at = 4
  <2>1. m = "csrf"
    BY <1>2, <1>4
  <2>2. ~CSRFPasses(q)
    BY <2>1 DEF Passes
  <2>3. q.verb = p.verb /\ q.token = p.token
    BY DEF Made
  <2>4. door \in {"web", "share"}
    BY <2>2, DoorsAre DEF CSRFPasses, isExempt, GatewayTypes
  <2>5. door = "share" => p.verb = "GET"
    BY DoorsAre DEF shareRoutes, Group, Reading
  <2>6. p.verb = "GET" => FALSE
    BY <2>2, <2>3 DEF CSRFPasses, isUnsafe
  <2> QED BY <2>2, <2>3, <2>4, <2>5, <2>6 DEF CSRFPasses, Entitled
<1>5. CASE p.at > 4
  <2>1. p.at \in 5 .. Len(c) /\ m = c[p.at]
    BY <1>1, <1>2, <1>5
  <2> HIDE DEF c
  <2>2. /\ m \in {"user", "account", "action", "trial", "staff", "staffSSO"} =>
              door = "web" /\ r \notin PublicRoutes
        /\ m = "staff" => r \in {"sso", "admin"}
        /\ m = "staffSSO" => r = "admin"
        /\ m \in {"account", "action"} => r \notin OwnLogin \cup {"share"}
        /\ m = "action" => needs # "none"
        /\ m = "trial" => r \in Creates \cup Tidies
        /\ m \in {"key", "scope", "v1trial"} => door = "v1"
        /\ m \in {"key", "keyAccount", "token", "member", "scope", "v1trial"} =>
              door \in {"v1", "mobile"} /\ r \notin PublicRoutes \cup OwnLogin \cup {"share"}
        /\ m = "v1trial" => r \in Creates
        /\ m \in {"token", "member"} => door = "mobile"
        /\ m = "link" => door = "share" /\ r = "share"
        /\ m \in {"user", "staff", "staffSSO", "account", "action", "trial", "key", "keyAccount",
                  "scope", "v1trial", "token", "member", "link", "view"}
    BY <1>1, <2>1 DEF GatesFit, c
  <2>3. m # "LoadUser" /\ m # "LoadAccount" /\ m # "LoadMembership"
    BY <2>2
  <2>4. q.route = p.route /\ q.in = p.in /\ q.user = p.user /\ q.fresh = p.fresh
    BY <2>3 DEF Made
  <2>5. door # "web" => p.in = "here"
    BY DEF Ready
  <2>6. r \notin PublicRoutes => cred = "live"
    BY DEF Entitled
  <2>7. r \notin PublicRoutes \cup OwnLogin \cup {"share"} => AccountOpen(p.in)
    BY DEF Entitled
  <2>8. door # "web" /\ r \notin PublicRoutes \cup OwnLogin \cup {"share"} => open
    BY <2>5, <2>7 DEF AccountOpen
  <2>9. CASE m = "user"
    BY <1>0, <1>1, <1>5, <2>2, <2>4, <2>6, <2>9 DEF Passes
  <2>10. CASE m = "account"
    <3>1. held[p.in] # "none"
      BY <2>2, <2>10 DEF Entitled
    <3>2. p.user
      BY <1>0, <1>1, <1>5, <2>2, <2>6, <2>10
    <3>3. q.account = p.account
      BY <2>10 DEF Made
    <3> QED BY <1>0, <1>1, <1>5, <2>2, <2>7, <2>10, <3>1, <3>2, <3>3 DEF Passes
  <2>11. CASE m = "action"
    <3>1. Allowed(held[p.in], needs)
      BY <2>2, <2>11 DEF Entitled
    <3>2. p.user
      BY <1>0, <1>1, <1>5, <2>2, <2>6, <2>11
    <3>3. q.role = p.role
      BY <2>11 DEF Made
    <3>4. AccountOpen(p.in)
      BY <2>2, <2>7, <2>11
    <3>6. p.at > 3 /\ door = "web"
      BY <1>3, <2>2, <2>11
    <3>7. \A a : Allowed(held[p.in], a) => Allowed(p.role, a)
      BY <3>2, <3>4, <3>6 DEF Ready
    <3>5. Allowed(p.role, needs)
      BY <3>1, <3>7
    <3> QED BY <2>4, <2>11, <3>3, <3>5 DEF Passes, ActionPasses
  <2>12. CASE m \in {"staff", "staffSSO"}
    <3>1. staff
      BY <2>2, <2>12 DEF Entitled
    <3>2. m = "staffSSO" => p.fresh
      BY <1>0, <1>1, <1>5, <2>2 DEF Entitled
    <3> QED BY <2>4, <2>12, <3>1, <3>2 DEF Passes, StaffPasses, StaffSSOPasses
  <2>13. CASE m = "trial"
    <3>1. ~p.paid
      BY <2>13 DEF Passes, TrialPasses, Made
    <3>2. ~AccountPaid(p.in)
      BY <1>0, <1>1, <1>5, <2>2, <2>13, <3>1
    <3> QED BY <2>2, <2>13, <3>2 DEF Entitled
  <2>14. CASE m \in {"key", "keyAccount", "token"}
    BY <2>2, <2>6, <2>8, <2>14 DEF Passes, KeyPasses, TokenPasses
  <2>15. CASE m = "member"
    BY <2>2, <2>4, <2>15 DEF Passes, Entitled
  <2>16. CASE m = "scope"
    <3>1. needs \in Scopes /\ Grants(needs)
      BY <1>1, <2>2, <2>16 DEF WayKnown, Entitled
    <3>2. p.at > 5
      <4>1. c[5] = "key"
        BY <1>1, <2>2, <2>16 DEF WayKnown, c
      <4>2. p.at # 5
        BY <2>1, <2>16, <4>1
      <4> QED BY <1>1, <1>5, <4>2
    <3>3. q.scopes = normalizeScopes(asked)
      BY <1>0, <2>2, <2>16, <3>2 DEF Made
    <3> QED BY <2>4, <2>16, <3>1, <3>3, ScopesGranted DEF Passes, ScopePasses
  <2>17. CASE m = "v1trial"
    <3>1. paid
      BY <2>2, <2>5, <2>17 DEF Entitled, AccountPaid
    <3>2. p.at > 6
      <4>1. c[5] = "key" /\ c[6] = "keyAccount"
        BY <1>1, <2>2, <2>17 DEF WayKnown, c
      <4>2. p.at # 5 /\ p.at # 6
        BY <2>1, <2>17, <4>1
      <4> QED BY <1>1, <1>5, <4>2
    <3>3. q.paid
      BY <1>0, <2>2, <2>17, <3>1, <3>2 DEF Made
    <3> QED BY <2>17, <3>3 DEF Passes, v1TrialPasses
  <2>18. CASE m \in {"link", "view"}
    <3>1. "share" \notin PublicRoutes
      BY DEF PublicRoutes
    <3> QED BY <2>2, <2>6, <2>18, <3>1 DEF Passes, LinkPasses
  <2> QED BY <2>2, <2>9, <2>10, <2>11, <2>12, <2>13, <2>14, <2>15, <2>16, <2>17, <2>18
<1> QED BY <1>1, <1>3, <1>4, <1>5

LEMMA OutsideKnown == Outside \in GuestRecords
<1>1. "site" \in DOMAIN Doors["web"] /\ "web" \in DOMAIN Doors
  BY DoorsAre, PageNames, SiteNames
<1>2. "site" \in RouteNames
  BY <1>1 DEF RouteNames
<1> QED BY <1>2 DEF Outside, GuestRecords, Accounts

-----------------------------------------------------------------------------
(* One request moves, and no right changes.                                 *)

LEMMA GuestMoves ==
  ASSUME GatewayTypes, NEW g \in Guests, NEW n \in GuestRecords, guest' = [guest EXCEPT ![g] = n]
  PROVE  /\ guest' \in [Guests -> GuestRecords] /\ guest'[g] = n
         /\ \A h \in Guests \ {g} : guest'[h] = guest[h]
  BY DEF GatewayTypes

LEMMA LacksKept ==
  ASSUME GatewayTypes, LacksAreMet, RightsAreSeen, NEW g \in Guests, NEW n \in GuestRecords,
         guest' = [guest EXCEPT ![g] = n], UNCHANGED rightVars, Guarded(n), Welcome(n)
  PROVE  LacksAreMet' /\ RightsAreSeen'
<1>1. /\ guest'[g] = n /\ \A h \in Guests \ {g} : guest'[h] = guest[h]
  BY GuestMoves
<1>2. ASSUME NEW h \in Guests PROVE Guarded(guest[h])' /\ Welcome(guest[h])'
  <2> USE DEF rightVars
  <2>1. PICK o : o = guest'[h]
    OBVIOUS
  <2>2. Guarded(o) /\ Welcome(o)
    BY <1>1, <2>1 DEF LacksAreMet, RightsAreSeen
  <2>3. Guarded(guest[h])' = Guarded(o)
    BY <2>1 DEF Guarded, Barred, NoLogin, NoToken, NoStaff, NoStepUp, NoAccount, NoMember, NoRole,
                NoGrant, NoTrial, AccountOpen, AccountPaid, Grants
  <2>4. Welcome(guest[h])' = Welcome(o)
    BY <2>1 DEF Welcome, Ready, AccountOpen, AccountPaid, normalizeScopes
  <2> QED BY <2>2, <2>3, <2>4
<1> QED BY <1>2 DEF LacksAreMet, RightsAreSeen

LEMMA WayKept ==
  ASSUME GatewayTypes, OnItsWay, NEW g \in Guests, NEW n \in GuestRecords,
         guest' = [guest EXCEPT ![g] = n], door' = door, knocks' \in Nat, knocks' >= knocks,
         n.at = 0 => n.out = "none",
         n.at > 0 => /\ n.route \in DOMAIN Doors[door] /\ knocks' > 0
                     /\ n.verb \in Doors[door][n.route].verbs
                     /\ n.at <= Len(Chain(door, n.route))
  PROVE  OnItsWay'
<1>1. /\ guest'[g] = n /\ \A h \in Guests \ {g} : guest'[h] = guest[h]
  BY GuestMoves
<1> SUFFICES ASSUME NEW h \in Guests
             PROVE  /\ guest'[h].at = 0 => guest'[h].out = "none"
                    /\ guest'[h].at > 0 => /\ guest'[h].route \in DOMAIN Doors[door] /\ knocks' > 0
                                           /\ guest'[h].verb \in Doors[door][guest'[h].route].verbs
                                           /\ guest'[h].at <= Len(Chain(door, guest'[h].route))
  BY DEF OnItsWay, Chain
<1>2. CASE h = g
  BY <1>1, <1>2
<1>3. CASE h # g
  BY <1>1, <1>3 DEF OnItsWay, GatewayTypes
<1> QED BY <1>2, <1>3

LEMMA TurningKept ==
  ASSUME GatewayTypes, NeverTurnedAway, NEW g \in Guests, NEW n \in GuestRecords,
         guest' = [guest EXCEPT ![g] = n], UNCHANGED rightVars, Justly(n)
  PROVE  NeverTurnedAway'
<1>1. /\ guest'[g] = n /\ \A h \in Guests \ {g} : guest'[h] = guest[h]
  BY GuestMoves
<1>2. ASSUME NEW h \in Guests PROVE Justly(guest[h])'
  <2>1. PICK o : o = guest'[h]
    OBVIOUS
  <2>2. Justly(o)
    BY <1>1, <2>1 DEF NeverTurnedAway, Justly
  <2>3. Justly(guest[h])' = Justly(o)
    BY <2>1 DEF Justly, Entitled, AccountOpen, AccountPaid, Grants, rightVars
  <2> QED BY <2>2, <2>3
<1> QED BY <1>2 DEF NeverTurnedAway, Justly

-----------------------------------------------------------------------------
(* The visitors between the look-up of a share link and the count.           *)

Viewing == {g \in Guests : Running(g) /\ At(g) = "view"}
AtView(n) == n.at > 0 /\ n.out = "none" /\ Chain(door, n.route)[n.at] = "view"

LEMMA ViewingFinite == IsFiniteSet(Viewing) /\ Cardinality(Viewing) \in Nat
<1>1. Viewing \subseteq Guests
  BY DEF Viewing
<1> QED BY <1>1, GatewayAssumption, FS_Subset, FS_CardinalityType

LEMMA ViewingMoves ==
  ASSUME GatewayTypes, NEW g \in Guests, NEW n \in GuestRecords,
         guest' = [guest EXCEPT ![g] = n], door' = door
  PROVE  Viewing' = IF AtView(n) THEN Viewing \cup {g} ELSE Viewing \ {g}
<1>1. /\ guest'[g] = n /\ \A h \in Guests \ {g} : guest'[h] = guest[h]
  BY GuestMoves
<1>2. \A h \in Guests \ {g} : h \in Viewing' <=> h \in Viewing
  BY <1>1 DEF Viewing, Running, At, Chain
<1>3. g \in Viewing' <=> AtView(n)
  BY <1>1 DEF Viewing, Running, At, Chain, AtView
<1>4. Viewing' \subseteq Guests /\ Viewing \subseteq Guests
  BY DEF Viewing
<1> QED BY <1>2, <1>3, <1>4

LEMMA ViewingCounted ==
  ASSUME GatewayTypes, NEW g \in Guests, NEW n \in GuestRecords,
         guest' = [guest EXCEPT ![g] = n], door' = door
  PROVE  /\ Cardinality(Viewing') \in Nat
         /\ AtView(n) /\ g \notin Viewing => Cardinality(Viewing') = Cardinality(Viewing) + 1
         /\ ~AtView(n) /\ g \in Viewing => Cardinality(Viewing') = Cardinality(Viewing) - 1
         /\ (AtView(n) <=> g \in Viewing) => Cardinality(Viewing') = Cardinality(Viewing)
<1>1. Viewing' = IF AtView(n) THEN Viewing \cup {g} ELSE Viewing \ {g}
  BY ViewingMoves
<1>2. IsFiniteSet(Viewing) /\ Cardinality(Viewing) \in Nat
  BY ViewingFinite
<1>3. CASE AtView(n) /\ g \notin Viewing
  <2>1. Viewing' = Viewing \cup {g}
    BY <1>1, <1>3
  <2>2. Cardinality(Viewing \cup {g}) = Cardinality(Viewing) + 1
    BY <1>2, <1>3, FS_AddElement
  <2> QED BY <1>2, <1>3, <2>1, <2>2
<1>4. CASE ~AtView(n) /\ g \in Viewing
  <2>1. Viewing' = Viewing \ {g}
    BY <1>1, <1>4
  <2>2. Cardinality(Viewing \ {g}) = Cardinality(Viewing) - 1 /\ IsFiniteSet(Viewing \ {g})
    BY <1>2, <1>4, FS_RemoveElement
  <2>3. Cardinality(Viewing \ {g}) \in Nat
    BY <2>2, FS_CardinalityType
  <2> QED BY <1>4, <2>1, <2>2, <2>3
<1>5. CASE AtView(n) <=> g \in Viewing
  <2>1. Viewing' = Viewing
    BY <1>1, <1>5
  <2> QED BY <1>2, <1>5, <2>1
<1> QED BY <1>3, <1>4, <1>5

LEMMA ViewsKept ==
  ASSUME GatewayTypes, ViewsCounted, NEW g \in Guests, NEW n \in GuestRecords,
         guest' = [guest EXCEPT ![g] = n], door' = door,
         AtView(n) <=> g \in Viewing, views' + unseen' = views + unseen, shown' = shown
  PROVE  ViewsCounted'
<1>1. ViewsCounted <=> views + unseen + Cardinality(Viewing) = shown
  BY DEF ViewsCounted, Viewing
<1>2. ViewsCounted' <=> views' + unseen' + Cardinality(Viewing') = shown'
  BY DEF ViewsCounted, Viewing
<1>3. Cardinality(Viewing') = Cardinality(Viewing)
  BY ViewingCounted
<1> QED BY <1>1, <1>2, <1>3

LEMMA Arrives ==
  ASSUME NEW p \in GuestRecords, NEW a \in 0 .. 8, NEW r \in RouteNames,
         NEW verb \in {"GET", "POST", "DELETE"}, NEW t \in BOOLEAN, NEW e \in SUBSET Accounts
  PROVE  [p EXCEPT !.at = a, !.route = r, !.verb = verb, !.token = t, !.entitled = e] \in GuestRecords
<1> DEFINE o == [p EXCEPT !.at = a, !.route = r, !.verb = verb]
<1>1. o \in GuestRecords
  BY DEF GuestRecords
<1>2. [p EXCEPT !.at = a, !.route = r, !.verb = verb, !.token = t, !.entitled = e]
        = [o EXCEPT !.token = t, !.entitled = e]
  OBVIOUS
<1> HIDE DEF o
<1>3. [o EXCEPT !.token = t, !.entitled = e] \in GuestRecords
  BY <1>1 DEF GuestRecords
<1> QED BY <1>2, <1>3

LEMMA KnockSafe ==
  ASSUME GatewayInv, NEW g \in Guests, NEW r \in DOMAIN Doors[door],
         NEW verb \in {"GET", "POST", "DELETE"}, NEW t \in BOOLEAN, Knock(g, r, verb, t)
  PROVE  GatewayInv'
<1> DEFINE n == [Outside EXCEPT !.at = 1, !.route = r, !.verb = verb, !.token = t,
                                !.entitled = {x \in Accounts : Entitled(x, r, verb, t)}]
<1>1. /\ guest' = [guest EXCEPT ![g] = n] /\ guest[g].at = 0 /\ knocks < MaxKnocks
      /\ knocks' = knocks + 1 /\ UNCHANGED <<rightVars, on, views, shown, unseen>>
      /\ verb \in Doors[door][r].verbs
  BY DEF Knock
<1>2. r \in RouteNames /\ door \in {"web", "hook", "v1", "mobile", "share"}
  BY DoorsAre DEF RouteNames, GatewayInv, GatewayTypes
<1>3. {x \in Accounts : Entitled(x, r, verb, t)} \in SUBSET Accounts
  OBVIOUS
<1>4. n \in GuestRecords
  <2>1. 1 \in 0 .. 8
    OBVIOUS
  <2>2. \A e \in SUBSET Accounts :
           [Outside EXCEPT !.at = 1, !.route = r, !.verb = verb, !.token = t, !.entitled = e]
              \in GuestRecords
    BY <1>2, <2>1, OutsideKnown, Arrives
  <2> QED BY <1>3, <2>2
<1>5. /\ n.at = 1 /\ n.route = r /\ n.verb = verb /\ n.token = t /\ n.role = "none" /\ n.out = "none"
      /\ n.entitled = {x \in Accounts : Entitled(x, r, verb, t)} /\ n.in = "here" /\ ~n.user
  BY DEF Outside
<1>6. WayKnown(door, r)
  BY WaysKnown DEF GatewayInv, GatewayTypes
<1> HIDE DEF n
<1>7. GatewayTypes'
  BY <1>1, <1>4, GuestMoves, GatewayAssumption DEF GatewayInv, GatewayTypes, rightVars
<1>8. OnItsWay'
  <2>1. knocks' \in Nat /\ knocks' >= knocks /\ knocks' > 0 /\ door' = door
    BY <1>1 DEF GatewayInv, GatewayTypes, rightVars
  <2>2. n.at <= Len(Chain(door, n.route))
    BY <1>5, <1>6 DEF WayKnown
  <2> QED BY <1>1, <1>4, <1>5, <2>1, <2>2, WayKept DEF GatewayInv
<1>9. Guarded(n)
  <2>1. SUFFICES ASSUME NEW x \in Accounts, ~Entitled(x, r, verb, t)
                 PROVE  Barred(n, x)
    BY <1>5 DEF Guarded
  <2>2. ~Allowed("none", Doors[door][r].needs)
    BY DEF Allowed, roleMatrix
  <2> QED BY <1>2, <1>5, <1>6, <2>1, <2>2
       DEF Entitled, Barred, NoLogin, NoToken, NoStaff, NoStepUp, NoAccount, NoMember, NoRole,
           NoGrant, NoTrial, WayKnown, GatewayInv, GatewayTypes
<1>13. Welcome(n)
  BY <1>5 DEF Welcome, Ready
<1>10. LacksAreMet' /\ RightsAreSeen'
  BY <1>1, <1>4, <1>9, <1>13, LacksKept DEF GatewayInv
<1>11. NeverTurnedAway'
  <2>1. Justly(n)
    BY <1>5 DEF Justly
  <2> QED BY <1>1, <1>4, <2>1, TurningKept DEF GatewayInv
<1>12. ViewsCounted'
  <2>1. ~AtView(n)
    BY <1>5, <1>6 DEF AtView, WayKnown
  <2>2. g \notin Viewing
    BY <1>1 DEF Viewing, Running
  <2>3. door' = door
    BY <1>1 DEF rightVars
  <2> QED BY <1>1, <1>4, <2>1, <2>2, <2>3, ViewsKept DEF GatewayInv
<1> QED BY <1>7, <1>8, <1>10, <1>11, <1>12 DEF GatewayInv

LEMMA OneFurther ==
  ASSUME NEW i \in 1 .. 8, NEW l \in 4 .. 8, i <= l, i # l
  PROVE  i + 1 \in 0 .. 8 /\ i + 1 <= l
  OBVIOUS

LEMMA MiddlewareSafe ==
  ASSUME GatewayInv, NEW g \in Guests, Middleware(g)
  PROVE  GatewayInv'
<1> DEFINE p == guest[g]
<1> DEFINE m == At(g)
<1>0. PICK x \in Resolved(guest[g]) :
         LET q == Through(At(g), guest[g], x)
         IN  /\ IF Passes(At(g), q) THEN Let(g, q)
                ELSE guest' = [guest EXCEPT ![g].out =
                                  IF At(g) \in {"trial", "v1trial"} THEN "402" ELSE "refused"]
             /\ on' \in IF At(g) = "LoadAccount" /\ guest[g].user THEN {on, x} ELSE {on}
  BY DEF Middleware
<1> DEFINE q == Through(m, p, x)
<1> DEFINE refused == [p EXCEPT !.out = IF m \in {"trial", "v1trial"} THEN "402" ELSE "refused"]
<1> DEFINE onward == [q EXCEPT !.at = @ + 1]
<1> DEFINE through == [q EXCEPT !.out = "served"]
<1>1. /\ p \in GuestRecords /\ p.at > 0 /\ p.out = "none" /\ m # "view"
      /\ UNCHANGED <<rightVars, views, unseen, knocks>> /\ door' = door
  BY DEF GatewayInv, GatewayTypes, Middleware, Running, rightVars
<1>12. x \in Accounts /\ on' \in Accounts \cup {"none"}
  <2>1. x \in Accounts
    BY <1>1 DEF Resolved, Resolvable, GuestRecords
  <2> QED BY <1>0, <2>1 DEF GatewayInv, GatewayTypes
<1>2. /\ p.verb \in Doors[door][p.route].verbs
      /\ p.route \in DOMAIN Doors[door] /\ knocks > 0 /\ p.at <= Len(Chain(door, p.route))
      /\ m = Chain(door, p.route)[p.at] /\ WayKnown(door, p.route) /\ p.at \in 1 .. 8
  BY <1>1, WaysKnown DEF GatewayInv, GatewayTypes, OnItsWay, At, GuestRecords
<1>3. Made(m, p, q)
  BY <1>1, <1>12, ThroughMakes DEF GatewayInv
<1>4. /\ q.at = p.at /\ q.route = p.route /\ q.out = "none" /\ q.entitled = p.entitled
      /\ q.verb = p.verb /\ q \in GuestRecords
  BY <1>1, <1>3 DEF Made
<1>13. Ready(p)
  BY <1>1 DEF GatewayInv, RightsAreSeen, Welcome
<1>14. p.at # 2 => q.in = p.in
  BY <1>2, <1>3 DEF Made, WayKnown, Loaders
<1>15. door # "web" => q.in = "here"
  <2>1. door # "web" => ~p.user /\ p.in = "here"
    BY <1>13 DEF Ready
  <2>2. ~p.user => x = p.in
    BY DEF Resolved
  <2>3. m = "LoadAccount" => q.in = x
    BY <1>1, <1>12, ThroughMakes DEF GatewayInv
  <2>4. m # "LoadAccount" => q.in = p.in
    BY <1>3 DEF Made
  <2> QED BY <2>1, <2>2, <2>3, <2>4
<1>16. \A y \in Accounts : y \notin p.entitled /\ (p.at > 1 => q.in = y) => Barred(p, y)
  <2> SUFFICES ASSUME NEW y \in Accounts, y \notin p.entitled, p.at > 1 => q.in = y
               PROVE  Barred(p, y)
    OBVIOUS
  <2>1. p.at > 2 => p.in = y
    BY <1>2, <1>14
  <2> QED BY <1>1, <2>1 DEF GatewayInv, LacksAreMet, Guarded
<1>5. g \notin Viewing
  BY <1>1 DEF Viewing
<1>6. shown' = shown + (IF m = "link" /\ cred = "live" THEN 1 ELSE 0)
  BY DEF Middleware
<1>7. m = "link" <=> door = "share" /\ p.at = 5
  BY SMTT(20), <1>1, <1>2 DEF WayKnown
<1>11. knocks' \in Nat /\ knocks' >= knocks /\ knocks' > 0
  BY <1>1, <1>2 DEF GatewayInv, GatewayTypes
<1>17. ~Passes(m, q) => guest' = [guest EXCEPT ![g] = refused]
  BY <1>0
<1>18. Passes(m, q) => Let(g, q)
  BY <1>0
<1> HIDE DEF p, m, q
<1>8. CASE ~Passes(m, q)
  <2>1. guest' = [guest EXCEPT ![g] = refused]
    BY <1>8, <1>17
  <2>2. refused \in GuestRecords
    BY <1>1 DEF GuestRecords
  <2>3. /\ refused.at = p.at /\ refused.route = p.route /\ refused.out \in {"402", "refused"}
        /\ refused.verb = p.verb /\ refused.token = p.token /\ refused.in = p.in
        /\ m = "trial" => refused.out = "402"
    BY <1>1 DEF GuestRecords
  <2> HIDE DEF refused
  <2>4. GatewayTypes'
    BY <1>1, <1>6, <1>12, <2>1, <2>2, GuestMoves DEF GatewayInv, GatewayTypes, rightVars
  <2>5. OnItsWay'
    <3>1. /\ refused.route \in DOMAIN Doors[door] /\ refused.at <= Len(Chain(door, refused.route))
          /\ refused.at # 0 /\ refused.verb \in Doors[door][refused.route].verbs
      BY <1>2, <2>3
    <3>2. door' = door
      BY <1>1
    <3> QED BY <1>11, <2>1, <2>2, <3>1, <3>2, WayKept DEF GatewayInv
  <2>6. LacksAreMet' /\ RightsAreSeen'
    <3>1. Guarded(refused) /\ Welcome(refused)
      BY <2>3 DEF Guarded, Welcome
    <3> QED BY <1>1, <2>1, <2>2, <3>1, LacksKept DEF GatewayInv
  <2>7. NeverTurnedAway'
    <3>1. Entitled(p.in, p.route, p.verb, p.token) => m = "trial" /\ p.route \in Tidies /\ ~AccountPaid(p.in)
      BY <1>1, <1>2, <1>3, <1>8, <1>13, RefusedJustly DEF GatewayInv
    <3>2. Justly(refused)
      BY <2>3, <3>1 DEF Justly
    <3> QED BY <1>1, <2>1, <2>2, <3>2, TurningKept DEF GatewayInv
  <2>8. ViewsCounted'
    <3>1. shown' = shown
      BY <1>6, <1>8 DEF GatewayInv, GatewayTypes, Passes, LinkPasses
    <3>2. ~AtView(refused)
      BY <2>3 DEF AtView
    <3> QED BY <1>1, <1>5, <2>1, <2>2, <3>1, <3>2, ViewsKept DEF GatewayInv
  <2> QED BY <2>4, <2>5, <2>6, <2>7, <2>8 DEF GatewayInv
<1>9. CASE Passes(m, q) /\ p.at = Len(Chain(door, p.route))
  <2>1. guest' = [guest EXCEPT ![g] = through]
    BY <1>4, <1>9, <1>18 DEF Let
  <2>2. through \in GuestRecords
    BY <1>4 DEF GuestRecords
  <2>3. /\ through.at = p.at /\ through.route = p.route /\ through.out = "served"
        /\ through.entitled = p.entitled /\ through.in = q.in /\ through.verb = p.verb
    BY <1>4 DEF GuestRecords
  <2>4. q.in \in p.entitled
    <3>1. Goes(m, p, q, onward)
      BY <1>1, <1>2, <1>3, <1>4, <1>9, <1>15 DEF Goes, GuestRecords
    <3>3. q.in \in Accounts
      BY <1>4 DEF GuestRecords
    <3>2. ASSUME Barred(p, q.in) PROVE FALSE
      <4>1. PICK y \in Accounts : y = q.in
        BY <3>3
      <4>2. p.at < Len(Chain(door, p.route))
        BY <3>1, <3>2, <4>1, BarredMet DEF GatewayInv
      <4> QED BY <1>2, <1>9, <4>2 DEF WayKnown
    <3> QED BY <1>16, <3>2, <3>3
  <2> HIDE DEF through
  <2>5. GatewayTypes'
    BY <1>1, <1>6, <1>12, <2>1, <2>2, GuestMoves DEF GatewayInv, GatewayTypes, rightVars
  <2>6. OnItsWay'
    <3>1. /\ through.route \in DOMAIN Doors[door] /\ through.at <= Len(Chain(door, through.route))
          /\ through.at # 0 /\ through.verb \in Doors[door][through.route].verbs
      BY <1>2, <2>3
    <3>2. door' = door
      BY <1>1
    <3> QED BY <1>11, <2>1, <2>2, <3>1, <3>2, WayKept DEF GatewayInv
  <2>7. LacksAreMet' /\ RightsAreSeen'
    <3>1. p.at > 2
      BY <1>2, <1>9 DEF WayKnown
    <3>2. Guarded(through) /\ Welcome(through)
      BY <2>3, <2>4, <3>1 DEF Guarded, Welcome
    <3> QED BY <1>1, <2>1, <2>2, <3>2, LacksKept DEF GatewayInv
  <2>8. NeverTurnedAway'
    <3>1. Justly(through)
      BY <2>3 DEF Justly
    <3> QED BY <1>1, <2>1, <2>2, <3>1, TurningKept DEF GatewayInv
  <2>9. ViewsCounted'
    <3>3. m # "link"
      BY <1>2, <1>7, <1>9 DEF WayKnown
    <3>1. shown' = shown
      BY <1>6, <3>3 DEF GatewayInv, GatewayTypes
    <3>2. ~AtView(through)
      BY <2>3 DEF AtView
    <3> QED BY <1>1, <1>5, <2>1, <2>2, <3>1, <3>2, ViewsKept DEF GatewayInv
  <2> QED BY <2>5, <2>6, <2>7, <2>8, <2>9 DEF GatewayInv
<1>10. CASE Passes(m, q) /\ p.at # Len(Chain(door, p.route))
  <2>1. guest' = [guest EXCEPT ![g] = onward]
    BY <1>4, <1>10, <1>18 DEF Let
  <2>2. q.at + 1 \in 0 .. 8 /\ q.at + 1 <= Len(Chain(door, p.route))
    <3>1. Len(Chain(door, p.route)) \in 4 .. 8
      BY <1>2 DEF WayKnown
    <3>2. p.at \in 1 .. 8 /\ p.at <= Len(Chain(door, p.route)) /\ p.at # Len(Chain(door, p.route))
      BY <1>2, <1>10
    <3>3. p.at + 1 \in 0 .. 8 /\ p.at + 1 <= Len(Chain(door, p.route))
      BY <3>1, <3>2, OneFurther
    <3> QED BY <1>4, <3>3
  <2>3. onward \in GuestRecords
    BY <1>4, <2>2 DEF GuestRecords
  <2>4. /\ onward.at = p.at + 1 /\ onward.route = p.route /\ onward.out = "none"
        /\ onward.entitled = p.entitled /\ onward.in = q.in /\ onward.verb = p.verb
    BY <1>4 DEF GuestRecords
  <2>5. Goes(m, p, q, onward)
    BY <1>1, <1>2, <1>3, <1>4, <1>10, <1>15 DEF Goes, GuestRecords
  <2> HIDE DEF onward
  <2>6. ASSUME NEW y \in Accounts, y \notin p.entitled, onward.at > 2 => onward.in = y
        PROVE  Barred(onward, y)
    <3>1. p.at > 1 => q.in = y
      BY <1>2, <2>4, <2>6
    <3>2. Barred(p, y)
      BY <1>16, <2>6, <3>1
    <3> QED BY <1>4, <2>5, <3>1, <3>2, BarredMet DEF GatewayInv
  <2>7. GatewayTypes'
    BY <1>1, <1>6, <1>12, <2>1, <2>3, GuestMoves DEF GatewayInv, GatewayTypes, rightVars
  <2>8. OnItsWay'
    BY <1>1, <1>2, <1>4, <2>1, <2>2, <2>3, <2>4, <1>11, WayKept DEF GatewayInv
  <2>9. LacksAreMet' /\ RightsAreSeen'
    <3>1. Guarded(onward)
      BY <2>4, <2>6 DEF Guarded
    <3>2. Welcome(onward)
      BY <1>13, <2>5, ReadyMet DEF Welcome, GatewayInv
    <3> QED BY <1>1, <2>1, <2>3, <3>1, <3>2, LacksKept DEF GatewayInv
  <2>10. NeverTurnedAway'
    <3>1. Justly(onward)
      BY <2>4 DEF Justly
    <3> QED BY <1>1, <2>1, <2>3, <3>1, TurningKept DEF GatewayInv
  <2>11. ViewsCounted'
    <3>1. AtView(onward) <=> m = "link"
      BY SMTT(20), <1>2, <1>4, <1>7, <2>2, <2>4 DEF AtView, WayKnown
    <3>2. CASE m # "link"
      <4>1. shown' = shown
        BY <1>6, <3>2 DEF GatewayInv, GatewayTypes
      <4> QED BY <1>1, <1>5, <2>1, <2>3, <3>1, <3>2, <4>1, ViewsKept DEF GatewayInv
    <3>3. CASE m = "link"
      <4>1. shown' = shown + 1
        BY <1>6, <1>10, <3>3 DEF Passes, LinkPasses
      <4>2. Cardinality(Viewing') = Cardinality(Viewing) + 1
        BY <1>1, <1>5, <2>1, <2>3, <3>1, <3>3, ViewingCounted DEF GatewayInv
      <4>3. views' = views /\ unseen' = unseen
        BY <1>1
      <4>4. Cardinality(Viewing) \in Nat
        BY ViewingFinite
      <4>5. views + unseen + Cardinality(Viewing) = shown
        BY DEF GatewayInv, ViewsCounted, Viewing
      <4>6. views' + unseen' + Cardinality(Viewing') = shown'
        BY <4>1, <4>2, <4>3, <4>4, <4>5 DEF GatewayInv, GatewayTypes
      <4> QED BY <4>6 DEF ViewsCounted, Viewing
    <3> QED BY <3>2, <3>3
  <2> QED BY <2>7, <2>8, <2>9, <2>10, <2>11 DEF GatewayInv
<1> QED BY <1>8, <1>9, <1>10

LEMMA ViewSafe ==
  ASSUME GatewayInv, NEW g \in Guests, View(g)
  PROVE  GatewayInv'
<1> DEFINE p == guest[g]
<1> DEFINE n == [p EXCEPT !.out = "served"]
<1>1. /\ p \in GuestRecords /\ p.at > 0 /\ p.out = "none" /\ At(g) = "view" /\ g \in Viewing
      /\ UNCHANGED <<rightVars, on, shown, knocks>> /\ door' = door
  BY DEF GatewayInv, GatewayTypes, View, Running, rightVars, Viewing
<1>2. /\ p.verb \in Doors[door][p.route].verbs
      /\ p.route \in DOMAIN Doors[door] /\ knocks > 0 /\ p.at <= Len(Chain(door, p.route))
      /\ At(g) = Chain(door, p.route)[p.at] /\ WayKnown(door, p.route) /\ p.at \in 1 .. 8
  BY <1>1, WaysKnown DEF GatewayInv, GatewayTypes, OnItsWay, At, GuestRecords
<1>3. door = "share" /\ p.at = 6 /\ Len(Chain(door, p.route)) = 6 /\ p.route = "share"
  BY SMTT(20), <1>1, <1>2 DEF WayKnown
<1>4. guest' = [guest EXCEPT ![g] = n]
  BY <1>3 DEF View, Let
<1>5. n \in GuestRecords
  BY <1>1 DEF GuestRecords
<1>6. /\ n.at = p.at /\ n.route = p.route /\ n.out = "served" /\ n.entitled = p.entitled
      /\ n.in = p.in /\ n.verb = p.verb
  BY <1>1 DEF GuestRecords
<1>7. p.in \in p.entitled
  <2>1. \A x \in Accounts : ~Barred(p, x)
    BY <1>3 DEF Barred, NoLogin, NoToken, NoStaff, NoStepUp, NoAccount, NoMember, NoRole,
                NoGrant, NoTrial, PublicRoutes, OwnLogin, Creates
  <2> QED BY <1>1, <2>1 DEF GatewayInv, LacksAreMet, Guarded, GuestRecords
<1> HIDE DEF n
<1>8. \/ views' = views + 1 /\ unseen' = unseen
      \/ unseen' = unseen + 1 /\ views' = views
  BY DEF View, Counts
<1>9. GatewayTypes'
  BY <1>1, <1>4, <1>5, <1>8, GuestMoves DEF GatewayInv, GatewayTypes, rightVars
<1>10. OnItsWay'
  <2>1. /\ n.route \in DOMAIN Doors[door] /\ n.at <= Len(Chain(door, n.route)) /\ n.at # 0
        /\ n.verb \in Doors[door][n.route].verbs
        /\ knocks' \in Nat /\ knocks' >= knocks /\ knocks' > 0
    BY <1>1, <1>2, <1>6 DEF GatewayInv, GatewayTypes
  <2> QED BY <1>1, <1>4, <1>5, <2>1, WayKept DEF GatewayInv
<1>11. LacksAreMet' /\ RightsAreSeen'
  <2>1. Guarded(n) /\ Welcome(n)
    BY <1>3, <1>6, <1>7 DEF Guarded, Welcome
  <2> QED BY <1>1, <1>4, <1>5, <2>1, LacksKept DEF GatewayInv
<1>12. NeverTurnedAway'
  <2>1. Justly(n)
    BY <1>6 DEF Justly
  <2> QED BY <1>1, <1>4, <1>5, <2>1, TurningKept DEF GatewayInv
<1>13. ViewsCounted'
  <2>1. ~AtView(n)
    BY <1>6 DEF AtView
  <2>2. Cardinality(Viewing') = Cardinality(Viewing) - 1
    BY <1>1, <1>4, <1>5, <2>1, ViewingCounted DEF GatewayInv
  <2>3. views + unseen + Cardinality(Viewing) = shown /\ Cardinality(Viewing) \in Nat
    BY ViewingFinite DEF GatewayInv, ViewsCounted, Viewing
  <2>4. views' + unseen' + Cardinality(Viewing') = shown'
    BY <1>1, <1>8, <2>2, <2>3 DEF GatewayInv, GatewayTypes
  <2> QED BY <2>4 DEF ViewsCounted, Viewing
<1> QED BY <1>9, <1>10, <1>11, <1>12, <1>13 DEF GatewayInv

LEMMA DepartSafe ==
  ASSUME GatewayInv, NEW g \in Guests, Depart(g)
  PROVE  GatewayInv'
<1> DEFINE n == Outside
<1>1. /\ guest' = [guest EXCEPT ![g] = n] /\ UNCHANGED <<rightVars, on, views, shown, knocks>>
      /\ door' = door /\ unseen' = unseen + (IF g \in Viewing THEN 1 ELSE 0)
  BY DEF Depart, rightVars, Viewing
<1>2. n \in GuestRecords /\ n.at = 0 /\ n.out = "none"
  BY OutsideKnown DEF Outside
<1>8. ~(n.at > 0) /\ Guarded(n) /\ Welcome(n) /\ Justly(n)
  BY DEF Outside, Guarded, Welcome, Justly
<1> HIDE DEF n
<1>3. GatewayTypes'
  BY <1>1, <1>2, GuestMoves DEF GatewayInv, GatewayTypes, rightVars
<1>4. OnItsWay'
  <2>1. knocks' \in Nat /\ knocks' >= knocks
    BY <1>1 DEF GatewayInv, GatewayTypes
  <2> QED BY <1>1, <1>2, <1>8, <2>1, WayKept DEF GatewayInv
<1>5. LacksAreMet' /\ RightsAreSeen'
  BY <1>1, <1>2, <1>8, LacksKept DEF GatewayInv
<1>6. NeverTurnedAway'
  BY <1>1, <1>2, <1>8, TurningKept DEF GatewayInv
<1>7. ViewsCounted'
  <2>1. ~AtView(n)
    BY <1>2 DEF AtView
  <2>2. Cardinality(Viewing') = Cardinality(Viewing) - (IF g \in Viewing THEN 1 ELSE 0)
    <3>1. CASE g \in Viewing
      <4>1. Cardinality(Viewing') = Cardinality(Viewing) - 1
        BY <1>1, <1>2, <2>1, <3>1, ViewingCounted DEF GatewayInv
      <4> QED BY <3>1, <4>1
    <3>2. CASE g \notin Viewing
      <4>1. Cardinality(Viewing') = Cardinality(Viewing)
        BY <1>1, <1>2, <2>1, <3>2, ViewingCounted DEF GatewayInv
      <4> QED BY <3>2, <4>1, ViewingFinite
    <3> QED BY <3>1, <3>2
  <2>3. views + unseen + Cardinality(Viewing) = shown /\ Cardinality(Viewing) \in Nat
    BY ViewingFinite DEF GatewayInv, ViewsCounted, Viewing
  <2>4. views' + unseen' + Cardinality(Viewing') = shown'
    BY <1>1, <2>2, <2>3 DEF GatewayInv, GatewayTypes
  <2> QED BY <2>4 DEF ViewsCounted, Viewing
<1> QED BY <1>3, <1>4, <1>5, <1>6, <1>7 DEF GatewayInv

LEMMA ViewsStay ==
  ASSUME ViewsCounted, UNCHANGED <<door, guest, views, shown, unseen>>
  PROVE  ViewsCounted'
<1>1. {g \in Guests : Running(g) /\ At(g) = "view"}' = {g \in Guests : Running(g) /\ At(g) = "view"}
  BY DEF Running, At, Chain
<1> QED BY <1>1 DEF ViewsCounted

LEMMA IssuedSafe ==
  ASSUME GatewayInv, NEW scopes, Issued(scopes)
  PROVE  GatewayInv'
<1>1. \A g \in Guests : guest[g].at = 0
  BY DEF GatewayInv, OnItsWay, Issued, GatewayTypes, GuestRecords
<1>2. GatewayTypes'
  BY DEF GatewayInv, GatewayTypes, Issued
<1>6. \A g \in Guests : guest[g].out = "none"
  BY <1>1 DEF GatewayInv, OnItsWay
<1>3. OnItsWay' /\ NeverTurnedAway'
  BY <1>1, <1>6 DEF GatewayInv, OnItsWay, NeverTurnedAway, Issued, Chain
<1>4. LacksAreMet' /\ RightsAreSeen'
  BY <1>1 DEF LacksAreMet, Guarded, RightsAreSeen, Welcome, Issued
<1>5. ViewsCounted'
  BY ViewsStay DEF GatewayInv, Issued
<1> QED BY <1>2, <1>3, <1>4, <1>5 DEF GatewayInv

LEMMA StillSafe ==
  ASSUME GatewayInv, UNCHANGED gateVars
  PROVE  GatewayInv'
<1> USE DEF gateVars, rightVars
<1>1. GatewayTypes' /\ OnItsWay'
  BY DEF GatewayInv, GatewayTypes, OnItsWay, Chain
<1>4. NeverTurnedAway'
  BY DEF GatewayInv, NeverTurnedAway, Entitled, AccountOpen, AccountPaid, Grants
<1>2. LacksAreMet' /\ RightsAreSeen'
  BY DEF GatewayInv, LacksAreMet, Guarded, Barred, NoLogin, NoToken, NoStaff, NoStepUp, NoAccount,
         NoMember, NoRole, NoGrant, NoTrial, RightsAreSeen, Welcome, Ready, AccountOpen,
         AccountPaid, Grants, normalizeScopes
<1>3. ViewsCounted'
  BY ViewsStay DEF GatewayInv
<1> QED BY <1>1, <1>2, <1>3, <1>4 DEF GatewayInv

\* Nothing withdrawn gives a right back.
LEMMA WithdrawalSafe ==
  ASSUME GatewayInv, Withdrawal
  PROVE  GatewayInv'
<1>1. /\ UNCHANGED <<guest, on, views, shown, unseen, knocks, door, asked, staff>>
      /\ \A g \in Guests : guest[g].out = "none"
  BY DEF Withdrawal, SignedOut, apiKeyRevoke, shareRevoke, Ends, Demote, Close, Lapse, StepUpEnds
<1>2. /\ cred' = cred \/ (cred = "live" /\ cred' = "ended")
      /\ fresh' \in BOOLEAN /\ open' \in BOOLEAN /\ paid' \in BOOLEAN
      /\ (fresh' => fresh) /\ (open' => open) /\ (paid' => paid)
  <2>1. fresh \in BOOLEAN /\ open \in BOOLEAN /\ paid \in BOOLEAN
    BY DEF GatewayInv, GatewayTypes
  <2>2. CASE Ends
    BY <2>1, <2>2 DEF Ends
  <2>3. CASE Demote
    BY <2>1, <2>3 DEF Demote
  <2>4. CASE Close
    BY <2>1, <2>4 DEF Close
  <2>5. CASE Lapse
    BY <2>1, <2>5 DEF Lapse
  <2>6. CASE StepUpEnds
    BY <2>1, <2>6 DEF StepUpEnds
  <2> QED BY <2>2, <2>3, <2>4, <2>5, <2>6 DEF Withdrawal, SignedOut, apiKeyRevoke, shareRevoke
<1>3. /\ held' \in [Accounts -> GuestRoles \cup {"none"}]
      /\ \A x \in Accounts : held[x] = "none" => held'[x] = "none"
      /\ \A x \in Accounts : \A a : Allowed(held'[x], a) => Allowed(held[x], a)
  <2>1. CASE held' = held
    BY <2>1 DEF GatewayInv, GatewayTypes
  <2>2. CASE Demote
    <3>1. "none" \notin DOMAIN roleMatrix
      BY DEF roleMatrix
    <3>2. PICK less \in GuestRoles \cup {"none"} :
             /\ less # "none" => roleMatrix[less] \subseteq roleMatrix[held.here]
             /\ held' = [held EXCEPT !.here = less]
      BY <2>2 DEF Demote
    <3>3. /\ held["here"] \in DOMAIN roleMatrix /\ held["here"] # "none" /\ "here" \in Accounts
          /\ held \in [Accounts -> GuestRoles \cup {"none"}]
      BY <2>2, GatewayAssumption DEF Demote, GatewayInv, GatewayTypes, Accounts
    <3>4. \A x \in Accounts : held'[x] = IF x = "here" THEN less ELSE held[x]
      BY <3>2, <3>3
    <3>5. less # "none" => roleMatrix[less] \subseteq roleMatrix[held["here"]]
      BY <3>2
    <3>6. \A a : Allowed(less, a) => Allowed(held["here"], a)
      BY <3>1, <3>3, <3>5 DEF Allowed
    <3>7. held' \in [Accounts -> GuestRoles \cup {"none"}]
      BY <3>2, <3>3
    <3>8. ASSUME NEW x \in Accounts PROVE /\ held[x] = "none" => held'[x] = "none"
                                         /\ \A a : Allowed(held'[x], a) => Allowed(held[x], a)
      <4>1. CASE x = "here"
        BY <3>3, <3>4, <3>6, <4>1
      <4>2. CASE x # "here"
        BY <3>4, <4>2
      <4> QED BY <4>1, <4>2
    <3> QED BY <3>7, <3>8
  <2> QED BY <2>1, <2>2 DEF Withdrawal, SignedOut, apiKeyRevoke, shareRevoke, Ends, Close, Lapse,
       StepUpEnds
<1>8. \A x \in Accounts : (AccountOpen(x)' => AccountOpen(x)) /\ (AccountPaid(x)' => AccountPaid(x))
  BY <1>2 DEF AccountOpen, AccountPaid
<1>4. GatewayTypes'
  BY <1>1, <1>2, <1>3 DEF GatewayInv, GatewayTypes
<1>5. OnItsWay' /\ NeverTurnedAway'
  BY <1>1 DEF GatewayInv, OnItsWay, NeverTurnedAway, Chain
<1>6. LacksAreMet'
  <2> SUFFICES ASSUME NEW h \in Guests PROVE Guarded(guest[h])'
    BY DEF LacksAreMet
  <2>2. ASSUME NEW x \in Accounts, Barred(guest[h], x) PROVE Barred(guest[h], x)'
    <3>1. /\ held[x] = "none" => held'[x] = "none"
          /\ \A a : Allowed(held'[x], a) => Allowed(held[x], a)
      BY <1>3
    <3>2. (AccountOpen(x)' => AccountOpen(x)) /\ (AccountPaid(x)' => AccountPaid(x))
      BY <1>8
    <3>3. NoLogin(guest[h]) => NoLogin(guest[h])'
      BY <1>1, <1>2 DEF NoLogin
    <3>4. /\ NoToken(guest[h]) => NoToken(guest[h])'
          /\ NoStaff(guest[h]) => NoStaff(guest[h])'
          /\ NoStepUp(guest[h]) => NoStepUp(guest[h])'
          /\ NoGrant(guest[h]) => NoGrant(guest[h])'
      BY <1>1, <1>2 DEF NoToken, NoStaff, NoStepUp, NoGrant, Grants
    <3>5. NoAccount(guest[h], x) => NoAccount(guest[h], x)'
      BY <1>1, <3>2 DEF NoAccount
    <3>6. NoMember(guest[h], x) => NoMember(guest[h], x)'
      BY <1>1, <3>1 DEF NoMember
    <3>7. NoRole(guest[h], x) => NoRole(guest[h], x)'
      BY <1>1, <3>1 DEF NoRole
    <3>8. NoTrial(guest[h], x) => NoTrial(guest[h], x)'
      BY <1>1, <3>2 DEF NoTrial
    <3> QED BY <2>2, <3>3, <3>4, <3>5, <3>6, <3>7, <3>8 DEF Barred
  <2>3. Guarded(guest[h])
    BY DEF GatewayInv, LacksAreMet
  <2> QED BY <1>1, <2>2, <2>3 DEF Guarded
<1>9. RightsAreSeen'
  <2> SUFFICES ASSUME NEW h \in Guests, Ready(guest[h]) PROVE Ready(guest[h])'
    BY <1>1 DEF RightsAreSeen, Welcome, GatewayInv
  <2>1. guest[h].in \in Accounts /\ guest'[h] = guest[h]
    BY <1>1 DEF GatewayInv, GatewayTypes, GuestRecords
  <2>2. PICK x \in Accounts : x = guest[h].in
    BY <2>1
  <2>3. /\ held[x] = "none" => held'[x] = "none"
        /\ \A a : Allowed(held'[x], a) => Allowed(held[x], a)
    BY <1>3
  <2>4. (AccountOpen(x)' => AccountOpen(x)) /\ (AccountPaid(x)' => AccountPaid(x))
    BY <1>8
  <2>5. AccountOpen(guest[h].in)' = AccountOpen(x)' /\ AccountPaid(guest[h].in)' = AccountPaid(x)'
    BY <2>1, <2>2 DEF AccountOpen, AccountPaid
  <2>6. normalizeScopes(asked)' = normalizeScopes(asked)
    BY <1>1 DEF normalizeScopes
  <2> QED BY <1>1, <1>2, <2>1, <2>2, <2>3, <2>4, <2>5, <2>6 DEF Ready
<1>7. ViewsCounted'
  BY <1>1, ViewsStay DEF GatewayInv
<1> QED BY <1>4, <1>5, <1>6, <1>7, <1>9 DEF GatewayInv

LEMMA GatewayStart ==
  ASSUME GatewayInit
  PROVE  GatewayInv
<1>1. \A g \in Guests : guest[g] = Outside
  BY DEF GatewayInit
<1>2. Outside.at = 0 /\ Outside.out = "none" /\ Outside \in GuestRecords
  BY OutsideKnown DEF Outside
<1>3. GatewayTypes
  <2>1. cred \in {"none", "pending", "live", "ended"}
    BY DEF GatewayInit
  <2>2. staff \in BOOLEAN /\ fresh \in BOOLEAN
    BY DEF GatewayInit
  <2>3. guest \in [Guests -> GuestRecords]
    BY <1>2 DEF GatewayInit
  <2>4. held \in [Accounts -> GuestRoles \cup {"none"}] /\ on \in Accounts \cup {"none"}
    <3>1. PICK h \in GuestRoles, k \in {"none"} \cup GuestRoles : held = [here |-> h, home |-> k]
      BY DEF GatewayInit
    <3>2. held \in [Accounts -> GuestRoles \cup {"none"}]
      BY <3>1 DEF Accounts
    <3>3. on \in {"here", "none"}
      BY DEF GatewayInit
    <3> QED BY <3>2, <3>3 DEF Accounts
  <2> QED BY <2>1, <2>2, <2>3, <2>4, GatewayAssumption DEF GatewayInit, GatewayTypes
<1>4. OnItsWay /\ LacksAreMet /\ RightsAreSeen /\ NeverTurnedAway
  BY <1>1, <1>2 DEF OnItsWay, LacksAreMet, Guarded, RightsAreSeen, Welcome, NeverTurnedAway
<1>5. ViewsCounted
  <2>1. {g \in Guests : Running(g) /\ At(g) = "view"} = {}
    BY <1>1, <1>2 DEF Running
  <2> QED BY <2>1, FS_EmptySet DEF ViewsCounted, GatewayInit
<1> QED BY <1>3, <1>4, <1>5 DEF GatewayInv

LEMMA GatewayStep ==
  ASSUME GatewayInv, [GatewayNext]_gateVars
  PROVE  GatewayInv'
  BY KnockSafe, MiddlewareSafe, ViewSafe, DepartSafe, IssuedSafe, WithdrawalSafe, StillSafe
     DEF GatewayNext, apiKeyCreate, shareCreate

LEMMA GatewayInvEnough ==
  ASSUME GatewayInv
  PROVE  GatewaySafe
<1>1. GatewayTypeOK
  BY DEF GatewayInv, GatewayTypes, GatewayTypeOK, GuestRecords
<1>2. ServedEntitled
  <2> SUFFICES ASSUME NEW g \in Guests, Served(g), guest[g].in \notin guest[g].entitled PROVE FALSE
    BY DEF ServedEntitled
  <2>1. guest[g].in \in Accounts /\ Guarded(guest[g])
    BY DEF GatewayInv, GatewayTypes, GuestRecords, LacksAreMet
  <2> QED BY <2>1 DEF Guarded, Served
<1> QED BY <1>1, <1>2 DEF GatewayInv, GatewaySafe

\* A handler is reached only by a request that had, when it arrived, the right to it in the account
\* it is served in, whatever is withdrawn meanwhile and also when the session falls back to another
\* account; a request that still has every right is turned away by nothing but a lapsed trial before
\* the routes of Tidies; the views of a share link are counted (Router, v1Router, mobileRouter,
\* LoadCurrentAccount, Resolve).
THEOREM HandlersAreGuarded == GatewaySpec => []GatewaySafe
<1>1. GatewayInv /\ [GatewayNext]_gateVars => GatewayInv'
  BY GatewayStep
<1>2. GatewayInv => GatewaySafe
  BY GatewayInvEnough
<1> QED BY <1>1, <1>2, GatewayStart, PTL DEF GatewaySpec

=============================================================================
