------------------------------- MODULE Devices -------------------------------
(***************************************************************************)
(* Push notifications: the registry of devices (user_fcm_tokens, one row    *)
(* per token of Firebase), which phones register on every launch and delete *)
(* on sign-out, and the sender, which reads the rows of an account, gets an *)
(* access token and posts to each device in turn.                           *)
(***************************************************************************)
EXTENDS Naturals, FiniteSets

CONSTANTS
    Phones,        \* tokens of Firebase; a row keeps its id for as long as it exists
    Holders,        \* users, each signed in to an account of the same name
    Lifetime,      \* expires_in of an access token
    Margin,        \* a token this close to its end is not used again
    MaxMoment,     \* bound: the last moment
    MaxPushes      \* bound: notifications that are sent

\* Google's tokens outlive the margin by far.
ASSUME DevicesAssumption ==
    {Lifetime, Margin, MaxMoment, MaxPushes} \subseteq Nat /\ Margin < Lifetime

VARIABLES
    moment,
    bound,         \* the row of each token: the user it is bound to, or "none"
    latest,        \* history: who registered the phone last and has not deleted it
    deleting,      \* DELETE requests on their way: {<<user, phone>>}
    access,        \* the cached access token: when it ends, 0 without one
    push,          \* the notification that is being sent
    pushes

deviceVars == <<moment, bound, latest, deleting, access, push, pushes>>

NoPush == [phase |-> "none", to |-> "none", todo |-> {}, listed |-> {}, tried |-> {},
           token |-> 0, began |-> 0]

DevicesInit ==
    /\ moment = 0
    /\ bound = [d \in Phones |-> "none"]
    /\ latest = [d \in Phones |-> "none"]
    /\ deleting = {} /\ access = 0 /\ push = NoPush /\ pushes = 0

-----------------------------------------------------------------------------
(* The registry. *)

\* The upsert of Register binds the token to whoever registers it.
mobileRegisterDevice(d, u) ==
    /\ bound' = [bound EXCEPT ![d] = u]
    /\ latest' = [latest EXCEPT ![d] = u]
    /\ UNCHANGED <<moment, deleting, access, push, pushes>>

\* A phone asks to delete its row and the request is under way.
SignOutOfPhone(d, u) ==
    /\ latest[d] = u /\ <<u, d>> \notin deleting
    /\ deleting' = deleting \cup {<<u, d>>}
    /\ latest' = [latest EXCEPT ![d] = "none"]
    /\ UNCHANGED <<moment, bound, access, push, pushes>>

\* WHERE id = $1 AND user_id = $2.
Deletes(d, u) == bound[d] = u

\* The request arrives; meanwhile the phone can have been registered again, by somebody
\* else or by the same user, whose own request then takes the new registration with it.
mobileDeleteDevice(d, u) ==
    /\ <<u, d>> \in deleting
    /\ deleting' = deleting \ {<<u, d>>}
    /\ bound' = IF Deletes(d, u) THEN [bound EXCEPT ![d] = "none"] ELSE bound
    /\ latest' = IF latest[d] = u THEN [latest EXCEPT ![d] = "none"] ELSE latest
    /\ UNCHANGED <<moment, access, push, pushes>>

-----------------------------------------------------------------------------
(* The sender. *)

\* NotifyDrill, Notify: TokensForAccount; nothing is sent to nobody.
Notify(u) ==
    /\ push.phase = "none" /\ pushes < MaxPushes
    /\ LET ds == {d \in Phones : bound[d] = u} IN
        /\ ds # {}
        /\ push' = [NoPush EXCEPT !.phase = "token", !.to = u, !.todo = ds, !.listed = ds]
    /\ pushes' = pushes + 1
    /\ UNCHANGED <<moment, bound, latest, deleting, access>>

\* The cached token is used unless it is about to expire.
Usable == access > moment + Margin

Expiry == moment + Lifetime

\* A token that is minted, or cannot be: then nothing is sent.
accessToken ==
    /\ push.phase = "token"
    /\ \/ /\ Usable
          /\ push' = [push EXCEPT !.phase = "send", !.token = access, !.began = moment]
          /\ UNCHANGED access
       \/ /\ ~Usable
          /\ access' = Expiry
          /\ push' = [push EXCEPT !.phase = "send", !.token = Expiry, !.began = moment]
       \/ /\ ~Usable
          /\ push' = NoPush
          /\ UNCHANGED access
    /\ UNCHANGED <<moment, bound, latest, deleting, pushes>>

\* An error of one device is remembered and the loop goes on.
Rest(d, failed) == push.todo \ {d}

sendOne(d) ==
    /\ push.phase = "send" /\ d \in push.todo
    /\ \E failed \in BOOLEAN :
        push' = [push EXCEPT !.todo = Rest(d, failed), !.tried = @ \cup {d}]
    /\ UNCHANGED <<moment, bound, latest, deleting, access, pushes>>

SendReturns ==
    /\ push.phase = "send" /\ push.todo = {}
    /\ push' = NoPush
    /\ UNCHANGED <<moment, bound, latest, deleting, access, pushes>>

MomentPasses ==
    /\ moment < MaxMoment
    /\ moment' = moment + 1
    /\ UNCHANGED <<bound, latest, deleting, access, push, pushes>>

DevicesNext ==
    \/ \E d \in Phones, u \in Holders :
        mobileRegisterDevice(d, u) \/ SignOutOfPhone(d, u) \/ mobileDeleteDevice(d, u)
    \/ \E u \in Holders : Notify(u)
    \/ accessToken
    \/ \E d \in Phones : sendOne(d)
    \/ SendReturns \/ MomentPasses

DevicesSpec == DevicesInit /\ [][DevicesNext]_deviceVars

-----------------------------------------------------------------------------
(* Properties. *)

\* Every variable has its type; a row names no user but a registered one.
DevicesTypeOK ==
    /\ bound \in [Phones -> Holders \cup {"none"}]
    /\ deleting \subseteq Holders \X Phones
    /\ push.phase \in {"none", "token", "send"} /\ push.todo \subseteq push.listed
    /\ access \in 0..MaxMoment + Lifetime

\* The last registration stands: a phone that was handed over belongs to the user who
\* registered it last, and the late sign-out of the user before does not undo it.
LastRegistrationStands ==
    \A d \in Phones : latest[d] # "none" => bound[d] = latest[d]

\* Every device that was listed is tried, whatever happened to those before it.
EveryDeviceTried ==
    push.phase = "send" /\ push.todo = {} => push.tried = push.listed

\* No message is posted with an expired access token unless the loop itself has taken
\* longer than the margin.
TokenOutlivesMargin ==
    push.phase = "send" /\ moment <= push.began + Margin => push.token > moment

\* A phone rings for who registered it last, one dead device does not silence the rest, and no
\* message goes out with an expired token (push.go).
DevicesSafe ==
    /\ DevicesTypeOK /\ LastRegistrationStands /\ EveryDeviceTried
    /\ TokenOutlivesMargin

=============================================================================
