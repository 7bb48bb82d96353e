------------------------------ MODULE MCAccess ------------------------------
(***************************************************************************)
(* How people get into an account and what they may do in it, for model      *)
(* checking.  The parts share no row: a sign-up makes a user, a session names *)
(* its user, and the middleware reads the membership and the rights of that   *)
(* user afresh in every request.  A behaviour of several parts is therefore an            *)
(* interleaving of one of each, every property speaks of one part, and each   *)
(* part is explored with the others at rest.                                 *)
(***************************************************************************)
EXTENDS Membership, SignIn, SignUp, OAuthFlow, Gateway

VARIABLE part      \* the part this behaviour is about

vars == <<part, memberVars, signVars, signUpVars, oauthVars, gateVars>>

\* A part at rest is explored from one of its initial states only, and the fallback to
\* another account with a session that is signed in and not staff.
Init ==
    /\ part \in {"members", "signIn", "signUp", "oauth", "gateway"}
    /\ MembersInit
    /\ SignInInit /\ (part # "signIn" => ~mfa)
    /\ SignUpInit /\ (part # "signUp" => ~staffListed)
    /\ OAuthInit /\ (part # "oauth" => who = "nobody")
    /\ GatewayInit
    /\ part # "gateway" => /\ door = "web" /\ cred = "none" /\ ~staff /\ on = "here"
                           /\ held = [here |-> "owner", home |-> "none"]
    /\ held.home # "none" \/ on = "none" => cred = "live" /\ ~staff

Next ==
    /\ UNCHANGED part
    /\ \/ part = "members" /\ MembersNext /\ UNCHANGED <<signVars, signUpVars, oauthVars, gateVars>>
       \/ part = "signIn" /\ SignInNext /\ UNCHANGED <<memberVars, signUpVars, oauthVars, gateVars>>
       \/ part = "signUp" /\ SignUpNext /\ UNCHANGED <<memberVars, signVars, oauthVars, gateVars>>
       \/ part = "oauth" /\ OAuthNext /\ UNCHANGED <<memberVars, signVars, signUpVars, gateVars>>
       \/ part = "gateway" /\ GatewayNext /\ UNCHANGED <<memberVars, signVars, signUpVars, oauthVars>>

Spec == Init /\ [][Next]_vars

=============================================================================
