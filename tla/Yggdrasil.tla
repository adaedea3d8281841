------------------------------ MODULE Yggdrasil ------------------------------
(***************************************************************************)
(* An AuthenticationToken of a Mojang account (authentication.py) next to  *)
(* the authentication server, which is external: it issues access tokens,  *)
(* each with a client token, and forgets them.  Requests are rejected,     *)
(* responses are lost after the server has acted, and an account that does *)
(* not own the game gets a response without a profile.                     *)
(***************************************************************************)
EXTENDS Naturals, Sequences

CONSTANTS Accounts,   \* the user names
          Gameless,   \* those that do not own the game
          MaxTokens   \* bound on the access tokens that are issued

ASSUME YggdrasilAssumption == Gameless \subseteq Accounts /\ MaxTokens \in Nat

VARIABLES token,     \* the attributes of the AuthenticationToken; 0, none: None
          issued,    \* external: the account and client token of each access token
          accepted,  \* external: the access tokens that the server accepts
          partial    \* the last response that was used had no profile

tokenVars == <<token, issued, accepted, partial>>

NoToken == [username |-> "none", access_token |-> 0, client_token |-> 0,
            profile |-> "none"]

\* The property 'authenticated'.
Authenticated ==
  \A attribute \in DOMAIN token : token[attribute] # NoToken[attribute]

OfAccount(a) == {n \in DOMAIN issued : issued[n].account = a}

\* The assignments from a response; without 'selectedProfile' a KeyError is
\* raised between those of the tokens and those of the profile.
Assigned(username, response) ==
  [username |-> username, access_token |-> response.access,
   client_token |-> response.client,
   profile |-> IF response.account \in Gameless THEN token.profile
               ELSE response.account]

\* External.  The server issues a token for account a under client token c
\* and drops some others; the response is lost or reaches the program.
Issues(a, c, drops, username) ==
  LET n == Len(issued) + 1
  IN  /\ n <= MaxTokens
      /\ issued' = Append(issued, [account |-> a, client |-> c])
      /\ accepted' = (accepted \ drops) \cup {n}
      /\ \/ UNCHANGED <<token, partial>>
         \/ /\ token' = Assigned(username,
                                 [account |-> a, access |-> n, client |-> c])
            /\ partial' = (a \in Gameless)

\* authenticate(username, password, invalidate_previous).  A client token
\* made with uuid4, by the program or the server, is unlike all others.
Authenticate ==
  \E a \in Accounts, invalidate_previous \in BOOLEAN :
    Issues(a,
           IF ~invalidate_previous /\ token.client_token # 0
           THEN token.client_token ELSE Len(issued) + 1,
           IF invalidate_previous THEN OfAccount(a) ELSE {}, a)

\* A mutant of AuthenticateRejected: the name is set before the request.
AuthenticateRejectedNamed ==
  \E a \in Accounts :
    /\ token' = [token EXCEPT !.username = a]
    /\ UNCHANGED <<issued, accepted, partial>>

\* authenticate() of an account whose password is rejected, or a fault.
AuthenticateRejected ==
  \E a \in Accounts : UNCHANGED tokenVars

\* refresh(): ValueError without tokens, YggdrasilError when rejected.
Refresh ==
  IF token.access_token \in accepted /\ token.client_token # 0
     /\ issued[token.access_token].client = token.client_token
  THEN Issues(issued[token.access_token].account, token.client_token,
              {token.access_token}, token.username)
  ELSE UNCHANGED tokenVars

\* invalidate() and sign_out(): the attributes stay as they are.
Invalidate ==
  /\ accepted' = accepted \ {token.access_token}
  /\ UNCHANGED <<token, issued, partial>>

SignOut ==
  \E a \in Accounts :
    /\ accepted' = accepted \ OfAccount(a)
    /\ UNCHANGED <<token, issued, partial>>

TokenInit ==
  /\ token = NoToken
  /\ issued = <<>>
  /\ accepted = {}
  /\ partial = FALSE

TokenNext ==
  \/ Authenticate \/ AuthenticateRejected \/ Refresh \/ Invalidate \/ SignOut

TokenSpec == TokenInit /\ [][TokenNext]_tokenVars

-----------------------------------------------------------------------------
\* What join() sends belongs together: the access token was issued with the
\* client token, to the account of the profile and of the user name, whatever
\* requests were rejected, lost or made for other accounts before.  A response
\* without a profile breaks it until the next one with a profile: the tokens
\* are set by then, and the profile is that of the account before.
IdentityIsWhole ==
  Authenticated =>
    LET of == issued[token.access_token]
    IN  /\ of.client = token.client_token
        /\ of.account = token.username
        /\ ~partial => token.profile = of.account
=============================================================================
