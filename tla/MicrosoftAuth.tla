---------------------------- MODULE MicrosoftAuth ----------------------------
(***************************************************************************)
(* authenticate() of a MicrosoftAuthenticationToken: the chain of tokens   *)
(* that MicrosoftAuthFlow follows, its caches on disk and its retries,     *)
(* while tokens expire or are revoked, services fail, the user declines    *)
(* and the program crashes, also inside of a write of a cache file.        *)
(*                                                                         *)
(* A token is "none", "old" (cached by an earlier call), "new" (obtained   *)
(* by this call), "expired" or "revoked".  A revoked token looks valid.    *)
(* Tokens live for hours: one that this call has obtained does not expire  *)
(* in it.  An old one may expire at any time: the code counts a token as   *)
(* expired one second early, but requests may take fifteen.  Each call has *)
(* a MicrosoftAuthFlow of its own, which reads the files again and has a   *)
(* key of its own.                                                         *)
(***************************************************************************)
EXTENDS Naturals, FiniteSets

CONSTANT MaxFaults   \* bound on the faults met by one call

VARIABLES cache,     \* the tokens in the files 'live', 'xbl' and 'mca'
          refresh,   \* whether the refresh token in 'live' is still accepted
          corrupt,   \* the files that were cut off inside of a write
          call       \* the call of authenticate()

authVars == <<cache, refresh, corrupt, call>>

Statuses == {"none", "old", "new", "expired", "revoked"}
Files == [live |-> {"msa"}, xbl |-> {"user", "device", "title", "xsts"},
          mca |-> {"mca"}]
Tokens == UNION {Files[f] : f \in DOMAIN Files}
FileOf(t) == CHOOSE f \in DOMAIN Files : t \in Files[f]

\* get_cached after load_initial_value: a corrupt file is reset to '{}'.
Cached(t) == IF FileOf(t) \in corrupt THEN "none" ELSE cache[t]

\* 'valid' of get_cached_tokens, get_access_token, get_cached_access_token.
LooksValid(t) == Cached(t) \in {"old", "new", "revoked"}

\* set_cached_partial and _write, with the other tokens of the file kept.
Store(t) ==
  /\ cache' = [u \in Tokens |->
                 IF u = t THEN "new"
                 ELSE IF u \in Files[FileOf(t)] THEN Cached(u) ELSE cache[u]]
  /\ corrupt' = corrupt \ {FileOf(t)}

\* External.  Whether the services accept the tokens of a request.
Accepted(tokens) ==
  \A t \in tokens : Cached(t) \in {"old", "new"}

\* Device and title tokens are issued for the ProofKey of the call that has
\* obtained them; the requests of a later call are signed with another key.
OfOtherKey(tokens) ==
  \E t \in tokens \cap {"device", "title"} : Cached(t) = "old"

\* External.  Whether they may reject them; nothing in the code tells whether
\* a service compares the keys.
Rejectable(tokens) == ~Accepted(tokens) \/ OfOtherKey(tokens)

-----------------------------------------------------------------------------
(* _retry, around obtain_tokens (inner) and around obtain_token (outer)     *)

\* A mutant of Times: no second attempt.
TimesOnce == 1

\* The third argument of both calls of _retry.
Times == 2

\* What an exception does to the call c; only the outer loop is left to an
\* exception outside of obtain_tokens.
OuterRaise(c) ==
  IF c.outer > 1 THEN [c EXCEPT !.outer = @ - 1, !.at = "outerSleep"]
                 ELSE [c EXCEPT !.at = "failed"]
InnerRaise(c) ==
  IF c.inner > 1 THEN [c EXCEPT !.inner = @ - 1, !.at = "innerSleep"]
                 ELSE OuterRaise(c)

\* A fault of the network or of a service, or a user that declines.
Faulted(c) == [c EXCEPT !.faults = @ + 1]
MayFault == call.faults < MaxFaults

\* A request with some tokens was rejected.  Only an 'msa' token that can be
\* refreshed is replaced by the retry; the others are used again.
Rejected(c, tokens) ==
  [c EXCEPT !.stuck = \/ @
                      \/ OfOtherKey(tokens)
                      \/ \E t \in tokens \ {"msa"} : Cached(t) = "revoked"
                      \/ "msa" \in tokens /\ Cached("msa") = "revoked"
                         /\ refresh = "dead"]

\* time.sleep(2) and before_retry: force_msa_refresh, which is never undone,
\* and force_xbl_refresh, whose flag is never read.
InnerRetry ==
  /\ call.at = "innerSleep"
  /\ call' = [call EXCEPT !.at = "msa", !.force = TRUE]
  /\ UNCHANGED <<cache, refresh, corrupt>>

OuterRetry ==
  /\ call.at = "outerSleep"
  /\ call' = [call EXCEPT !.at = "xbox"]
  /\ UNCHANGED <<cache, refresh, corrupt>>

-----------------------------------------------------------------------------
(* The chain                                                                *)

NoCall == [at |-> "idle", outer |-> 0, inner |-> 0, closure |-> {},
           force |-> FALSE, faults |-> 0, lapsed |-> {}, stuck |-> FALSE,
           late |-> FALSE, prompts |-> 0, authorised |-> FALSE]

Start ==
  /\ call.at = "idle"
  /\ call' = [NoCall EXCEPT !.at = "mca", !.outer = Times]
  /\ cache' = [t \in Tokens |-> IF cache[t] = "new" THEN "old" ELSE cache[t]]
  /\ UNCHANGED <<refresh, corrupt>>

\* get_minecraft_java_token: mca.verify_tokens().
VerifyMca ==
  /\ call.at = "mca"
  /\ call' = [call EXCEPT !.at = IF LooksValid("mca") THEN "profile" ELSE "xbox"]
  /\ UNCHANGED <<cache, refresh, corrupt>>

\* get_xbox_token: what is valid now goes into the closure of obtain_tokens.
GetXboxToken ==
  /\ call.at = "xbox"
  /\ call' = [call EXCEPT
                !.at = IF LooksValid("xsts") THEN "login" ELSE "msa",
                !.closure = {t \in {"user", "device", "title"} : LooksValid(t)},
                !.inner = Times]
  /\ UNCHANGED <<cache, refresh, corrupt>>

\* refresh_tokens when 'live' has the status s: the status after it, and the
\* faults.  Without a token nothing is requested.
Refreshes(s) ==
  IF s = "none" THEN {<<s, 0>>}
  ELSE {<<IF refresh = "good" THEN "new" ELSE s, 0>>}
         \cup (IF MayFault THEN {<<s, 1>>} ELSE {})

\* A mutant of AfterForced: a refresh that fails ends verify_tokens.
AfterForcedFails(outcome) == IF outcome[2] > 0 THEN "none" ELSE outcome[1]

\* The forced refresh of verify_tokens: an exception is ignored.
AfterForced(outcome) == outcome[1]

\* get_msa_token: msa.verify_tokens().
VerifyMsa ==
  /\ call.at = "msa"
  /\ \E forced \in IF call.force THEN Refreshes(Cached("msa"))
                                 ELSE {<<Cached("msa"), 0>>} :
       LET s == AfterForced(forced)
           valid == s \in {"old", "new", "revoked"}
       IN  \E second \in IF valid \/ s = "none" THEN {<<s, 0>>} ELSE Refreshes(s) :
             /\ call' = [call EXCEPT
                           !.at = IF second[1] \in {"old", "new", "revoked"}
                                  THEN "user" ELSE "ask",
                           !.faults = @ + forced[2] + second[2]]
             /\ IF second[1] = "new" THEN Store("msa") ELSE UNCHANGED <<cache, corrupt>>
  /\ UNCHANGED refresh

\* auth_device_code: the request of a device code, shown to the user.
AskUser ==
  /\ call.at = "ask"
  /\ \/ call' = [call EXCEPT !.at = "poll", !.prompts = @ + 1]
     \/ MayFault /\ call' = InnerRaise(Faulted(call))
  /\ UNCHANGED <<cache, refresh, corrupt>>

\* auth_device_code: the end of the polling.  Answers that the authorization
\* is pending are left out; the code expires in the end.
Poll ==
  /\ call.at = "poll"
  /\ \/ /\ call' = [call EXCEPT !.at = "user", !.authorised = TRUE]
        /\ Store("msa")
        /\ refresh' = "good"
     \/ /\ MayFault
        /\ call' = InnerRaise(Faulted(call))
        /\ UNCHANGED <<cache, refresh, corrupt>>

\* A request of obtain_tokens for t, which needs other tokens; a cached one
\* is taken from the closure.
Obtain(t, needs, next) ==
  /\ call.at = t
  /\ \/ /\ t \in call.closure
        /\ call' = [call EXCEPT !.at = next]
        /\ UNCHANGED <<cache, corrupt>>
     \/ /\ t \notin call.closure /\ Accepted(needs)
        /\ call' = [call EXCEPT !.at = next]
        /\ Store(t)
     \/ /\ t \notin call.closure /\ Rejectable(needs)
        /\ call' = InnerRaise(Rejected(call, needs))
        /\ UNCHANGED <<cache, corrupt>>
     \/ /\ t \notin call.closure /\ MayFault
        /\ call' = InnerRaise(Faulted(call))
        /\ UNCHANGED <<cache, corrupt>>
  /\ UNCHANGED refresh

GetUserToken == Obtain("user", {"msa"}, "device")
GetDeviceToken == Obtain("device", {}, "title")
GetTitleToken == Obtain("title", {"msa", "device"}, "xsts")
GetXstsToken == Obtain("xsts", {"user", "device", "title"}, "login")

\* mca.get_access_token, outside of the inner loop.
GetAccessToken ==
  /\ call.at = "login"
  /\ \/ /\ Accepted({"xsts"})
        /\ call' = [call EXCEPT !.at = "profile"]
        /\ Store("mca")
     \/ /\ ~Accepted({"xsts"})
        /\ call' = OuterRaise(Rejected(call, {"xsts"}))
        /\ UNCHANGED <<cache, corrupt>>
     \/ /\ MayFault
        /\ call' = OuterRaise(Faulted(call))
        /\ UNCHANGED <<cache, corrupt>>
  /\ UNCHANGED refresh

\* fetch_profile and fetch_certificates, outside of both loops.
FetchProfile ==
  /\ call.at = "profile"
  /\ \/ Accepted({"mca"}) /\ call' = [call EXCEPT !.at = "done"]
     \/ /\ ~Accepted({"mca"})
        /\ call' = [Rejected(call, {"mca"}) EXCEPT
                      !.at = "failed", !.late = "mca" \in call.lapsed]
     \/ /\ MayFault
        /\ call' = [Faulted(call) EXCEPT !.at = "failed", !.late = TRUE]
  /\ UNCHANGED <<cache, refresh, corrupt>>

\* authenticate() has returned or raised.
Returns ==
  /\ call.at \in {"done", "failed"}
  /\ call' = NoCall
  /\ UNCHANGED <<cache, refresh, corrupt>>

-----------------------------------------------------------------------------
(* The environment                                                          *)

\* The file that a step writes: open(..., "w") empties it before the dump.
Writing == CASE call.at \in {"msa", "poll"} -> {"live"}
             [] call.at \in {"user", "device", "title", "xsts"} -> {"xbl"}
             [] call.at = "login" -> {"mca"}
             [] OTHER -> {}

Crash ==
  /\ call.at \notin {"idle", "done", "failed"}
  /\ call' = NoCall
  /\ corrupt' \in {corrupt, corrupt \cup Writing}
  /\ UNCHANGED <<cache, refresh>>

\* Time passes, between calls and in a call.
Expire ==
  /\ call.at \notin {"done", "failed"}
  /\ \E t \in Tokens :
       /\ \/ cache[t] = "old"
          \/ cache[t] = "new" /\ call.at = "idle"
       /\ cache' = [cache EXCEPT ![t] = "expired"]
       /\ call' = IF call.at = "idle" THEN call
                  ELSE [call EXCEPT !.lapsed = @ \cup {t}]
  /\ UNCHANGED <<refresh, corrupt>>

Revoke ==
  /\ call.at = "idle"
  /\ \/ /\ \E t \in Tokens : /\ cache[t] \in {"old", "new"}
                              /\ cache' = [cache EXCEPT ![t] = "revoked"]
        /\ UNCHANGED refresh
     \/ refresh' = "dead" /\ UNCHANGED cache
  /\ UNCHANGED <<corrupt, call>>

-----------------------------------------------------------------------------
AuthInit ==
  /\ cache = [t \in Tokens |-> "none"]
  /\ refresh = "good"
  /\ corrupt = {}
  /\ call = NoCall

AuthNext ==
  \/ Start \/ VerifyMca \/ GetXboxToken \/ VerifyMsa \/ AskUser \/ Poll
  \/ GetUserToken \/ GetDeviceToken \/ GetTitleToken \/ GetXstsToken
  \/ GetAccessToken \/ FetchProfile \/ InnerRetry \/ OuterRetry \/ Returns
  \/ Crash \/ Expire \/ Revoke

AuthSpec == AuthInit /\ [][AuthNext]_authVars

-----------------------------------------------------------------------------
\* authenticate() survives what the retries are for, one mishap, whenever it
\* happens: whatever files an earlier crash has cut off, whatever has expired
\* before the call, it fails only after two of a fault or of a token that
\* expires during the call, also between its check and its use; or if the
\* requests after the loops meet one; or because of a token that no retry
\* replaces, one that was revoked or that was issued for an earlier key.
MishapIsSurvived ==
  call.at = "failed" =>
    \/ call.faults >= 2
    \/ call.faults = 1 /\ call.lapsed # {}
    \/ \E t, u \in call.lapsed : t # u
    \/ call.late
    \/ call.stuck

\* The user is asked four times at most, once in each attempt, and never again
\* in a call in which he has authorised the program, also when the refreshes
\* that the retries force are rejected.
UserIsSpared ==
  /\ call.prompts <= 4
  /\ call.at = "ask" => ~call.authorised /\ call.prompts < 4
=============================================================================
