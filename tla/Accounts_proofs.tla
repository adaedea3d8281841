---------------------------- MODULE Accounts_proofs ----------------------------
(***************************************************************************)
(* Proofs about the two kinds of auth_token.  A Microsoft one: the user is *)
(* not asked too often, and a call survives one mishap, for any number of  *)
(* faults.  A Yggdrasil one: its attributes belong together, *)
(* for all sets of accounts and any number of tokens.                      *)
(***************************************************************************)
EXTENDS MicrosoftAuth, Yggdrasil, TLAPS

------------------------------------------------------------------------------
(* MicrosoftAuth.                                                           *)

\* The statuses with which a token looks valid, and the tokens of Xbox Live
\* in the order in which they are requested.
Valid == {"old", "new", "revoked"}
Requests == {"user", "device", "title", "xsts"}

\* The places in the chain: between calls or after the end of one, in
\* obtain_tokens, elsewhere.
Outside == {"idle", "done", "failed"}
Loop == {"msa", "ask", "poll"} \cup Requests
Places == Outside \cup Loop
            \cup {"mca", "xbox", "login", "profile", "innerSleep",
                  "outerSleep"}

Calls ==
  [at : Places, outer : 0..2, inner : 0..2,
   closure : SUBSET {"user", "device", "title"}, force : BOOLEAN,
   faults : Nat, lapsed : SUBSET Tokens, stuck : BOOLEAN, late : BOOLEAN,
   prompts : Nat, authorised : BOOLEAN]

CallType ==
  /\ cache \in [Tokens -> Statuses]
  /\ refresh \in {"good", "dead"}
  /\ corrupt \subseteq DOMAIN Files
  /\ call \in Calls
  /\ call.at = "idle" => call = NoCall
  /\ \A t \in Tokens : t \in call.lapsed => cache[t] # "old"

\* The attempts that are left; the second ones of the inner loop come after
\* 'force_msa_refresh'.
Counted ==
  /\ call.at \notin Outside => call.outer \in {1, 2}
  /\ call.at \in Loop => call.inner \in {1, 2}
  /\ call.at = "mca" => call.outer = 2
  /\ call.at = "innerSleep" => call.inner = 1
  /\ call.at = "outerSleep" => call.outer = 1
  /\ call.at \in Loop /\ call.inner = 1 => call.force

\* The 'msa' token; whether it is not one that only a forced refresh replaces;
\* whether the closure of obtain_tokens is still good, and which token is in it
\* or has been obtained since.
Msa == Cached("msa")
Mended == Msa # "revoked" \/ refresh = "dead"
Kept == \A t \in call.closure : Cached(t) \in Valid
Had(t) == t \in call.closure \/ Cached(t) = "new"

\* The tokens at hand when they are needed.
Held ==
  /\ call.at \in {"device", "title", "xsts"} => Had("user")
  /\ call.at \in {"title", "xsts"} => Had("device")
  /\ call.at = "xsts" => Had("title")
  /\ call.at = "profile" => Cached("mca") \in Valid \/ "mca" \in call.lapsed

\* At most one prompt in each attempt; the token that the user has authorised
\* stays as it is.
Asked ==
  /\ call.authorised => Msa = "new"
  /\ call.at \notin Outside =>
       call.prompts <= 2 * (2 - call.outer)
         + (IF call.at \in {"mca", "xbox", "outerSleep"} THEN 0
            ELSE IF call.at \in {"msa", "ask", "innerSleep"}
                 THEN 2 - call.inner
            ELSE IF call.at \in {"login", "profile"} THEN 2
            ELSE 3 - call.inner)
  /\ call.prompts <= 4
  /\ call.at = "ask" => ~call.authorised

\* Something has happened to the call; but nothing that would excuse it if it
\* failed.
Mishap == call.faults # 0 \/ call.lapsed # {}
NoExcuse ==
  /\ ~call.stuck /\ ~call.late
  /\ \/ call.faults = 0 /\ \A t, u \in call.lapsed : t = u
     \/ call.faults = 1 /\ call.lapsed = {}

\* Nothing stands in the way of this round: what is used of the closure is
\* valid, and so is the 'msa' token, unless one more attempt replaces it.
Sound ==
  /\ call.at \in Loop \cup {"innerSleep"} => Kept
  /\ call.at \in Requests => Msa \in Valid /\ (call.inner = 1 => Mended)
  /\ call.at = "login" => Cached("xsts") \in Valid

\* One mishap is what it takes to leave the first round, and the second one
\* begins with a closure of its own.
Withstood ==
  NoExcuse =>
    /\ call.at # "failed"
    /\ call.outer = 1 /\ call.at \notin Outside => Mishap
    /\ ~Mishap \/ call.outer = 1 => Sound

AuthInv == CallType /\ Counted /\ Held /\ Asked /\ Withstood

\* Which file holds which token.
LEMMA TokensInFiles ==
  /\ DOMAIN Files = {"live", "xbl", "mca"}
  /\ Tokens = {"msa", "user", "device", "title", "xsts", "mca"}
  /\ FileOf("msa") = "live" /\ FileOf("mca") = "mca"
  /\ \A t \in Requests : FileOf(t) = "xbl"
<1>1. /\ DOMAIN Files = {"live", "xbl", "mca"}
      /\ Files["live"] = {"msa"} /\ Files["mca"] = {"mca"}
      /\ Files["xbl"] = Requests
  BY DEF Files, Requests
<1>2. Tokens = {"msa", "user", "device", "title", "xsts", "mca"}
  BY <1>1 DEF Tokens, Requests
<1> QED
  BY <1>1, <1>2 DEF FileOf, Requests

\* What a stored token changes: itself.
LEMMA Stored ==
  ASSUME cache \in [Tokens -> Statuses], NEW t \in Tokens, Store(t)
  PROVE  /\ cache' \in [Tokens -> Statuses]
         /\ corrupt' \subseteq corrupt
         /\ \A u \in Tokens : Cached(u)' = IF u = t THEN "new" ELSE Cached(u)
         /\ \A u \in Tokens : cache'[u] = "old" => cache[u] = "old"
<1> USE TokensInFiles
<1>1. \A u \in Tokens : u \in Files[FileOf(t)] <=> FileOf(u) = FileOf(t)
  BY DEF Files, Requests
<1>2. /\ corrupt' = corrupt \ {FileOf(t)}
      /\ \A u \in Tokens :
            cache'[u] = IF u = t THEN "new"
                        ELSE IF u \in Files[FileOf(t)] THEN Cached(u)
                             ELSE cache[u]
  BY DEF Store
<1>3. \A u \in Tokens : Cached(u) \in Statuses
  BY DEF Cached, Statuses
<1>4. cache' \in [Tokens -> Statuses]
  BY <1>3 DEF Store, Statuses
<1>5. ASSUME NEW u \in Tokens
      PROVE  Cached(u)' = IF u = t THEN "new" ELSE Cached(u)
  <2>1. CASE FileOf(u) = FileOf(t)
    <3>1. Cached(u)' = cache'[u]
      BY <1>2, <2>1 DEF Cached
    <3> QED
      BY <1>1, <1>2, <2>1, <3>1
  <2>2. CASE FileOf(u) # FileOf(t)
    <3>1. FileOf(u) \in corrupt' <=> FileOf(u) \in corrupt
      BY <1>2, <2>2
    <3>2. cache'[u] = cache[u] /\ u # t
      BY <1>1, <1>2, <2>2
    <3> QED
      BY <3>1, <3>2 DEF Cached
  <2> QED
    BY <2>1, <2>2
<1>6. \A u \in Tokens : cache'[u] = "old" => cache[u] = "old"
  BY <1>2 DEF Cached
<1> QED
  BY <1>2, <1>4, <1>5, <1>6

\* What changes nothing.
LEMMA NotStored ==
  ASSUME UNCHANGED <<cache, corrupt>>
  PROVE  \A u \in Tokens : Cached(u)' = Cached(u)
BY DEF Cached

\* An exception leads to the next attempt, the next round, or out.
LEMMA OuterRaised ==
  ASSUME NEW c \in Calls, c.outer \in {1, 2}
  PROVE  \/ /\ c.outer = 2
            /\ OuterRaise(c) = [c EXCEPT !.outer = 1, !.at = "outerSleep"]
         \/ /\ c.outer = 1
            /\ OuterRaise(c) = [c EXCEPT !.at = "failed"]
<1>1. CASE c.outer = 2
  <2>1. c.outer - 1 = 1 /\ c.outer > 1
    BY <1>1
  <2>2. OuterRaise(c) = [c EXCEPT !.outer = c.outer - 1, !.at = "outerSleep"]
    BY <2>1 DEF OuterRaise
  <2> QED
    BY <1>1, <2>1, <2>2, Zenon
<1>2. CASE c.outer = 1
  <2>1. ~(c.outer > 1)
    BY <1>2
  <2> QED
    BY <1>2, <2>1, Zenon DEF OuterRaise
<1> QED
  BY <1>1, <1>2

\* An exception inside of obtain_tokens.
LEMMA InnerRaised ==
  ASSUME NEW c \in Calls, c.outer \in {1, 2}, c.inner \in {1, 2}
  PROVE  \/ /\ c.inner = 2
            /\ InnerRaise(c) = [c EXCEPT !.inner = 1, !.at = "innerSleep"]
         \/ /\ c.inner = 1 /\ c.outer = 2
            /\ InnerRaise(c) = [c EXCEPT !.outer = 1, !.at = "outerSleep"]
         \/ /\ c.inner = 1 /\ c.outer = 1
            /\ InnerRaise(c) = [c EXCEPT !.at = "failed"]
<1>1. CASE c.inner = 2
  <2>1. c.inner - 1 = 1 /\ c.inner > 1
    BY <1>1
  <2>2. InnerRaise(c) = [c EXCEPT !.inner = c.inner - 1, !.at = "innerSleep"]
    BY <2>1 DEF InnerRaise
  <2> QED
    BY <1>1, <2>1, <2>2, Zenon
<1>2. CASE c.inner = 1
  <2>1. ~(c.inner > 1)
    BY <1>2
  <2>2. InnerRaise(c) = OuterRaise(c)
    BY <2>1, Zenon DEF InnerRaise
  <2> QED
    BY <1>2, <2>2, OuterRaised, Zenon
<1> QED
  BY <1>1, <1>2

\* An exception of the inner loop keeps the invariant, if it is a fault, or a
\* rejection that a retry mends or that shows an expired token.
LEMMA InnerRaiseInv ==
  ASSUME AuthInv, call.at \in Loop \ {"msa"},
         UNCHANGED <<cache, refresh, corrupt>>,
         NEW c \in Calls, call' = InnerRaise(c),
         \/ c = [call EXCEPT !.faults = call.faults + 1]
         \/ /\ call.at \in Requests
            /\ \E s \in BOOLEAN :
                  /\ c = [call EXCEPT !.stuck = s]
                  /\ \/ s
                     \/ ~call.stuck
                        /\ (Sound => Msa = "revoked" /\ refresh = "good")
  PROVE  AuthInv'
<1>1. /\ call \in Calls
      /\ call.outer \in {1, 2} /\ call.inner \in {1, 2}
      /\ call.at \notin Outside
  BY DEF AuthInv, CallType, Counted, Calls, Loop, Outside, Requests
<1>2. PICK f \in Nat, s \in BOOLEAN :
         /\ c = [call EXCEPT !.faults = f, !.stuck = s]
         /\ \/ f = call.faults + 1 /\ s = call.stuck
            \/ /\ f = call.faults /\ call.at \in Requests
               /\ \/ s
                  \/ ~call.stuck
                     /\ (Sound => Msa = "revoked" /\ refresh = "good")
  <2>1. CASE c = [call EXCEPT !.faults = call.faults + 1]
    <3>1. call.faults \in Nat /\ call.stuck \in BOOLEAN
      BY <1>1 DEF Calls
    <3>2. [call EXCEPT !.faults = call.faults + 1]
            = [call EXCEPT !.faults = call.faults + 1, !.stuck = call.stuck]
      BY <1>1 DEF Calls
    <3>3. call.faults + 1 \in Nat
      BY <3>1
    <3> QED
      BY <2>1, <3>1, <3>2, <3>3
  <2>2. ASSUME NEW s \in BOOLEAN, call.at \in Requests,
               c = [call EXCEPT !.stuck = s],
               \/ s
               \/ ~call.stuck
                  /\ (Sound => Msa = "revoked" /\ refresh = "good")
        PROVE  \E f \in Nat, r \in BOOLEAN :
                  /\ c = [call EXCEPT !.faults = f, !.stuck = r]
                  /\ \/ f = call.faults + 1 /\ r = call.stuck
                     \/ /\ f = call.faults /\ call.at \in Requests
                        /\ \/ r
                           \/ ~call.stuck
                              /\ (Sound => Msa = "revoked" /\ refresh = "good")
    <3>1. call.faults \in Nat
      BY <1>1 DEF Calls
    <3>2. c = [call EXCEPT !.faults = call.faults, !.stuck = s]
      BY <1>1, <2>2 DEF Calls
    <3> QED
      BY <2>2, <3>1, <3>2
  <2> QED
    BY <2>1, <2>2
<1>3. c.outer = call.outer /\ c.inner = call.inner
  BY <1>1, <1>2 DEF Calls
<1>4. \/ /\ call.inner = 2
         /\ call' = [call EXCEPT !.faults = f, !.stuck = s,
                                 !.inner = 1, !.at = "innerSleep"]
      \/ /\ call.inner = 1 /\ call.outer = 2
         /\ call' = [call EXCEPT !.faults = f, !.stuck = s,
                                 !.outer = 1, !.at = "outerSleep"]
      \/ /\ call.inner = 1 /\ call.outer = 1
         /\ call' = [call EXCEPT !.faults = f, !.stuck = s, !.at = "failed"]
  BY <1>1, <1>2, <1>3, InnerRaised
<1>5. /\ call' \in Calls
      /\ call'.faults = f /\ call'.stuck = s
      /\ call'.closure = call.closure /\ call'.force = call.force
      /\ call'.lapsed = call.lapsed /\ call'.late = call.late
      /\ call'.prompts = call.prompts
      /\ call'.authorised = call.authorised
      /\ \/ /\ call.inner = 2 /\ call'.inner = 1
            /\ call'.outer = call.outer /\ call'.at = "innerSleep"
         \/ /\ call.inner = 1 /\ call'.inner = 1 /\ call.outer = 2
            /\ call'.outer = 1 /\ call'.at = "outerSleep"
         \/ /\ call.inner = 1 /\ call.outer = 1 /\ call'.at = "failed"
            /\ call'.outer = 1 /\ call'.inner = 1
  <2>1. /\ "innerSleep" \in Places /\ "outerSleep" \in Places
        /\ "failed" \in Places
    BY DEF Places, Outside
  <2>2. CASE call' = [call EXCEPT !.faults = f, !.stuck = s,
                                  !.inner = 1, !.at = "innerSleep"]
             /\ call.inner = 2
    <3>1. call' \in Calls
      <4>1. call \in Calls /\ "innerSleep" \in Places /\ 1 \in 0..2
        BY <1>1, <2>1
      <4>2. [call EXCEPT !.faults = f, !.stuck = s] \in Calls
        BY <4>1 DEF Calls
      <4> DEFINE d == [call EXCEPT !.faults = f, !.stuck = s]
      <4>3. [d EXCEPT !.inner = 1, !.at = "innerSleep"] \in Calls
        <5> HIDE DEF d
        <5> QED
          BY <4>1, <4>2 DEF Calls, d
      <4> QED
        BY <2>2, <4>3
    <3>2. /\ call'.faults = f /\ call'.stuck = s
          /\ call'.closure = call.closure /\ call'.force = call.force
          /\ call'.lapsed = call.lapsed /\ call'.late = call.late
          /\ call'.prompts = call.prompts
          /\ call'.authorised = call.authorised
          /\ call'.inner = 1 /\ call'.outer = call.outer
          /\ call'.at = "innerSleep"
      BY <1>1, <2>2 DEF Calls
    <3> QED
      BY <2>2, <3>1, <3>2
  <2>3. CASE call' = [call EXCEPT !.faults = f, !.stuck = s,
                                  !.outer = 1, !.at = "outerSleep"]
             /\ call.inner = 1 /\ call.outer = 2
    BY <1>1, <2>1, <2>3 DEF Calls
  <2>4. CASE call' = [call EXCEPT !.faults = f, !.stuck = s, !.at = "failed"]
             /\ call.inner = 1 /\ call.outer = 1
    BY <1>1, <2>1, <2>4 DEF Calls
  <2> QED
    BY <1>4, <2>2, <2>3, <2>4
<1>6. \A u \in Tokens : Cached(u)' = Cached(u)
  BY NotStored
<1>7. /\ Msa' = Msa /\ Mended' = Mended /\ Kept' = Kept
      /\ Cached("xsts")' = Cached("xsts") /\ Cached("mca")' = Cached("mca")
  BY <1>1, <1>5, <1>6, TokensInFiles DEF Msa, Mended, Kept, Calls
<1>8. CallType'
  BY <1>5 DEF AuthInv, CallType, Calls
<1>9. Counted'
  BY <1>1, <1>5 DEF Counted, Loop, Requests
<1>10. Held'
  BY <1>5 DEF Held, Requests
<1>11. Asked'
  BY <1>1, <1>5, <1>7 DEF Asked, AuthInv, Loop, Requests, Outside, Calls
<1>12. Withstood'
  <2>1. call.faults \in Nat
    BY <1>1 DEF Calls
  <2>2. CASE f = call.faults + 1 /\ s = call.stuck
    <3>1. f # 0 /\ (f = 1 => call.faults = 0)
      BY <2>1, <2>2
    <3>2. NoExcuse' => NoExcuse /\ ~Mishap
      BY <1>5, <2>2, <3>1 DEF NoExcuse, Mishap
    <3>3. Mishap'
      BY <1>5, <3>1 DEF Mishap
    <3>4. NoExcuse' => call.outer = 2
      BY <1>1, <3>2 DEF AuthInv, Withstood
    <3> QED
      BY <1>5, <3>3, <3>4 DEF Withstood, Sound, Loop, Requests, Outside
  <2>3. CASE s
    BY <1>5, <2>3 DEF Withstood, NoExcuse
  <2>4. CASE /\ f = call.faults /\ call.at \in Requests /\ ~s
             /\ ~call.stuck /\ (Sound => Msa = "revoked" /\ refresh = "good")
    <3>1. (NoExcuse' <=> NoExcuse) /\ (Mishap' <=> Mishap)
      BY <1>5, <2>4 DEF NoExcuse, Mishap
    <3>2. Sound => Kept /\ call.inner = 2
      BY <1>1, <2>4 DEF Sound, Mended, Loop
    <3>3. NoExcuse /\ (~Mishap \/ call.outer = 1) => Sound
      BY DEF AuthInv, Withstood
    <3>4. NoExcuse /\ call.outer = 1 => Mishap
      BY <1>1 DEF AuthInv, Withstood
    <3> QED
      BY <1>1, <1>5, <1>7, <3>1, <3>2, <3>3, <3>4
      DEF Withstood, Sound, Loop, Requests, Outside
  <2> QED
    BY <1>2, <2>2, <2>3, <2>4
<1> QED
  BY <1>8, <1>9, <1>10, <1>11, <1>12 DEF AuthInv

\* No call is as good as any.
LEMMA EndedInv ==
  ASSUME call' = NoCall, cache' \in [Tokens -> Statuses],
         refresh' \in {"good", "dead"}, corrupt' \subseteq DOMAIN Files
  PROVE  AuthInv'
<1>1. /\ call' \in Calls /\ call'.at = "idle" /\ ~call'.authorised
      /\ call'.prompts = 0 /\ call'.lapsed = {}
  BY DEF NoCall, Calls, Places, Outside
<1>2. CallType'
  BY <1>1 DEF CallType
<1>3. Counted' /\ Held' /\ Asked' /\ Withstood'
  BY <1>1
  DEF Counted, Held, Asked, Withstood, NoExcuse, Mishap, Sound, Outside, Loop,
      Requests
<1> QED
  BY <1>2, <1>3 DEF AuthInv

\* A step to another place in the chain.
LEMMA Moved ==
  ASSUME call \in Calls, NEW l \in Places, call' = [call EXCEPT !.at = l]
  PROVE  /\ call' \in Calls /\ call'.at = l
         /\ call'.outer = call.outer /\ call'.inner = call.inner
         /\ call'.closure = call.closure /\ call'.force = call.force
         /\ call'.faults = call.faults /\ call'.lapsed = call.lapsed
         /\ call'.stuck = call.stuck /\ call'.late = call.late
         /\ call'.prompts = call.prompts
         /\ call'.authorised = call.authorised
BY DEF Calls

\* A call begins.
LEMMA StartInv == AuthInv /\ Start => AuthInv'
<1> SUFFICES ASSUME AuthInv, Start PROVE AuthInv'
  OBVIOUS
<1>1. /\ call' \in Calls /\ call'.at = "mca"
      /\ call'.outer = 2 /\ call'.faults = 0 /\ call'.lapsed = {}
      /\ ~call'.force /\ ~call'.authorised /\ call'.prompts = 0
  <2>1. /\ NoCall \in Calls /\ NoCall.faults = 0 /\ NoCall.lapsed = {}
        /\ ~NoCall.force /\ ~NoCall.authorised /\ NoCall.prompts = 0
    BY DEF NoCall, Calls, Places, Outside
  <2>2. call' = [NoCall EXCEPT !.at = "mca", !.outer = 2]
    BY DEF Start, Times
  <2>3. "mca" \in Places /\ 2 \in 0..2
    BY DEF Places
  <2> QED
    BY <2>1, <2>2, <2>3 DEF Calls
<1>2. CallType'
  <2>1. cache' \in [Tokens -> Statuses]
    BY DEF Start, AuthInv, CallType, Statuses
  <2> QED
    BY <1>1, <2>1 DEF Start, AuthInv, CallType
<1>3. Counted' /\ Held' /\ Asked' /\ Withstood'
  BY <1>1
  DEF Counted, Held, Asked, Withstood, NoExcuse, Mishap, Sound, Outside, Loop,
      Requests
<1> QED
  BY <1>2, <1>3 DEF AuthInv

\* The cached token of the game.
LEMMA VerifyMcaInv == AuthInv /\ VerifyMca => AuthInv'
<1> SUFFICES ASSUME AuthInv, VerifyMca PROVE AuthInv'
  OBVIOUS
<1>1. \A u \in Tokens : Cached(u)' = Cached(u)
  BY NotStored DEF VerifyMca
<1>2. call \in Calls /\ call.at = "mca"
  BY DEF AuthInv, CallType, VerifyMca
<1>3. PICK l \in {"profile", "xbox"} :
         /\ call' = [call EXCEPT !.at = l]
         /\ l = "profile" => Cached("mca") \in Valid
  BY DEF VerifyMca, LooksValid, Valid
<1>4. l \in Places
  BY DEF Places
<1>5. /\ call' \in Calls /\ call'.at = l
      /\ call'.outer = call.outer /\ call'.inner = call.inner
      /\ call'.closure = call.closure /\ call'.force = call.force
      /\ call'.faults = call.faults /\ call'.lapsed = call.lapsed
      /\ call'.stuck = call.stuck /\ call'.late = call.late
      /\ call'.prompts = call.prompts
      /\ call'.authorised = call.authorised
  BY <1>2, <1>3, <1>4, Moved
<1>6. Msa' = Msa /\ Cached("mca")' = Cached("mca")
  BY <1>1, TokensInFiles DEF Msa
<1>7. CallType'
  BY <1>5 DEF VerifyMca, AuthInv, CallType
<1>8. Counted' /\ Held' /\ Asked'
  BY <1>2, <1>3, <1>5, <1>6
  DEF AuthInv, Counted, Held, Asked, Outside, Loop, Requests, Calls
<1>9. Withstood'
  BY <1>2, <1>5
  DEF AuthInv, Counted, Withstood, NoExcuse, Mishap, Sound, Outside, Loop,
      Requests
<1> QED
  BY <1>7, <1>8, <1>9 DEF AuthInv

\* What is valid goes into the closure.
LEMMA GetXboxTokenInv == AuthInv /\ GetXboxToken => AuthInv'
<1> SUFFICES ASSUME AuthInv, GetXboxToken PROVE AuthInv'
  OBVIOUS
<1>1. \A u \in Tokens : Cached(u)' = Cached(u)
  BY NotStored DEF GetXboxToken
<1>2. call \in Calls /\ call.at = "xbox"
  BY DEF AuthInv, CallType, GetXboxToken
<1> DEFINE found == {t \in {"user", "device", "title"} : LooksValid(t)}
<1>3. PICK l \in {"login", "msa"} :
         /\ call' = [call EXCEPT !.at = l, !.closure = found, !.inner = 2]
         /\ l = "login" <=> Cached("xsts") \in Valid
  BY DEF GetXboxToken, LooksValid, Valid, Times
<1>4. l \in Places
  BY DEF Places, Loop
<1>5. /\ call' \in Calls /\ call'.at = l
      /\ call'.outer = call.outer /\ call'.inner = 2
      /\ call'.closure = found /\ call'.force = call.force
      /\ call'.faults = call.faults /\ call'.lapsed = call.lapsed
      /\ call'.stuck = call.stuck /\ call'.late = call.late
      /\ call'.prompts = call.prompts
      /\ call'.authorised = call.authorised
  <2>1. found \in SUBSET {"user", "device", "title"} /\ 2 \in 0..2
    OBVIOUS
  <2> HIDE DEF found
  <2>2. call' \in Calls
    BY <1>2, <1>3, <1>4, <2>1 DEF Calls
  <2> QED
    BY <1>2, <1>3, <2>2 DEF Calls
<1>6. /\ Msa' = Msa /\ Mended' = Mended
      /\ Cached("xsts")' = Cached("xsts")
  BY <1>1, TokensInFiles DEF Msa, Mended, Requests, GetXboxToken
<1>7. Kept'
  <2>1. \A t \in found : t \in Tokens /\ Cached(t) \in Valid
    BY TokensInFiles DEF LooksValid, Valid
  <2> QED
    BY <1>1, <1>5, <2>1 DEF Kept
<1> HIDE DEF found
<1>8. CallType'
  BY <1>5 DEF GetXboxToken, AuthInv, CallType
<1>9. Counted' /\ Held' /\ Asked'
  BY <1>2, <1>3, <1>5, <1>6
  DEF AuthInv, Counted, Held, Asked, Outside, Loop, Requests, Calls
<1>10. Withstood'
  BY <1>2, <1>3, <1>5, <1>6, <1>7
  DEF AuthInv, Counted, Withstood, NoExcuse, Mishap, Sound, Outside, Loop,
      Requests
<1> QED
  BY <1>8, <1>9, <1>10 DEF AuthInv

\* The user is asked.
LEMMA AskUserInv == AuthInv /\ AskUser => AuthInv'
<1> SUFFICES ASSUME AuthInv, AskUser PROVE AuthInv'
  OBVIOUS
<1>1. /\ call \in Calls /\ call.at = "ask"
      /\ UNCHANGED <<cache, refresh, corrupt>>
      /\ call.outer \in {1, 2} /\ call.inner \in {1, 2}
  BY DEF AuthInv, CallType, AskUser, Counted, Loop, Outside
<1>2. CASE call' = InnerRaise(Faulted(call))
  <2>1. /\ Faulted(call) = [call EXCEPT !.faults = call.faults + 1]
        /\ Faulted(call) \in Calls
    BY <1>1 DEF Faulted, Calls
  <2> QED
    BY <1>1, <1>2, <2>1, InnerRaiseInv DEF Loop
<1>3. CASE call' = [call EXCEPT !.at = "poll", !.prompts = call.prompts + 1]
  <2>1. /\ call' \in Calls /\ call'.at = "poll"
        /\ call'.outer = call.outer /\ call'.inner = call.inner
        /\ call'.closure = call.closure /\ call'.force = call.force
        /\ call'.faults = call.faults /\ call'.lapsed = call.lapsed
        /\ call'.stuck = call.stuck /\ call'.late = call.late
        /\ call'.prompts = call.prompts + 1
        /\ call'.authorised = call.authorised
    <3>1. call.prompts + 1 \in Nat /\ "poll" \in Places
      BY <1>1 DEF Calls, Places, Loop
    <3> QED
      BY <1>1, <1>3, <3>1 DEF Calls
  <2>2. \A u \in Tokens : Cached(u)' = Cached(u)
    BY <1>1, NotStored
  <2>3. Msa' = Msa /\ Mended' = Mended /\ Kept' = Kept
    BY <1>1, <2>1, <2>2, TokensInFiles DEF Msa, Mended, Kept, Calls
  <2>4. CallType'
    BY <1>1, <2>1 DEF AuthInv, CallType
  <2>5. Counted' /\ Held'
    BY <1>1, <2>1 DEF AuthInv, Counted, Held, Outside, Loop, Requests
  <2>6. Asked'
    <3>1. call.prompts \in Nat
      BY <1>1 DEF Calls
    <3>2. call.prompts <= 2 * (2 - call.outer) + (2 - call.inner)
      BY <1>1 DEF AuthInv, Asked, Outside
    <3> QED
      BY <1>1, <2>1, <2>3, <3>1, <3>2
      DEF AuthInv, Asked, Outside
  <2>7. Withstood'
    BY <1>1, <2>1, <2>3
    DEF AuthInv, Withstood, NoExcuse, Mishap, Sound, Outside, Loop, Requests
  <2> QED
    BY <2>4, <2>5, <2>6, <2>7 DEF AuthInv
<1> QED
  BY <1>2, <1>3 DEF AskUser

\* The user answers.
LEMMA PollInv == AuthInv /\ Poll => AuthInv'
<1> SUFFICES ASSUME AuthInv, Poll PROVE AuthInv'
  OBVIOUS
<1>1. /\ call \in Calls /\ call.at = "poll"
      /\ call.outer \in {1, 2} /\ call.inner \in {1, 2}
  BY DEF AuthInv, CallType, Poll, Counted, Loop, Outside
<1>2. CASE /\ call' = InnerRaise(Faulted(call))
           /\ UNCHANGED <<cache, refresh, corrupt>>
  <2>1. /\ Faulted(call) = [call EXCEPT !.faults = call.faults + 1]
        /\ Faulted(call) \in Calls
    BY <1>1 DEF Faulted, Calls
  <2> QED
    BY <1>1, <1>2, <2>1, InnerRaiseInv DEF Loop
<1>3. CASE /\ call' = [call EXCEPT !.at = "user", !.authorised = TRUE]
           /\ Store("msa")
           /\ refresh' = "good"
  <2>1. /\ call' \in Calls /\ call'.at = "user"
        /\ call'.outer = call.outer /\ call'.inner = call.inner
        /\ call'.closure = call.closure /\ call'.force = call.force
        /\ call'.faults = call.faults /\ call'.lapsed = call.lapsed
        /\ call'.stuck = call.stuck /\ call'.late = call.late
        /\ call'.prompts = call.prompts
    BY <1>1, <1>3 DEF Calls, Places, Loop, Requests
  <2>2. /\ \A u \in Tokens : Cached(u)' = IF u = "msa" THEN "new" ELSE Cached(u)
        /\ cache' \in [Tokens -> Statuses] /\ corrupt' \subseteq corrupt
        /\ \A u \in Tokens : cache'[u] = "old" => cache[u] = "old"
    BY <1>3, Stored, TokensInFiles DEF AuthInv, CallType
  <2>3. Msa' = "new" /\ Mended'
    BY <1>1, <2>1, <2>2, TokensInFiles DEF Msa, Mended
  <2>4. Kept => Kept'
    BY <1>1, <2>1, <2>2, TokensInFiles DEF Kept, Calls
  <2>5. CallType'
    BY <1>3, <2>1, <2>2 DEF AuthInv, CallType
  <2>6. Counted' /\ Held'
    BY <1>1, <2>1, <2>3
    DEF AuthInv, Counted, Held, Outside, Loop, Requests, Valid
  <2>7. Asked'
    BY <1>1, <2>1, <2>3
    DEF AuthInv, Asked, Outside, Calls
  <2>8. Withstood'
    <3>1. (NoExcuse' <=> NoExcuse) /\ (Mishap' <=> Mishap)
      BY <2>1 DEF NoExcuse, Mishap
    <3>2. Sound => Sound'
      BY <1>1, <2>1, <2>3, <2>4 DEF Sound, Loop, Requests, Valid
    <3> QED
      BY <1>1, <2>1, <3>1, <3>2 DEF AuthInv, Withstood, Outside
  <2> QED
    BY <2>5, <2>6, <2>7, <2>8 DEF AuthInv
<1> QED
  BY <1>2, <1>3 DEF Poll

\* A request whose tokens are rejected: one is revoked for good or of an earlier
\* key, or the msa token can be refreshed, or a token has expired meanwhile.
LEMMA RejectedOnes ==
  ASSUME AuthInv, call.at \in Requests,
         NEW needs, needs \subseteq {"msa", "user", "device", "title"},
         \A t \in needs \ {"msa"} : Had(t), Rejectable(needs)
  PROVE  /\ Rejected(call, needs) \in Calls
         /\ \E s \in BOOLEAN :
               /\ Rejected(call, needs) = [call EXCEPT !.stuck = s]
               /\ \/ s
                  \/ ~call.stuck
                     /\ (Sound => Msa = "revoked" /\ refresh = "good")
<1>1. call \in Calls /\ refresh \in {"good", "dead"}
  BY DEF AuthInv, CallType
<1> DEFINE s == \/ call.stuck
                \/ OfOtherKey(needs)
                \/ \E t \in needs \ {"msa"} : Cached(t) = "revoked"
                \/ "msa" \in needs /\ Cached("msa") = "revoked"
                   /\ refresh = "dead"
<1>2. Rejected(call, needs) = [call EXCEPT !.stuck = s]
  BY Zenon DEF Rejected
<1>3. PICK b \in BOOLEAN : b = s
  BY <1>1 DEF Calls
<1>4. ASSUME ~s
      PROVE  ~call.stuck /\ (Sound => Msa = "revoked" /\ refresh = "good")
  <2>1. PICK u \in needs : Cached(u) \notin {"old", "new"}
    BY <1>4 DEF Accepted, Rejectable
  <2>2. SUFFICES ASSUME Sound PROVE Msa = "revoked" /\ refresh = "good"
    BY <1>4
  <2>3. Msa \in Valid /\ Kept
    BY <2>2 DEF Sound, Loop
  <2>4. CASE u = "msa"
    BY <1>1, <1>4, <2>1, <2>3, <2>4 DEF Msa, Valid
  <2>5. CASE u # "msa"
    <3>1. u \in call.closure
      BY <2>1, <2>5 DEF Had
    <3>2. Cached(u) = "revoked"
      BY <2>1, <2>3, <3>1 DEF Kept, Valid
    <3> QED
      BY <1>4, <2>5, <3>2
  <2> QED
    BY <2>4, <2>5
<1>5. [call EXCEPT !.stuck = b] \in Calls
  BY <1>1 DEF Calls
<1> HIDE DEF s
<1> QED
  BY <1>2, <1>3, <1>4, <1>5

\* The requests of obtain_tokens.
LEMMA ObtainInv ==
  ASSUME AuthInv, NEW t \in Requests, NEW needs, NEW next \in Places,
         Obtain(t, needs, next),
         \/ t = "user" /\ needs = {"msa"} /\ next = "device"
         \/ t = "device" /\ needs = {} /\ next = "title"
         \/ t = "title" /\ needs = {"msa", "device"} /\ next = "xsts"
         \/ t = "xsts" /\ needs = {"user", "device", "title"} /\ next = "login"
  PROVE  AuthInv'
<1>1. /\ call \in Calls /\ call.at = t
      /\ call.outer \in {1, 2} /\ call.inner \in {1, 2}
      /\ call.at \in Loop \ {"msa"}
      /\ t \in Tokens
  BY TokensInFiles
  DEF AuthInv, CallType, Obtain, Counted, Loop, Outside, Requests
<1>2. CASE call' = InnerRaise(Faulted(call)) /\ UNCHANGED <<cache, corrupt>>
  <2>1. /\ Faulted(call) = [call EXCEPT !.faults = call.faults + 1]
        /\ Faulted(call) \in Calls
    BY <1>1 DEF Faulted, Calls
  <2>2. UNCHANGED <<cache, refresh, corrupt>>
    BY <1>2 DEF Obtain
  <2> QED
    BY <1>1, <1>2, <2>1, <2>2, InnerRaiseInv
<1>3. CASE /\ Rejectable(needs)
           /\ call' = InnerRaise(Rejected(call, needs))
           /\ UNCHANGED <<cache, corrupt>>
  <2>1. /\ needs \subseteq {"msa", "user", "device", "title"}
        /\ \A u \in needs \ {"msa"} : Had(u)
    BY <1>1 DEF AuthInv, Held
  <2>2. UNCHANGED <<cache, refresh, corrupt>>
    BY <1>3 DEF Obtain
  <2>3. /\ Rejected(call, needs) \in Calls
        /\ \E s \in BOOLEAN :
              /\ Rejected(call, needs) = [call EXCEPT !.stuck = s]
              /\ \/ s
                 \/ ~call.stuck
                    /\ (Sound => Msa = "revoked" /\ refresh = "good")
    BY <1>1, <1>3, <2>1, RejectedOnes
  <2> QED
    BY <1>1, <1>3, <2>2, <2>3, InnerRaiseInv
<1>4. CASE /\ call' = [call EXCEPT !.at = next]
           /\ \/ t \in call.closure /\ UNCHANGED <<cache, corrupt>>
              \/ Store(t)
  <2>1. refresh' = refresh
    BY DEF Obtain
  <2>2. /\ call' \in Calls /\ call'.at = next
        /\ call'.outer = call.outer /\ call'.inner = call.inner
        /\ call'.closure = call.closure /\ call'.force = call.force
        /\ call'.faults = call.faults /\ call'.lapsed = call.lapsed
        /\ call'.stuck = call.stuck /\ call'.late = call.late
        /\ call'.prompts = call.prompts
        /\ call'.authorised = call.authorised
    BY <1>1, <1>4, Moved
  <2>3. /\ cache' \in [Tokens -> Statuses] /\ corrupt' \subseteq corrupt
        /\ \A u \in Tokens : Cached(u)' = Cached(u) \/ Cached(u)' = "new"
        /\ \A u \in Tokens : cache'[u] = "old" => cache[u] = "old"
        /\ \A u \in Tokens : u # t => Cached(u)' = Cached(u)
        /\ t \in call.closure \/ Cached(t)' = "new"
    <3>1. CASE UNCHANGED <<cache, corrupt>> /\ t \in call.closure
      BY <3>1, NotStored DEF AuthInv, CallType
    <3>2. CASE Store(t)
      BY <1>1, <3>2, Stored DEF AuthInv, CallType
    <3> QED
      BY <1>4, <3>1, <3>2
  <2>4. Msa' = Msa /\ Mended' = Mended
    BY <2>1, <2>3, TokensInFiles DEF Msa, Mended, Requests
  <2>5. Kept => Kept'
    <3>1. \A u \in call.closure : u \in Tokens
      BY <1>1, TokensInFiles DEF Calls
    <3>2. "new" \in Valid
      BY DEF Valid
    <3> QED
      BY <2>2, <2>3, <3>1, <3>2 DEF Kept
  <2>6. /\ \A u \in Tokens : Had(u) => Had(u)'
        /\ Had(t)'
    BY <2>2, <2>3 DEF Had
  <2>7. CallType'
    BY <2>1, <2>2, <2>3, <1>1 DEF AuthInv, CallType, Requests
  <2>8. Counted'
    BY <1>1, <2>2 DEF AuthInv, Counted, Outside, Loop, Requests
  <2>9. Held'
    <3>1. next = "login" => Cached("xsts")' \in Valid
      BY <1>1, <2>3 DEF Calls, Valid
    <3>2. /\ Had("user") => Had("user")'
          /\ Had("device") => Had("device")'
          /\ Had("title") => Had("title")'
          /\ t = "user" => Had("user")'
          /\ t = "device" => Had("device")'
          /\ t = "title" => Had("title")'
      BY <2>6, TokensInFiles
    <3> QED
      BY <1>1, <2>2, <2>4, <3>1, <3>2 DEF AuthInv, Held, Requests
  <2>10. Asked'
    BY <1>1, <2>2, <2>4
    DEF AuthInv, Asked, Outside, Requests, Calls
  <2>11. Withstood'
    <3>1. (NoExcuse' <=> NoExcuse) /\ (Mishap' <=> Mishap)
      BY <2>2 DEF NoExcuse, Mishap
    <3>2. next = "login" => Cached("xsts")' \in Valid
      BY <1>1, <2>3 DEF Calls, Valid
    <3>3. Sound => Sound'
      BY <1>1, <2>2, <2>4, <2>5, <3>2 DEF Sound, Loop, Requests
    <3> QED
      BY <1>1, <2>2, <3>1, <3>3 DEF AuthInv, Withstood, Outside, Requests
  <2> QED
    BY <2>7, <2>8, <2>9, <2>10, <2>11 DEF AuthInv
<1> QED
  BY <1>2, <1>3, <1>4 DEF Obtain

\* The refreshes of verify_tokens.
LEMMA VerifyMsaInv == AuthInv /\ VerifyMsa => AuthInv'
<1> SUFFICES ASSUME AuthInv, VerifyMsa PROVE AuthInv'
  OBVIOUS
<1>1. /\ call \in Calls /\ call.at = "msa"
      /\ call.outer \in {1, 2} /\ call.inner \in {1, 2}
      /\ refresh' = refresh
  BY DEF AuthInv, CallType, VerifyMsa, Counted, Loop, Outside
<1>2. PICK forced \in IF call.force THEN Refreshes(Msa) ELSE {<<Msa, 0>>} :
        LET s == forced[1]
            valid == s \in Valid
        IN  \E second \in IF valid \/ s = "none" THEN {<<s, 0>>}
                                                ELSE Refreshes(s) :
              /\ call' = [call EXCEPT
                            !.at = IF second[1] \in Valid
                                   THEN "user" ELSE "ask",
                            !.faults = @ + forced[2] + second[2]]
              /\ IF second[1] = "new" THEN Store("msa")
                                      ELSE UNCHANGED <<cache, corrupt>>
  BY DEF VerifyMsa, AfterForced, Msa, Valid
<1>3. PICK second \in IF forced[1] \in Valid \/ forced[1] = "none"
                      THEN {<<forced[1], 0>>} ELSE Refreshes(forced[1]) :
              /\ call' = [call EXCEPT
                            !.at = IF second[1] \in Valid
                                   THEN "user" ELSE "ask",
                            !.faults = @ + forced[2] + second[2]]
              /\ IF second[1] = "new" THEN Store("msa")
                                      ELSE UNCHANGED <<cache, corrupt>>
  BY <1>2
<1>4. /\ forced[2] \in {0, 1}
      /\ forced[1] = Msa \/ (forced[1] = "new" /\ Msa # "none")
      /\ ~call.force => forced[1] = Msa /\ forced[2] = 0
      /\ call.force /\ refresh = "good" /\ Msa # "none" /\ forced[2] = 0
            => forced[1] = "new"
  BY <1>1 DEF Refreshes, Calls
<1>5. /\ second[2] \in {0, 1}
      /\ second[1] = forced[1] \/ second[1] = "new"
      /\ forced[1] \in Valid => second[1] = forced[1] /\ second[2] = 0
      /\ second[2] = 1 => second[1] = forced[1]
  BY <1>3 DEF Refreshes
<1>6. PICK k, r :
        /\ k \in 0..2
        /\ r = second[1] /\ k = forced[2] + second[2]
        /\ r = "new" \/ r = Msa
        /\ Msa \in Valid => r \in Valid
        /\ call.force /\ k = 0 /\ r = "revoked" => refresh = "dead"
        /\ Msa = "new" => r = "new"
  <2>1. "new" \in Valid /\ "none" \notin Valid
    BY DEF Valid
  <2>2. forced[2] + second[2] \in 0..2
    BY <1>4, <1>5
  <2>3. refresh \in {"good", "dead"}
    BY DEF AuthInv, CallType
  <2> DEFINE r == second[1]
             k == forced[2] + second[2]
  <2>4. r = "new" \/ r = Msa
    BY <1>4, <1>5
  <2>5. Msa \in Valid => r \in Valid
    BY <1>4, <1>5, <2>1
  <2>6. Msa = "new" => r = "new"
    BY <1>4, <1>5, <2>1
  <2>7. call.force /\ k = 0 /\ r = "revoked" => refresh = "dead"
    <3>1. k = 0 => forced[2] = 0
      BY <1>4, <1>5
    <3>2. r = "revoked" => Msa = "revoked" /\ forced[1] # "new"
      BY <1>4, <1>5, <2>1
    <3> QED
      BY <1>4, <2>3, <3>1, <3>2
  <2> QED
    BY <2>2, <2>4, <2>5, <2>6, <2>7
<1>7. /\ call' = [call EXCEPT !.at = IF r \in Valid THEN "user" ELSE "ask",
                             !.faults = call.faults + k]
      /\ IF r = "new" THEN Store("msa") ELSE UNCHANGED <<cache, corrupt>>
  <2>1. (call.faults + forced[2]) + second[2]
           = call.faults + (forced[2] + second[2])
    BY <1>1, <1>4, <1>5 DEF Calls
  <2> QED
    BY <1>3, <1>6, <2>1, Zenon
<1>8. /\ call' \in Calls
      /\ call'.at = IF r \in Valid THEN "user" ELSE "ask"
      /\ call'.outer = call.outer /\ call'.inner = call.inner
      /\ call'.closure = call.closure /\ call'.force = call.force
      /\ call'.faults = call.faults + k /\ call'.lapsed = call.lapsed
      /\ call'.stuck = call.stuck /\ call'.late = call.late
      /\ call'.prompts = call.prompts
      /\ call'.authorised = call.authorised
  <2>1. /\ call.faults + k \in Nat
        /\ (IF r \in Valid THEN "user" ELSE "ask") \in Places
    BY <1>1, <1>6 DEF Calls, Places, Loop, Requests
  <2> QED
    BY <1>1, <1>7, <2>1 DEF Calls
<1>9. /\ cache' \in [Tokens -> Statuses] /\ corrupt' \subseteq corrupt
      /\ Cached("msa")' = r
      /\ \A u \in Tokens : u # "msa" => Cached(u)' = Cached(u)
      /\ \A u \in Tokens : cache'[u] = "old" => cache[u] = "old"
  <2>1. CASE r = "new"
    BY <1>7, <2>1, Stored, TokensInFiles DEF AuthInv, CallType
  <2>2. CASE r # "new"
    BY <1>6, <1>7, <2>2, NotStored, TokensInFiles DEF AuthInv, CallType, Msa
  <2> QED
    BY <2>1, <2>2
<1>10. Msa' = r
  BY <1>9 DEF Msa
<1>11. Kept' = Kept
  <2>1. \A u \in call.closure : u \in Tokens /\ u # "msa"
    BY <1>1, TokensInFiles DEF Calls
  <2> QED
    BY <1>8, <1>9, <2>1 DEF Kept
<1>12. CallType'
  BY <1>1, <1>8, <1>9 DEF AuthInv, CallType
<1>13. Counted' /\ Held'
  BY <1>1, <1>8, <1>10 DEF AuthInv, Counted, Held, Outside, Loop, Requests
<1>14. Asked'
  <2>1. call.authorised => r = "new" /\ r \in Valid
    BY <1>6 DEF AuthInv, Asked, Valid
  <2> QED
    BY <1>1, <1>8, <1>10, <2>1 DEF AuthInv, Asked, Outside, Calls
<1>15. Withstood'
  <2>1. call.faults \in Nat
    BY <1>1 DEF Calls
  <2>2. k \in Nat /\ call'.faults = call.faults + k
    BY <1>6, <1>8
  <2>3. ASSUME NoExcuse'
        PROVE  NoExcuse /\ (k = 0 \/ ~Mishap)
    <3>1. \/ call.faults + k = 0 /\ call.faults = 0 /\ k = 0
          \/ call.faults + k = 1 /\ call.faults = 1 /\ k = 0
          \/ call.faults + k = 1 /\ call.faults = 0
          \/ call.faults + k > 1
      BY <2>1, <2>2
    <3> QED
      BY <1>8, <2>1, <2>2, <2>3, <3>1 DEF NoExcuse, Mishap
  <2>4. /\ Mishap => Mishap'
        /\ ~Mishap' => k = 0
    BY <1>8, <2>1, <2>2 DEF Mishap
  <2>5. ASSUME NoExcuse', ~Mishap' \/ call'.outer = 1
        PROVE  Sound'
    <3>1. k = 0 /\ Sound
      BY <1>1, <1>8, <2>3, <2>4, <2>5 DEF AuthInv, Withstood, Outside
    <3>2. Kept' /\ (call.inner = 1 => call.force)
      BY <1>1, <1>11, <3>1 DEF Sound, AuthInv, Counted, Loop
    <3>3. call.inner = 1 => Mended'
      BY <1>1, <1>6, <1>10, <3>1, <3>2 DEF Mended
    <3> QED
      BY <1>8, <1>10, <3>2, <3>3 DEF Sound, Requests
  <2> QED
    BY <1>1, <1>8, <2>3, <2>4, <2>5 DEF AuthInv, Withstood, Outside
<1> QED
  BY <1>12, <1>13, <1>14, <1>15 DEF AuthInv

\* The pauses of _retry.
LEMMA RetryInv == AuthInv /\ (InnerRetry \/ OuterRetry) => AuthInv'
<1> SUFFICES ASSUME AuthInv, InnerRetry \/ OuterRetry PROVE AuthInv'
  OBVIOUS
<1>1. /\ call \in Calls
      /\ UNCHANGED <<cache, refresh, corrupt>>
      /\ call.outer \in {1, 2}
  BY DEF AuthInv, CallType, InnerRetry, OuterRetry, Counted, Outside
<1>2. PICK l \in {"msa", "xbox"}, f \in BOOLEAN :
         /\ call' = [call EXCEPT !.at = l, !.force = f]
         /\ \/ l = "msa" /\ call.at = "innerSleep" /\ f
            \/ l = "xbox" /\ call.at = "outerSleep" /\ f = call.force
  <2>1. CASE InnerRetry
    BY <2>1 DEF InnerRetry
  <2>2. CASE OuterRetry
    <3>1. call' = [call EXCEPT !.at = "xbox", !.force = call.force]
          /\ call.force \in BOOLEAN
      BY <1>1, <2>2 DEF OuterRetry, Calls
    <3> QED
      BY <2>2, <3>1 DEF OuterRetry
  <2> QED
    BY <2>1, <2>2
<1>3. /\ call' \in Calls /\ call'.at = l
      /\ call'.outer = call.outer /\ call'.inner = call.inner
      /\ call'.closure = call.closure /\ call'.force = f
      /\ call'.faults = call.faults /\ call'.lapsed = call.lapsed
      /\ call'.stuck = call.stuck /\ call'.late = call.late
      /\ call'.prompts = call.prompts
      /\ call'.authorised = call.authorised
  <2>1. l \in Places
    BY DEF Places, Loop
  <2> QED
    BY <1>1, <1>2, <2>1 DEF Calls
<1>4. \A u \in Tokens : Cached(u)' = Cached(u)
  BY <1>1, NotStored
<1>5. /\ Msa' = Msa /\ Mended' = Mended /\ Kept' = Kept
      /\ Cached("xsts")' = Cached("xsts")
  BY <1>1, <1>3, <1>4, TokensInFiles DEF Msa, Mended, Kept, Calls, Requests
<1>6. CallType'
  BY <1>1, <1>2, <1>3 DEF AuthInv, CallType
<1>7. Counted' /\ Held' /\ Asked'
  BY <1>1, <1>2, <1>3, <1>5
  DEF AuthInv, Counted, Held, Asked, Outside, Loop, Requests, Calls
<1>8. Withstood'
  BY <1>1, <1>2, <1>3, <1>5
  DEF AuthInv, Counted, Withstood, NoExcuse, Mishap, Sound, Outside, Loop,
      Requests
<1> QED
  BY <1>6, <1>7, <1>8 DEF AuthInv

\* The login with the xsts token, outside of the inner loop.
LEMMA GetAccessTokenInv == AuthInv /\ GetAccessToken => AuthInv'
<1> SUFFICES ASSUME AuthInv, GetAccessToken PROVE AuthInv'
  OBVIOUS
<1>1. /\ call \in Calls /\ call.at = "login"
      /\ call.outer \in {1, 2}
      /\ refresh' = refresh
  BY DEF AuthInv, CallType, GetAccessToken, Counted, Outside
<1>2. CASE call' = [call EXCEPT !.at = "profile"] /\ Store("mca")
  <2>1. /\ call' \in Calls /\ call'.at = "profile"
        /\ call'.outer = call.outer /\ call'.inner = call.inner
        /\ call'.closure = call.closure /\ call'.force = call.force
        /\ call'.faults = call.faults /\ call'.lapsed = call.lapsed
        /\ call'.stuck = call.stuck /\ call'.late = call.late
        /\ call'.prompts = call.prompts
        /\ call'.authorised = call.authorised
    BY <1>1, <1>2, Moved DEF Places
  <2>2. /\ cache' \in [Tokens -> Statuses] /\ corrupt' \subseteq corrupt
        /\ \A u \in Tokens : cache'[u] = "old" => cache[u] = "old"
        /\ Cached("mca")' = "new" /\ Msa' = Msa
    BY <1>2, Stored, TokensInFiles DEF AuthInv, CallType, Msa
  <2>3. CallType'
    BY <1>1, <2>1, <2>2 DEF AuthInv, CallType
  <2>4. Counted' /\ Held' /\ Asked'
    BY <1>1, <2>1, <2>2
    DEF AuthInv, Counted, Held, Asked, Outside, Loop, Requests, Valid, Calls
  <2>5. Withstood'
    BY <1>1, <2>1
    DEF AuthInv, Withstood, NoExcuse, Mishap, Sound, Outside, Loop, Requests
  <2> QED
    BY <2>3, <2>4, <2>5 DEF AuthInv
<1>3. CASE /\ \/ /\ ~Accepted({"xsts"})
                 /\ call' = OuterRaise(Rejected(call, {"xsts"}))
              \/ call' = OuterRaise(Faulted(call))
           /\ UNCHANGED <<cache, corrupt>>
  <2>1. PICK f \in Nat, s \in BOOLEAN :
           /\ call' = OuterRaise([call EXCEPT !.faults = f, !.stuck = s])
           /\ \/ f = call.faults + 1 /\ s = call.stuck
              \/ s
              \/ f = call.faults /\ s = call.stuck /\ ~Sound
    <3>1. call.faults \in Nat /\ call.stuck \in BOOLEAN
          /\ call.faults + 1 \in Nat
      BY <1>1 DEF Calls
    <3>2. CASE /\ ~Accepted({"xsts"})
               /\ call' = OuterRaise(Rejected(call, {"xsts"}))
      <4>1. PICK s \in BOOLEAN :
               s = (call.stuck \/ Cached("xsts") = "revoked")
        BY <3>1
      <4>2. Rejected(call, {"xsts"}) = [call EXCEPT !.stuck = s]
        BY <4>1 DEF Rejected, OfOtherKey
      <4>3. Rejected(call, {"xsts"})
              = [call EXCEPT !.faults = call.faults, !.stuck = s]
        BY <1>1, <4>2 DEF Calls
      <4>4. s \/ (s = call.stuck /\ ~Sound)
        BY <1>1, <3>1, <3>2, <4>1 DEF Accepted, Valid, Sound
      <4> QED
        BY <3>1, <3>2, <4>3, <4>4
    <3>3. CASE call' = OuterRaise(Faulted(call))
      <4>1. Faulted(call) = [call EXCEPT !.faults = call.faults + 1,
                                         !.stuck = call.stuck]
        BY <1>1 DEF Calls, Faulted
      <4> QED
        BY <3>1, <3>3, <4>1
    <3> QED
      BY <1>3, <3>2, <3>3
  <2> DEFINE c == [call EXCEPT !.faults = f, !.stuck = s]
  <2>2. /\ c \in Calls /\ c.outer = call.outer /\ c.inner = call.inner
        /\ c.closure = call.closure /\ c.force = call.force
        /\ c.faults = f /\ c.lapsed = call.lapsed
        /\ c.stuck = s /\ c.late = call.late
        /\ c.prompts = call.prompts /\ c.authorised = call.authorised
    BY <1>1 DEF Calls
  <2> HIDE DEF c
  <2>3. \/ c.outer = 2 /\ call' = [c EXCEPT !.outer = 1, !.at = "outerSleep"]
        \/ c.outer = 1 /\ call' = [c EXCEPT !.at = "failed"]
    BY <1>1, <2>1, <2>2, OuterRaised DEF c
  <2>4. /\ call' \in Calls
        /\ call'.closure = call.closure /\ call'.force = call.force
        /\ call'.faults = f /\ call'.lapsed = call.lapsed
        /\ call'.stuck = s /\ call'.late = call.late
        /\ call'.prompts = call.prompts
        /\ call'.authorised = call.authorised
        /\ call'.outer = 1
        /\ \/ call.outer = 2 /\ call'.at = "outerSleep"
           \/ call.outer = 1 /\ call'.at = "failed"
    <3>1. "outerSleep" \in Places /\ "failed" \in Places
      BY DEF Places, Outside
    <3>2. CASE c.outer = 2
               /\ call' = [c EXCEPT !.outer = 1, !.at = "outerSleep"]
      <4>1. 1 \in 0..2
        OBVIOUS
      <4>2. call' \in Calls
        BY <2>2, <3>1, <3>2, <4>1 DEF Calls
      <4> QED
        BY <2>2, <3>2, <4>2 DEF Calls
    <3>3. CASE c.outer = 1 /\ call' = [c EXCEPT !.at = "failed"]
      BY <2>2, <3>1, <3>3 DEF Calls
    <3> QED
      BY <2>3, <3>2, <3>3
  <2>5. \A u \in Tokens : Cached(u)' = Cached(u)
    BY <1>3, NotStored
  <2>6. Msa' = Msa /\ Cached("xsts")' = Cached("xsts")
    BY <2>5, TokensInFiles DEF Msa, Requests
  <2>7. CallType'
    BY <1>1, <1>3, <2>4 DEF AuthInv, CallType
  <2>8. Counted' /\ Held' /\ Asked'
    BY <1>1, <2>4, <2>6
    DEF AuthInv, Counted, Held, Asked, Outside, Loop, Requests, Calls
  <2>9. Withstood'
    <3>1. call.faults \in Nat
      BY <1>1 DEF Calls
    <3>2. CASE f = call.faults + 1 /\ s = call.stuck
      <4>1. f # 0 /\ (f = 1 => call.faults = 0)
        BY <3>1, <3>2
      <4>2. NoExcuse' => NoExcuse /\ ~Mishap
        BY <2>4, <3>2, <4>1 DEF NoExcuse, Mishap
      <4>3. Mishap' /\ (NoExcuse' => call.outer = 2)
        BY <1>1, <2>4, <4>1, <4>2 DEF AuthInv, Withstood, Mishap, Outside
      <4> QED
        BY <2>4, <4>3 DEF Withstood, Sound, Loop, Requests
    <3>3. CASE s
      BY <2>4, <3>3 DEF Withstood, NoExcuse
    <3>4. CASE f = call.faults /\ s = call.stuck /\ ~Sound
      <4>1. (NoExcuse' <=> NoExcuse) /\ (Mishap' <=> Mishap)
        BY <2>4, <3>4 DEF NoExcuse, Mishap
      <4>2. NoExcuse => Mishap /\ call.outer = 2
        BY <1>1, <3>4 DEF AuthInv, Withstood
      <4> QED
        BY <2>4, <4>1, <4>2 DEF Withstood, Sound, Loop, Requests
    <3> QED
      BY <2>1, <3>2, <3>3, <3>4
  <2> QED
    BY <2>7, <2>8, <2>9 DEF AuthInv
<1> QED
  BY <1>2, <1>3 DEF GetAccessToken

\* The requests after both loops.
LEMMA FetchProfileInv == AuthInv /\ FetchProfile => AuthInv'
<1> SUFFICES ASSUME AuthInv, FetchProfile PROVE AuthInv'
  OBVIOUS
<1>1. /\ call \in Calls /\ call.at = "profile"
      /\ UNCHANGED <<cache, refresh, corrupt>>
      /\ Cached("mca") \in Valid \/ "mca" \in call.lapsed
      /\ call.lapsed \subseteq Tokens
  BY DEF AuthInv, CallType, FetchProfile, Held, Calls
<1>2. /\ call' \in Calls /\ call'.at \in {"done", "failed"}
      /\ call'.prompts = call.prompts
      /\ call'.authorised = call.authorised
      /\ call'.lapsed = call.lapsed
      /\ call'.at = "failed" => call'.stuck \/ call'.late
  <2>0. "done" \in Places /\ "failed" \in Places
    BY DEF Places, Outside
  <2>1. CASE call' = [call EXCEPT !.at = "done"]
    BY <1>1, <2>0, <2>1, Moved
  <2>2. CASE /\ ~Accepted({"mca"})
             /\ call' = [Rejected(call, {"mca"}) EXCEPT
                            !.at = "failed", !.late = "mca" \in call.lapsed]
    <3> DEFINE s == call.stuck \/ Cached("mca") = "revoked"
               l == "mca" \in call.lapsed
    <3>1. s \in BOOLEAN /\ l \in BOOLEAN
      BY <1>1 DEF Calls
    <3>2. Rejected(call, {"mca"}) = [call EXCEPT !.stuck = s]
      BY Zenon DEF Rejected, OfOtherKey
    <3>3. s \/ l
      BY <1>1, <2>2 DEF Accepted, Valid
    <3>4. call' = [call EXCEPT !.stuck = s, !.at = "failed", !.late = l]
      BY <2>2, <3>2
    <3> HIDE DEF s, l
    <3> QED
      BY <1>1, <2>0, <3>1, <3>3, <3>4 DEF Calls
  <2>3. CASE call' = [Faulted(call) EXCEPT !.at = "failed", !.late = TRUE]
    <3>1. /\ Faulted(call) \in Calls
          /\ Faulted(call).prompts = call.prompts
          /\ Faulted(call).authorised = call.authorised
          /\ Faulted(call).lapsed = call.lapsed
      BY <1>1 DEF Faulted, Calls
    <3> QED
      BY <2>0, <2>3, <3>1 DEF Calls
  <2> QED
    BY <2>1, <2>2, <2>3 DEF FetchProfile
<1>3. Msa' = Msa
  BY <1>1, NotStored, TokensInFiles DEF Msa
<1>4. CallType'
  BY <1>1, <1>2 DEF AuthInv, CallType
<1>5. Counted' /\ Held' /\ Asked' /\ Withstood'
  BY <1>1, <1>2, <1>3
  DEF AuthInv, Counted, Held, Asked, Withstood, NoExcuse, Mishap, Sound,
      Outside, Loop, Requests
<1> QED
  BY <1>4, <1>5 DEF AuthInv

\* Time that passes.
LEMMA ExpireInv == AuthInv /\ Expire => AuthInv'
<1> SUFFICES ASSUME AuthInv, Expire PROVE AuthInv'
  OBVIOUS
<1>1. /\ call \in Calls
      /\ call.at \notin {"done", "failed"}
      /\ UNCHANGED <<refresh, corrupt>>
  BY DEF AuthInv, CallType, Expire
<1>2. PICK t \in Tokens :
        /\ cache[t] = "old" \/ (cache[t] = "new" /\ call.at = "idle")
        /\ cache' = [cache EXCEPT ![t] = "expired"]
        /\ call' = IF call.at = "idle" THEN call
                   ELSE [call EXCEPT !.lapsed = call.lapsed \cup {t}]
  BY DEF Expire
<1>3. cache' \in [Tokens -> Statuses]
  BY <1>2 DEF AuthInv, CallType, Statuses
<1>4. CASE call.at = "idle"
  BY <1>1, <1>2, <1>3, <1>4, EndedInv DEF AuthInv, CallType
<1>5. CASE call.at # "idle"
  <2>1. /\ call' \in Calls /\ call'.at = call.at
        /\ call'.outer = call.outer /\ call'.inner = call.inner
        /\ call'.closure = call.closure /\ call'.force = call.force
        /\ call'.faults = call.faults
        /\ call'.lapsed = call.lapsed \cup {t}
        /\ call'.stuck = call.stuck /\ call'.late = call.late
        /\ call'.prompts = call.prompts
        /\ call'.authorised = call.authorised
    <3>1. call.lapsed \cup {t} \in SUBSET Tokens
      BY <1>1 DEF Calls
    <3> QED
      BY <1>1, <1>2, <1>5, <3>1 DEF Calls
  <2>2. /\ cache[t] = "old" /\ cache'[t] = "expired"
        /\ \A u \in Tokens : u # t => cache'[u] = cache[u]
    BY <1>2, <1>5 DEF AuthInv, CallType
  <2>3. \A u \in Tokens : /\ u # t => Cached(u)' = Cached(u)
                          /\ Cached(u) = "new" => Cached(u)' = "new"
    BY <1>1, <2>2 DEF Cached
  <2>4. /\ Msa = "new" => Msa' = "new"
        /\ Had("user") => Had("user")'
        /\ Had("device") => Had("device")'
        /\ Had("title") => Had("title")'
        /\ Cached("mca")' = Cached("mca") \/ "mca" = t
    BY <2>1, <2>3, TokensInFiles DEF Msa, Had, Requests
  <2>5. CallType'
    BY <1>1, <1>3, <1>5, <2>1, <2>2 DEF AuthInv, CallType, Calls
  <2>6. Counted'
    BY <2>1 DEF AuthInv, Counted
  <2>7. Held'
    BY <2>1, <2>4 DEF AuthInv, Held
  <2>8. Asked'
    BY <2>1, <2>4 DEF AuthInv, Asked
  <2>9. Withstood'
    <3>1. ASSUME NoExcuse' PROVE NoExcuse /\ ~Mishap
      <4>1. t \notin call.lapsed
        BY <2>2 DEF AuthInv, CallType
      <4>2. call.faults = 0 /\ \A u \in call.lapsed : u = t
        BY <2>1, <3>1 DEF NoExcuse
      <4> QED
        BY <2>1, <3>1, <4>1, <4>2 DEF NoExcuse, Mishap
    <3>2. Mishap'
      BY <2>1 DEF Mishap
    <3>3. NoExcuse' => call.outer = 2
      <4>1. call.at \notin Outside
        BY <1>1, <1>5 DEF Outside
      <4> QED
        BY <3>1, <4>1 DEF AuthInv, Withstood, Counted
    <3> QED
      BY <1>1, <2>1, <3>2, <3>3 DEF Withstood
  <2> QED
    BY <2>5, <2>6, <2>7, <2>8, <2>9 DEF AuthInv
<1> QED
  BY <1>4, <1>5

\* What ends a call, or happens between two of them.
LEMMA BetweenCallsInv ==
  AuthInv /\ (Returns \/ Crash \/ Revoke) => AuthInv'
<1> SUFFICES ASSUME AuthInv, Returns \/ Crash \/ Revoke PROVE AuthInv'
  OBVIOUS
<1>1. call' = NoCall
  BY DEF Returns, Crash, Revoke, AuthInv, CallType
<1>2. cache' \in [Tokens -> Statuses]
  BY DEF Returns, Crash, Revoke, AuthInv, CallType, Statuses
<1>3. refresh' \in {"good", "dead"}
  BY DEF Returns, Crash, Revoke, AuthInv, CallType
<1>4. corrupt' \subseteq DOMAIN Files
  <2>1. Writing \subseteq DOMAIN Files
    BY TokensInFiles DEF Writing
  <2> QED
    BY <2>1 DEF Returns, Crash, Revoke, AuthInv, CallType
<1> QED
  BY <1>1, <1>2, <1>3, <1>4, EndedInv

\* Every step of a call keeps the invariant.
LEMMA AuthNextInv == AuthInv /\ [AuthNext]_authVars => AuthInv'
<1> SUFFICES ASSUME AuthInv, [AuthNext]_authVars PROVE AuthInv'
  OBVIOUS
<1>1. CASE \/ GetUserToken \/ GetDeviceToken \/ GetTitleToken \/ GetXstsToken
  <2>1. /\ {"user", "device", "title", "xsts"} \subseteq Requests
        /\ {"device", "title", "xsts", "login"} \subseteq Places
    BY DEF Requests, Places, Loop
  <2> QED
    BY <1>1, <2>1, ObtainInv
    DEF GetUserToken, GetDeviceToken, GetTitleToken, GetXstsToken
<1>2. CASE UNCHANGED authVars
  <2>1. \A u \in Tokens : Cached(u)' = Cached(u)
    BY <1>2, NotStored DEF authVars
  <2>2. call' = call /\ refresh' = refresh /\ cache' = cache
        /\ corrupt' = corrupt
    BY <1>2 DEF authVars
  <2>3. /\ Msa' = Msa /\ Mended' = Mended /\ Kept' = Kept
        /\ Cached("xsts")' = Cached("xsts")
        /\ Cached("mca")' = Cached("mca")
        /\ Had("user")' = Had("user") /\ Had("device")' = Had("device")
        /\ Had("title")' = Had("title")
    <3>1. call \in Calls
      BY DEF AuthInv, CallType
    <3> QED
      BY <2>1, <2>2, <3>1, TokensInFiles
      DEF Msa, Mended, Kept, Had, Requests, Calls
  <2> QED
    BY <2>2, <2>3
    DEF AuthInv, CallType, Counted, Held, Asked, Withstood, NoExcuse, Mishap,
        Sound
<1> QED
  BY <1>1, <1>2, StartInv, VerifyMcaInv, GetXboxTokenInv, VerifyMsaInv,
     AskUserInv, PollInv, GetAccessTokenInv, FetchProfileInv, RetryInv,
     BetweenCallsInv, ExpireInv
  DEF AuthNext

\* The invariant holds throughout, for any bound on the faults.
LEMMA AuthSpecInv == AuthSpec => []AuthInv
<1>1. AuthInit => AuthInv
  <2> SUFFICES ASSUME AuthInit PROVE AuthInv
    OBVIOUS
  <2>1. /\ call \in Calls /\ call = NoCall /\ call.at = "idle"
        /\ ~call.authorised /\ call.prompts = 0 /\ call.lapsed = {}
    BY DEF AuthInit, NoCall, Calls, Places, Outside
  <2>2. CallType
    BY <2>1 DEF AuthInit, CallType, Statuses
  <2>3. Counted /\ Held /\ Asked /\ Withstood
    BY <2>1
    DEF Counted, Held, Asked, Withstood, NoExcuse, Mishap, Sound, Outside,
        Loop, Requests
  <2> QED
    BY <2>2, <2>3 DEF AuthInv
<1> QED
  BY <1>1, AuthNextInv, PTL DEF AuthSpec

\* The user is asked four times at most, and not again once he has authorised
\* the program, however often the services fail.
THEOREM UserIsAskedRarely == AuthSpec => []UserIsSpared
<1>1. AuthInv => UserIsSpared
  <2> SUFFICES ASSUME AuthInv PROVE UserIsSpared
    OBVIOUS
  <2>1. call \in Calls
    BY DEF AuthInv, CallType
  <2>2. ASSUME call.at = "ask" PROVE call.prompts < 4
    <3>1. /\ call.outer \in {1, 2} /\ call.inner \in {1, 2}
          /\ call.prompts <= 2 * (2 - call.outer) + (2 - call.inner)
      BY <2>2 DEF AuthInv, Counted, Asked, Outside, Loop
    <3> QED
      BY <2>1, <3>1 DEF Calls
  <2> QED
    BY <2>2 DEF AuthInv, Asked, UserIsSpared
<1> QED
  BY <1>1, AuthSpecInv, PTL

\* A call does not fail for one mishap, a fault or a token that expires at any
\* point of the call, but for those that the property names, whatever tokens
\* have expired or were revoked before and wherever the program has crashed.
THEOREM MishapsAreSurvived == AuthSpec => []MishapIsSurvived
<1>1. AuthInv => MishapIsSurvived
  <2> SUFFICES ASSUME AuthInv, call.at = "failed",
                      ~(call.faults >= 2), ~call.late, ~call.stuck,
                      \A t, u \in call.lapsed : t = u
               PROVE  call.faults = 1 /\ call.lapsed # {}
    BY DEF MishapIsSurvived
  <2>1. call.faults \in Nat
    BY DEF AuthInv, CallType, Calls
  <2>2. ~NoExcuse
    BY DEF AuthInv, Withstood
  <2> QED
    BY <2>1, <2>2 DEF NoExcuse
<1> QED
  BY <1>1, AuthSpecInv, PTL

------------------------------------------------------------------------------
(* Yggdrasil.                                                               *)

USE YggdrasilAssumption

IssuedType ==
  issued \in Seq([account : Accounts, client : Nat])

\* The attributes are those of one issued token, or there is none yet.
TokenWhole ==
  token # NoToken =>
    /\ token.access_token \in DOMAIN issued
    /\ issued[token.access_token].client = token.client_token
    /\ issued[token.access_token].account = token.username
    /\ \/ partial
       \/ token.profile = issued[token.access_token].account

Names == Accounts \cup {"none"}
TokenType ==
  token \in [username : Names, access_token : Nat, client_token : Nat,
             profile : Names]

TokenInv ==
  /\ IssuedType
  /\ TokenType
  /\ TokenWhole

\* The elements of a sequence.
LEMMA IssuedElement ==
  ASSUME NEW S, NEW s \in Seq(S), NEW i \in DOMAIN s
  PROVE  s[i] \in S
  OBVIOUS

\* At first there is no token.
LEMMA TokenInitInv == TokenInit => TokenInv
<1> SUFFICES ASSUME TokenInit PROVE TokenInv
  OBVIOUS
<1>1. IssuedType
  BY DEF TokenInit, IssuedType
<1>2. TokenType
  <2>1. "none" \in Names /\ 0 \in Nat
    BY DEF Names
  <2>2. QED
    BY <2>1 DEF TokenInit, TokenType, NoToken
<1>3. QED
  BY <1>1, <1>2 DEF TokenInit, TokenInv, TokenWhole

\* A response keeps the attributes together, if the name that is assigned is
\* that of the account.
LEMMA IssuesInv ==
  ASSUME TokenInv,
         NEW a \in Accounts, NEW c \in Nat, NEW drops,
         Issues(a, c, drops, a)
  PROVE  TokenInv'
<1> DEFINE n == Len(issued) + 1
           one == [account |-> a, client |-> c]
<1>1. /\ issued' = Append(issued, one)
      /\ issued \in Seq([account : Accounts, client : Nat])
      /\ one \in [account : Accounts, client : Nat]
  BY DEF Issues, TokenInv, IssuedType
<1>2. IssuedType'
  BY <1>1 DEF IssuedType
<1>3. /\ n \in Nat
      /\ n \in DOMAIN issued'
      /\ issued'[n] = one
      /\ \A i \in DOMAIN issued : i \in DOMAIN issued' /\ issued'[i] = issued[i]
  BY <1>1
<1>4. CASE UNCHANGED <<token, partial>>
  BY <1>2, <1>3, <1>4 DEF TokenInv, TokenType, TokenWhole
<1>5. CASE /\ token' = Assigned(a, [account |-> a, access |-> n, client |-> c])
           /\ partial' = (a \in Gameless)
  <2>1. /\ token'.username = a /\ token'.access_token = n
        /\ token'.client_token = c
        /\ a \notin Gameless => token'.profile = a
    BY <1>5 DEF Assigned
  <2>2. TokenType'
    <3>1. a \in Names /\ token.profile \in Names
      BY DEF Names, TokenInv, TokenType
    <3>2. QED
      BY <1>3, <1>5, <3>1 DEF Assigned, TokenType
  <2>3. partial' \/ token'.profile = a
    <3>1. CASE a \in Gameless
      BY <1>5, <3>1, Zenon
    <3>2. CASE a \notin Gameless
      BY <2>1, <3>2
    <3>3. QED
      BY <3>1, <3>2
  <2>4. issued'[n].client = c /\ issued'[n].account = a
    BY <1>3
  <2>5. TokenWhole'
    BY <1>3, <2>1, <2>3, <2>4 DEF TokenWhole
  <2>6. QED
    BY <1>2, <2>2, <2>5 DEF TokenInv
<1>6. QED
  BY <1>4, <1>5 DEF Issues

\* Every operation keeps the attributes together.
LEMMA TokenNextInv == TokenInv /\ [TokenNext]_tokenVars => TokenInv'
<1> SUFFICES ASSUME TokenInv, [TokenNext]_tokenVars PROVE TokenInv'
  OBVIOUS
<1>1. ASSUME Authenticate PROVE TokenInv'
  <2>1. PICK a \in Accounts, invalidate \in BOOLEAN :
          Issues(a, IF ~invalidate /\ token.client_token # 0
                    THEN token.client_token ELSE Len(issued) + 1,
                 IF invalidate THEN OfAccount(a) ELSE {}, a)
    BY <1>1 DEF Authenticate
  <2>2. (IF ~invalidate /\ token.client_token # 0
         THEN token.client_token ELSE Len(issued) + 1) \in Nat
    BY DEF TokenInv, TokenType, IssuedType
  <2>3. QED
    BY <2>1, <2>2, IssuesInv
<1>2. ASSUME AuthenticateRejected PROVE TokenInv'
  BY <1>2 DEF AuthenticateRejected, tokenVars, TokenInv, IssuedType, TokenType,
      TokenWhole
<1>3. ASSUME Refresh PROVE TokenInv'
  <2>1. CASE UNCHANGED tokenVars
    BY <2>1 DEF tokenVars, TokenInv, IssuedType, TokenType,
      TokenWhole
  <2>2. CASE Issues(issued[token.access_token].account, token.client_token,
                    {token.access_token}, token.username)
             /\ token.client_token # 0
    <3>1. token # NoToken
      BY <2>2 DEF NoToken
    <3>2. /\ issued[token.access_token].account = token.username
          /\ issued[token.access_token].account \in Accounts
          /\ token.client_token \in Nat
      <4>1. /\ token.access_token \in DOMAIN issued
            /\ issued[token.access_token].account = token.username
        BY <3>1 DEF TokenInv, TokenWhole
      <4>2. issued[token.access_token] \in [account : Accounts, client : Nat]
        BY <4>1, IssuedElement DEF TokenInv, IssuedType
      <4>3. QED
        BY <4>1, <4>2 DEF TokenInv, TokenType
    <3>3. QED
      BY <2>2, <3>2, IssuesInv
  <2>3. QED
    BY <1>3, <2>1, <2>2 DEF Refresh
<1>4. ASSUME Invalidate PROVE TokenInv'
  BY <1>4 DEF Invalidate, TokenInv, IssuedType, TokenType,
      TokenWhole
<1>5. ASSUME SignOut PROVE TokenInv'
  BY <1>5 DEF SignOut, TokenInv, IssuedType, TokenType,
      TokenWhole
<1>6. CASE UNCHANGED tokenVars
  BY <1>6 DEF tokenVars, TokenInv, IssuedType, TokenType,
      TokenWhole
<1>7. QED
  BY <1>1, <1>2, <1>3, <1>4, <1>5, <1>6 DEF TokenNext

\* What join() sends was issued together, to the account of its user name and,
\* unless the last response had no profile, of its profile.
THEOREM TokenIsWhole == TokenSpec => []IdentityIsWhole
<1>1. TokenInv => IdentityIsWhole
  <2> SUFFICES ASSUME TokenInv, Authenticated PROVE IdentityIsWhole
    BY DEF IdentityIsWhole
  <2>1. token # NoToken
    BY DEF TokenInv, TokenType, Authenticated, NoToken
  <2>2. QED
    BY <2>1 DEF TokenInv, TokenWhole, IdentityIsWhole
<1>2. QED
  BY <1>1, TokenInitInv, TokenNextInv, PTL DEF TokenSpec
===============================================================================
