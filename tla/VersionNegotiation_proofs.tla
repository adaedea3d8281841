----------------------- MODULE VersionNegotiation_proofs -----------------------
(***************************************************************************)
(* Proofs about VersionNegotiation, for any supported versions, any        *)
(* versions of servers, and any choice of the allowed and the default ones.*)
(***************************************************************************)
EXTENDS VersionNegotiation, FiniteSetTheorems, WellFoundedInduction, TLAPS

Versions == Supported \cup Foreign

\* A finite set of numbers that is not empty has a latest one.  A smallest
\* counterexample would lose one of its elements and still have none.
LEMMA LatestExists ==
    ASSUME NEW S \in SUBSET Nat, IsFiniteSet(S), S # {}
    PROVE  \E x \in S : \A y \in S : x >= y
<1> DEFINE Bad == {U \in FiniteSubsetsOf(Nat) :
                      U # {} /\ ~\E x \in U : \A y \in U : x >= y}
<1>1. SUFFICES ASSUME Bad # {} PROVE FALSE
  BY DEF FiniteSubsetsOf
<1>2. PICK U \in Bad : \A V \in Bad : <<V, U>> \notin StrictSubsetOrdering(Nat)
  BY <1>1, WFMin, FS_StrictSubsetOrderingWellFounded
<1>3. U \subseteq Nat /\ IsFiniteSet(U) /\ U # {}
      /\ ~\E x \in U : \A y \in U : x >= y
  BY DEF FiniteSubsetsOf
<1>4. PICK x \in U : TRUE
  BY <1>3
<1> DEFINE V == U \ {x}
<1>5. IsFiniteSet(V) /\ V \subseteq Nat /\ V # U
  BY <1>3, <1>4, FS_RemoveElement
<1>6. <<V, U>> \in StrictSubsetOrdering(Nat)
  BY <1>3, <1>5 DEF StrictSubsetOrdering
<1>7. V \notin Bad
  BY <1>2, <1>6
<1>8. CASE V = {}
  BY <1>3, <1>4, <1>8
<1>9. CASE V # {}
  <2>1. PICK z \in V : \A y \in V : z >= y
    BY <1>5, <1>7, <1>9 DEF FiniteSubsetsOf
  <2>2. z \in Nat /\ x \in Nat /\ \A y \in U : y \in Nat /\ (y = x \/ z >= y)
    BY <2>1, <1>3, <1>4
  <2>3. CASE x >= z
    BY <2>2, <2>3, <1>3, <1>4
  <2>4. CASE z >= x
    BY <2>1, <2>2, <2>4, <1>3
  <2> QED
    BY <2>2, <2>3, <2>4
<1> QED
  BY <1>8, <1>9

\* Max is one of the versions, and of a single one it is that one.
LEMMA MaxFacts ==
    ASSUME NEW S \in SUBSET Supported, S # {}
    PROVE  /\ Max(S) \in S
           /\ \A x : S = {x} => Max(S) = x
           /\ IsFiniteSet(S)
<1>1. S \in SUBSET Nat /\ IsFiniteSet(S)
  BY VersionsAssumption, FS_Subset
<1>2. \E x \in S : \A y \in S : x >= y
  BY <1>1, LatestExists
<1>3. Max(S) \in S
  BY <1>2, Zenon DEF Max
<1> QED
  BY <1>1, <1>3

\* The inductive invariant: only the given versions or the default one are
\* allowed, a query under way is the first and has no answer yet, and a login
\* under way has the version agreed on.
Negotiated ==
    /\ default \in Supported
    /\ allowed_versions \subseteq Supported
    /\ allowed \subseteq allowed_versions \cup {default}
    /\ server \in Versions
    /\ phase = "status" => queries = 1 /\ reported = None

NegotiationInv == TypeOK /\ Negotiated /\ OneQuery /\ LoginIsAgreed

\* connect() with versions that may be allowed: one version is logged in with,
\* several are asked about.
LEMMA ConnectWithFacts ==
    ASSUME NEW S \in SUBSET Supported, S # {}, NEW n \in Nat, ConnectWith(S, n)
    PROVE  /\ version' \in S
           /\ \/ phase' = "login" /\ queries' = n /\ S = {version'}
              \/ phase' = "status" /\ queries' = n + 1 /\ Cardinality(S) # 1
<1>1. version' \in S
  BY MaxFacts DEF ConnectWith
<1>2. CASE Cardinality(S) = 1
  <2>1. PICK x : S = {x}
    BY <1>2, MaxFacts, FS_Singleton
  <2> QED
    BY <1>1, <1>2, <2>1 DEF ConnectWith
<1>3. CASE Cardinality(S) # 1
  BY <1>1, <1>3 DEF ConnectWith
<1> QED
  BY <1>2, <1>3

\* handle_proto_version leaves one version, and logs in with it.
LEMMA HandleFacts ==
    ASSUME NEW x \in Supported, HandleProtoVersion(x), queries \in Nat
    PROVE  /\ allowed' = {x} /\ version' = x
           /\ phase' = "login" /\ queries' = queries
<1> DEFINE S == {x}
<1>1. S \in SUBSET Supported /\ S # {} /\ Cardinality(S) = 1
  BY FS_Singleton
<1>2. ConnectWith(S, queries) /\ allowed' = S
  BY DEF HandleProtoVersion
<1> HIDE DEF S
<1>3. version' \in S /\ phase' = "login" /\ queries' = queries
  BY <1>1, <1>2, ConnectWithFacts
<1> QED
  BY <1>2, <1>3 DEF S

\* Initially nothing has been asked.
LEMMA InitNegotiated == Init => NegotiationInv
<1> SUFFICES ASSUME Init PROVE NegotiationInv
  OBVIOUS
<1>1. version \in allowed_versions
  BY MaxFacts DEF Init
<1>2. /\ allowed_versions \in (SUBSET Supported) \ {{}} /\ default \in Supported
      /\ allowed = allowed_versions /\ phase = "idle" /\ mismatch = None
      /\ server \in Supported \cup Foreign /\ queries = 0 /\ reported = None
  BY DEF Init
<1> QED
  BY <1>1, <1>2
  DEF NegotiationInv, TypeOK, Negotiated, OneQuery, LoginIsAgreed, Versions

\* Every step of the negotiation preserves the invariant.
LEMMA NextNegotiated == NegotiationInv /\ [Next]_vars => NegotiationInv'
<1> SUFFICES ASSUME NegotiationInv, [Next]_vars PROVE NegotiationInv'
  OBVIOUS
<1> USE DEF NegotiationInv
<1>1. CASE Connect
  <2>1. /\ ConnectWith(allowed, 0) /\ mismatch' = None /\ reported' = None
        /\ UNCHANGED <<allowed_versions, default, allowed, server>>
    BY <1>1 DEF Connect, settings
  <2>2. allowed \in SUBSET Supported /\ allowed # {}
    BY DEF TypeOK
  <2>3. /\ version' \in allowed
        /\ \/ phase' = "login" /\ queries' = 0
           \/ phase' = "status" /\ queries' = 1
    BY <2>1, <2>2, ConnectWithFacts
  <2> QED
    BY <2>1, <2>2, <2>3 DEF TypeOK, Negotiated, OneQuery, LoginIsAgreed
<1>2. CASE VersionReported
  <2>1. /\ phase = "status" /\ server \in allowed /\ reported' = server
        /\ HandleProtoVersion(server)
        /\ UNCHANGED <<allowed_versions, default, mismatch, server>>
    BY <1>2 DEF VersionReported, settings
  <2>2. server \in Supported /\ queries = 1
    BY <2>1 DEF TypeOK, Negotiated
  <2>3. /\ allowed' = {server} /\ version' = server
        /\ phase' = "login" /\ queries' = 1
    BY <2>1, <2>2, HandleFacts
  <2> QED
    BY <2>1, <2>2, <2>3
    DEF TypeOK, Negotiated, OneQuery, LoginIsAgreed, Versions
<1>3. CASE NoVersionReported
  <2>1. /\ phase = "status" /\ HandleProtoVersion(default)
        /\ UNCHANGED <<allowed_versions, default, mismatch, server, reported>>
    BY <1>3 DEF NoVersionReported, settings
  <2>2. default \in Supported /\ queries = 1 /\ reported = None
    BY <2>1 DEF Negotiated
  <2>3. /\ allowed' = {default} /\ version' = default
        /\ phase' = "login" /\ queries' = 1
    BY <2>1, <2>2, HandleFacts
  <2> QED
    BY <2>1, <2>2, <2>3
    DEF TypeOK, Negotiated, OneQuery, LoginIsAgreed, Versions
<1>4. CASE VersionNotAllowed
  BY <1>4
  DEF VersionNotAllowed, settings, TypeOK, Negotiated, OneQuery, LoginIsAgreed,
      Versions
<1>5. CASE StatusInvalid \/ LoginSucceeds \/ ConnectionFails \/ Disconnect
  BY <1>5
  DEF StatusInvalid, LoginSucceeds, ConnectionFails, Disconnect, settings,
      history, TypeOK, Negotiated, OneQuery, LoginIsAgreed
<1>6. CASE LoginOutdated
  BY <1>6
  DEF LoginOutdated, settings, TypeOK, Negotiated, OneQuery, LoginIsAgreed,
      Versions
<1>7. CASE ServerChanges
  BY <1>7
  DEF ServerChanges, settings, history, TypeOK, Negotiated, OneQuery,
      LoginIsAgreed, Versions
<1>8. CASE UNCHANGED vars
  BY <1>8 DEF vars, settings, history, TypeOK, Negotiated, OneQuery,
      LoginIsAgreed
<1> QED
  BY <1>1, <1>2, <1>3, <1>4, <1>5, <1>6, <1>7, <1>8 DEF Next

\* The invariant holds in every reachable state.
THEOREM NegotiationInvariant == Spec => []NegotiationInv
<1> QED
  BY InitNegotiated, NextNegotiated, PTL DEF Spec

\* There is always a version left to connect with, so that connect() never
\* takes the latest of none (419-421).
THEOREM AlwaysAVersion == Spec => []TypeOK
<1>1. NegotiationInv => TypeOK
  BY DEF NegotiationInv
<1> QED
  BY <1>1, NegotiationInvariant, PTL

\* The server is asked for its status at most once for each connect(), as a
\* version that was reported, or the default one, is all that stays allowed
\* (435-453, 1018-1023).
THEOREM NegotiationEnds == Spec => []OneQuery
<1>1. NegotiationInv => OneQuery
  BY DEF NegotiationInv
<1> QED
  BY <1>1, NegotiationInvariant, PTL

\* The version logged in with was allowed or is the default one, and is the
\* reported one if one was reported (999-1020).
THEOREM VersionIsAgreed == Spec => []LoginIsAgreed
<1>1. NegotiationInv => LoginIsAgreed
  BY DEF NegotiationInv
<1> QED
  BY <1>1, NegotiationInvariant, PTL
================================================================================
