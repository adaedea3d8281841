-------------------------- MODULE VersionNegotiation --------------------------
(***************************************************************************)
(* Which protocol version a connection is made with: connect() logs in at  *)
(* once if one version is allowed, and otherwise asks the server for its   *)
(* status first; PlayingStatusReactor narrows the allowed versions to the  *)
(* one the server reported, or to the default version if the server does   *)
(* not answer properly, and connects again.  Versions are numbered in the  *)
(* order of PROTOCOL_VERSION_INDICES.  The interleaving of the threads     *)
(* that do this is in ConnectionThreads; here each step is one of them.    *)
(***************************************************************************)
EXTENDS Naturals, FiniteSets, FiniteSetsExt

CONSTANTS
    Supported, \* SUPPORTED_PROTOCOL_VERSIONS
    Foreign    \* versions that only servers have

ASSUME VersionsAssumption ==
    /\ Supported \subseteq Nat \ {0} /\ Foreign \subseteq Nat \ {0}
    /\ IsFiniteSet(Supported) /\ Supported # {}
    /\ Supported \cap Foreign = {}

VARIABLES
    allowed_versions, \* what the constructor was given
    allowed,          \* allowed_proto_versions
    default,          \* default_proto_version
    version,          \* context.protocol_version
    phase,            \* "idle", "status", "login", "play", "failed"
    mismatch,         \* server_protocol of the VersionMismatch raised (or None)
    server,           \* the version that the server has
    queries,          \* status queries since connect() was called (history)
    reported          \* the version reported since then, or None (history)

vars == <<allowed_versions, allowed, default, version, phase, mismatch, server,
          queries, reported>>
settings == <<allowed_versions, default>>
history == <<queries, reported>>

None == 0

\* Without initial_version, the default is the latest allowed version.
Init ==
    /\ allowed_versions \in (SUBSET Supported) \ {{}}
    /\ default \in Supported
    /\ allowed = allowed_versions
    /\ version = Max(allowed_versions)
    /\ phase = "idle"
    /\ mismatch = None
    /\ server \in Supported \cup Foreign
    /\ queries = 0
    /\ reported = None

\* connect(), with the versions vs allowed.
ConnectWith(vs, n) ==
    /\ version' = Max(vs)
    /\ IF Cardinality(vs) = 1
       THEN phase' = "login" /\ queries' = n
       ELSE phase' = "status" /\ queries' = n + 1

\* The user connects, for the first time or again.
Connect ==
    /\ phase \in {"idle", "failed"}
    /\ ConnectWith(allowed, 0)
    /\ mismatch' = None
    /\ reported' = None
    /\ UNCHANGED <<settings, allowed, server>>

\* Faulty variant: the allowed versions are not narrowed.
HandleUnnarrowed(proto) ==
    /\ allowed' = allowed
    /\ ConnectWith(allowed, queries)

\* handle_proto_version: no other version is allowed from now on.
HandleProtoVersion(proto) ==
    /\ allowed' = {proto}
    /\ ConnectWith({proto}, queries)

\* The server reports a version that is allowed.
VersionReported ==
    /\ phase = "status"
    /\ server \in allowed
    /\ reported' = server
    /\ HandleProtoVersion(server)
    /\ UNCHANGED <<settings, mismatch, server>>

\* It reports another one: VersionMismatch.
VersionNotAllowed ==
    /\ phase = "status"
    /\ server \notin allowed
    /\ reported' = server
    /\ mismatch' = server
    /\ phase' = "failed"
    /\ UNCHANGED <<settings, allowed, version, server, queries>>

\* Faulty variant: the latest allowed version is used.
NoVersionReportedLatest ==
    /\ phase = "status"
    /\ HandleProtoVersion(Max(Supported))
    /\ UNCHANGED <<settings, mismatch, server, reported>>

\* The status has no version, or the server closes the connection.
NoVersionReported ==
    /\ phase = "status"
    /\ HandleProtoVersion(default)
    /\ UNCHANGED <<settings, mismatch, server, reported>>

\* The status is empty or no JSON, or another exception ends the query.
StatusInvalid ==
    /\ phase = "status"
    /\ phase' = "failed"
    /\ UNCHANGED <<settings, allowed, version, mismatch, history, server>>

LoginSucceeds ==
    /\ phase = "login"
    /\ version = server
    /\ phase' = "play"
    /\ UNCHANGED <<settings, allowed, version, mismatch, history, server>>

\* The server has another version, and names it in its disconnect packet.
LoginOutdated ==
    /\ phase = "login"
    /\ version # server
    /\ mismatch' = server
    /\ phase' = "failed"
    /\ UNCHANGED <<settings, allowed, version, server, queries, reported>>

\* The connection fails for another reason.
ConnectionFails ==
    /\ phase \in {"login", "play"}
    /\ phase' = "failed"
    /\ UNCHANGED <<settings, allowed, version, mismatch, history, server>>

\* The user, or a disconnect packet in the play state.
Disconnect ==
    /\ phase \in {"status", "login", "play"}
    /\ phase' = "idle"
    /\ UNCHANGED <<settings, allowed, version, mismatch, history, server>>

\* The server is restarted with another version, perhaps between the query and
\* the login; in the play state the client would see its connection end first.
ServerChanges ==
    /\ phase # "play"
    /\ server' \in (Supported \cup Foreign) \ {server}
    /\ UNCHANGED <<settings, allowed, version, phase, mismatch, history>>

Next ==
    \/ Connect \/ VersionReported \/ VersionNotAllowed \/ NoVersionReported
    \/ StatusInvalid \/ LoginSucceeds \/ LoginOutdated \/ ConnectionFails
    \/ Disconnect \/ ServerChanges

Spec == Init /\ [][Next]_vars

------------------------------------------------------------------------------
(* Properties.                                                              *)

\* The variables have their types, and there is always a version allowed, so
\* that connect() finds a latest one (419-421).
TypeOK ==
    /\ allowed \in (SUBSET Supported) \ {{}}
    /\ version \in Supported
    /\ phase \in {"idle", "status", "login", "play", "failed"}
    /\ mismatch \in Supported \cup Foreign \cup {None}
    /\ queries \in Nat
    /\ reported \in Supported \cup Foreign \cup {None}

\* A connect() asks for the status at most once, whatever the server answers
\* and however often the connection was made before: the negotiation does
\* not go round in circles (435-453, 1018-1023).
OneQuery == queries <= 1

\* The client only logs in with a version that was allowed, or with the
\* default version, and if the server has reported a version since connect()
\* was called, with that one (999-1020).
LoginIsAgreed ==
    phase \in {"login", "play"} =>
        /\ version \in allowed_versions \cup {default}
        /\ reported # None => version = reported

------------------------------------------------------------------------------
(* Claims that the code does not keep.                                      *)

\* connection.py 585-587: a mismatch with a supported version means that it
\* is "supported, but not allowed for this connection".
MismatchIsForbidden == mismatch # None => mismatch \notin allowed_versions
==============================================================================
