---------------------------- MODULE MCBeforeLogin ----------------------------
(***************************************************************************)
(* For TLC: what is settled before a login, the version that it is made    *)
(* with and the account, of which there are two kinds.  These have no      *)
(* state in common, so a behaviour is about one of them and leaves the     *)
(* others as they are initially.                                           *)
(***************************************************************************)
EXTENDS VersionNegotiation, MicrosoftAuth, Yggdrasil

VARIABLE part   \* what this behaviour is about

BeforeLoginInit ==
  /\ part \in {"version", "microsoft", "yggdrasil"}
  /\ Init
  /\ part # "version" =>
       allowed_versions = {1} /\ default = 1 /\ server = 1
  /\ AuthInit
  /\ TokenInit

BeforeLoginNext ==
  \/ part = "version" /\ Next /\ UNCHANGED <<part, authVars, tokenVars>>
  \/ part = "microsoft" /\ AuthNext /\ UNCHANGED <<part, vars, tokenVars>>
  \/ part = "yggdrasil" /\ TokenNext /\ UNCHANGED <<part, vars, authVars>>

BeforeLoginSpec ==
  BeforeLoginInit
    /\ [][BeforeLoginNext]_<<part, vars, authVars, tokenVars>>
==============================================================================
