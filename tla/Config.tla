------------------------------- MODULE Config -------------------------------
(***************************************************************************)
(* The settings of Page Hub (internal/config/config.go): what Validate     *)
(* accepts, and what becomes of the public base URL, which serve, plan and *)
(* commit read each for itself.                                            *)
(*                                                                         *)
(* A setting is the class of values the code tells apart; a public base    *)
(* URL is an http(s) origin followed by slashes, or something else.        *)
(*                                                                         *)
(* Not covered: the S3 settings, which are passed on unchecked (module     *)
(* StorageReader has what comes of them), and the parsing of numbers.      *)
(***************************************************************************)
EXTENDS Integers

CONSTANT MaxSlashes     \* bound on the slashes after an origin (model only)

ASSUME MaxSlashesAssumption == MaxSlashes \in Nat

BaseURLs == [origin : BOOLEAN, slashes : 0..MaxSlashes]

\* NormalizePublicBaseURL takes off one slash, and lets any more stay; only an
\* origin passes.
AcceptsBaseURL(b) == b.origin
NormalizePublicBaseURL(b) ==
    [b EXCEPT !.slashes = IF b.slashes = 0 THEN 0 ELSE b.slashes - 1]

Listeners == {"", "loopback", "unix socket", "any host"}

Settings ==
    [listen : Listeners, catalog : {"", "path"}, quota : {-1, 0, 1},
     base : BaseURLs, header : {"", "name", "bad name"}, value : {"", "right"},
     bypass : BOOLEAN, login : {"", "absolute", "relative", "neither"}]

IsLoopbackListener(address) == address \in {"loopback", "unix socket"}

\* Faulty variant of ValidSettings: the bypass may listen anywhere.
ValidSettings_BypassAnywhere(c) ==
    /\ c.listen # "" /\ c.catalog # "" /\ c.quota > 0
    /\ AcceptsBaseURL(c.base)
    /\ c.header = "name"
    /\ c.bypass \/ c.value # ""
    /\ c.login # "neither"

\* Config.Validate
ValidSettings(c) ==
    /\ c.listen # "" /\ c.catalog # "" /\ c.quota > 0
    /\ AcceptsBaseURL(c.base)
    /\ c.header = "name"
    /\ c.bypass \/ c.value # ""
    /\ c.bypass => IsLoopbackListener(c.listen)
    /\ c.login # "neither"

=============================================================================
