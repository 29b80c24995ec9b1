---------------------------- MODULE StartResolve ----------------------------
(***************************************************************************)
(* The start profile's resolver and the construction it feeds              *)
(* (sdks/rust/src/start/resolve.rs, start/names.rs, start/env.rs,          *)
(*  application/mode.rs, domain/validation.rs, infrastructure/hosts.rs).   *)
(*                                                                         *)
(* Options and an environment in, a mode, an endpoint and a key or an      *)
(* error out. The environment is a callback of the application, asked one  *)
(* name at a time and only when every earlier source was unset, so its     *)
(* answers are chosen here as the resolver asks. A blank value counts as   *)
(* unset everywhere. A URL is its scheme, its host and whether the         *)
(* resolver's own parser, which is stricter than the core's, takes the     *)
(* rest of it; one without scheme or host has host None.                   *)
(***************************************************************************)
EXTENDS Naturals, Sequences, FiniteSets

CONSTANTS
    ProjectKeys,    \* keys of the right family
    ForeignKeys,    \* browser, vendor, organisation and CLI keys
    Urls,           \* endpoints the application or the environment may name
    DefaultUrl,     \* this build's channel endpoint
    DevNames,       \* environment names that mean local development
    OtherNames,     \* every other environment name
    None

Loopback        == {"localhost", "127.0.0.1", "::1"}
DefaultAllowed  == {"app-server.fireweave.ai", "staging-app-server.fireweave.ai"} \cup Loopback

ASSUME DefaultUrlAssumption ==
    DefaultUrl.scheme = "https" /\ DefaultUrl.host \in DefaultAllowed
ASSUME NoneAssumption ==
    /\ None \notin ProjectKeys \cup ForeignKeys \cup Urls \cup DevNames \cup OtherNames
    /\ None \notin DefaultAllowed \cup {"local", "remote"}
ASSUME NamesAssumption ==
    ProjectKeys \cap ForeignKeys = {} /\ DevNames \cap OtherNames = {}

VARIABLES
    options,    \* StartOptions: mode, key, url, environment
    phase,      \* what is being picked, or where the start has got to
    at,         \* the source asked next
    reads,      \* the names looked up, with their answers, in order
    key, url,   \* what has been picked, with its source
    warned,     \* the sources of the warnings: legacy names, an ignored key
    result

vars == <<options, phase, at, reads, key, url, warned, result>>

-----------------------------------------------------------------------------
(* Sources, in order: the option, the variables, the legacy variables.     *)

\* Mutant: a legacy name is asked before its replacement.
LegacyFirst(what) ==
    CASE what = "key"         -> <<"option", "FW_PROJECT_API_KEY", "FIREWEAVE_KEY">>
      [] what = "url"         -> <<"option", "FIREWEAVE_URL", "FW_API_URL", "FW_ATTEST_URL">>
      [] what = "environment" -> <<"option", "FIREWEAVE_ENV", "APP_ENV">>

Sources(what) ==
    CASE what = "key"         -> <<"option", "FIREWEAVE_KEY", "FW_PROJECT_API_KEY">>
      [] what = "url"         -> <<"option", "FIREWEAVE_URL", "FW_API_URL", "FW_ATTEST_URL">>
      [] what = "environment" -> <<"option", "FIREWEAVE_ENV", "APP_ENV">>

Legacy  == {"FW_PROJECT_API_KEY", "FW_API_URL", "FW_ATTEST_URL"}
Retired == "FW_ENV"

Values(what) ==
    CASE what = "key"         -> ProjectKeys \cup ForeignKeys
      [] what = "url"         -> Urls
      [] what = "environment" -> DevNames \cup OtherNames

Modes   == {None, "local", "remote"}
Options == [mode : Modes,
            key : Values("key") \cup {None},
            url : Values("url") \cup {None},
            environment : Values("environment") \cup {None}]

Init ==
    /\ options \in Options
    /\ phase = IF options.mode = "local" THEN "ignoredKey" ELSE "key"
    /\ at = 1
    /\ reads = <<>>
    /\ key = None
    /\ url = None
    /\ warned = {}
    /\ result = None

Picking == {"ignoredKey", "key", "url", "environment"}
What    == IF phase = "ignoredKey" THEN "key" ELSE phase
Source  == Sources(What)[at]

\* The source asked next answers v: an option is there to see, a variable is
\* asked of the environment.
Asked(v) ==
    /\ phase \in Picking
    /\ v \in Values(What) \cup {None}
    /\ IF Source = "option"
         THEN v = options[What] /\ UNCHANGED reads
         ELSE reads' = Append(reads, [name |-> Source, value |-> v])

Taken(v) == Asked(v) /\ v # None

Exhausted == Asked(None) /\ at = Len(Sources(What))

\* pick: an unset source, with more to come.
Unset ==
    /\ Asked(None)
    /\ at < Len(Sources(What))
    /\ at' = at + 1
    /\ UNCHANGED <<options, phase, key, url, warned, result>>

Picked(v) == [value |-> v, source |-> Source]

\* Mutant: every name that is used is warned about ...
WarnAlways == {<<"legacy", Source>>}

\* ... or none.
WarnNever == {}

\* The warning for a legacy name that is used. An error drops it.
Warn == {"legacy"} \X ({Source} \cap Legacy)

Ends(outcome) == phase' = "done" /\ at' = 1 /\ result' = outcome
GoesOn(next)  == phase' = next /\ at' = 1 /\ UNCHANGED result

Error(why)   == [mode |-> "error", why |-> why]
Local(why)   == [mode |-> "local", why |-> why]

-----------------------------------------------------------------------------
(* Mode Local: the key is looked for only to say that it is ignored.       *)

IgnoreKey ==
    /\ phase = "ignoredKey"
    /\ \/ \E v \in Values("key") : Taken(v) /\ warned' = {<<"ignored", Source>>}
       \/ Exhausted /\ UNCHANGED warned
    /\ Ends(Local("option"))
    /\ UNCHANGED <<options, key, url>>

(* Otherwise the key decides. *)

TakeKey ==
    /\ phase = "key"
    /\ \E v \in Values("key") :
          /\ Taken(v)
          /\ key' = Picked(v)
          /\ IF v \in ForeignKeys
               THEN Ends(Error("keyFamily")) /\ warned' = {}
               ELSE GoesOn("url") /\ warned' = warned \cup Warn
    /\ UNCHANGED <<options, url>>

NoKey ==
    /\ phase = "key"
    /\ Exhausted
    /\ IF options.mode = "remote"
         THEN Ends(Error("keyNeeded"))
         ELSE GoesOn("environment")
    /\ UNCHANGED <<options, key, url, warned>>

\* The retired name is read, if no environment is named, to word the error.
AsksRetired(name) == name = None

\* Without a key an environment name chooses local mode, if it is a
\* development name.
TakeEnvironment ==
    /\ phase = "environment"
    /\ \E v \in Values("environment") :
          /\ Taken(v)
          /\ IF v \in DevNames THEN Ends(Local("environment"))
             ELSE IF AsksRetired(v) THEN GoesOn("retired")
             ELSE Ends(Error("noKey"))
    /\ UNCHANGED <<options, key, url, warned>>

NoEnvironment ==
    /\ phase = "environment"
    /\ Exhausted
    /\ IF AsksRetired(None) THEN GoesOn("retired") ELSE Ends(Error("noKey"))
    /\ UNCHANGED <<options, key, url, warned>>

AskRetired ==
    /\ phase = "retired"
    /\ \E set \in BOOLEAN : reads' = Append(reads, [name |-> Retired, value |-> set])
    /\ Ends(Error("noKey"))
    /\ UNCHANGED <<options, key, url, warned>>

-----------------------------------------------------------------------------
(* The endpoint of a remote start. *)

Web(u) == u.scheme \in {"http", "https"} /\ u.host # None

Encrypted(u) == u.scheme = "https" \/ u.host \in Loopback

TakeUrl ==
    /\ phase = "url"
    /\ \E v \in Values("url") :
          /\ Taken(v)
          /\ url' = Picked(v)
          /\ IF Web(v) /\ v.strict /\ Encrypted(v)
               THEN GoesOn("build") /\ warned' = warned \cup Warn
               ELSE Ends(Error("endpoint")) /\ warned' = {}
    /\ UNCHANGED <<options, key>>

NoUrl ==
    /\ phase = "url"
    /\ Exhausted
    /\ url' = [value |-> DefaultUrl, source |-> "channel"]
    /\ GoesOn("build")
    /\ UNCHANGED <<options, key, warned>>

\* Mutant: an overriding endpoint gets the default allowlist too.
AllowedDefault == {}

\* resolve_url: an override is allowed beside loopback; the default endpoint
\* is on the core's own list, which an empty one stands for.
Allowed == IF url.source = "channel" THEN {} ELSE {url.value.host} \cup Loopback

\* assert_host_allowed: the core parses the endpoint again, encrypts what
\* leaves the machine, and falls back to `otherwise` when no list is given.
HostAllowed(u, hosts, otherwise) ==
    /\ Web(u)
    /\ u.scheme = "https" \/ u.host \in Loopback
    /\ u.host \in IF hosts = {} THEN otherwise ELSE hosts

\* init_fireweave, for a remote start, and the check its adapter repeats with
\* a fallback of its own.
Build ==
    /\ phase = "build"
    /\ Ends(IF /\ HostAllowed(url.value, Allowed, DefaultAllowed)
               /\ HostAllowed(url.value, Allowed, {url.value.host} \cup Loopback)
              THEN [mode |-> "remote", why |-> IF options.mode = "remote" THEN "option" ELSE "key"]
              ELSE Error("invalidConfiguration"))
    /\ UNCHANGED <<options, reads, key, url, warned>>

Next ==
    \/ Unset \/ IgnoreKey
    \/ TakeKey \/ NoKey
    \/ TakeEnvironment \/ NoEnvironment \/ AskRetired
    \/ TakeUrl \/ NoUrl
    \/ Build

Spec == Init /\ [][Next]_vars

-----------------------------------------------------------------------------
(* What a start should come to, from the options, the answers of the       *)
(* environment and the order of precedence alone.                          *)

Family(what) ==
    CASE what = "key"         -> {"FIREWEAVE_KEY", "FW_PROJECT_API_KEY"}
      [] what = "url"         -> {"FIREWEAVE_URL", "FW_API_URL", "FW_ATTEST_URL"}
      [] what = "environment" -> {"FIREWEAVE_ENV", "APP_ENV"}

Pick == [value : UNION {Values("key"), Urls, {DefaultUrl}},
         source : UNION {{"option", "channel"}, Family("key"), Family("url")}]

Outcomes ==
    [mode : {"local"}, why : {"option", "environment"}]
      \cup [mode : {"remote"}, why : {"option", "key"}]
      \cup [mode : {"error"}, why : {"keyFamily", "keyNeeded", "noKey", "endpoint",
                                    "invalidConfiguration"}]

ASSUME PickAssumption == None \notin Pick \cup Outcomes

Rank(name) ==
    CASE name \in {"FIREWEAVE_KEY", "FIREWEAVE_URL", "FIREWEAVE_ENV"}   -> 1
      [] name \in {"FW_PROJECT_API_KEY", "FW_API_URL", "APP_ENV"}       -> 2
      [] name = "FW_ATTEST_URL"                                         -> 3

Answered(name, v) == \E i \in DOMAIN reads : reads[i] = [name |-> name, value |-> v]

\* No source of `what` that outranks `name` was set.
Outranked(what, name) ==
    /\ options[what] = None
    /\ \A other \in Family(what) : Rank(other) < Rank(name) => Answered(other, None)

Means(what, v) ==
    \/ options[what] = v
    \/ \E name \in Family(what) : Answered(name, v) /\ Outranked(what, name)

Missing(what) ==
    options[what] = None /\ \A name \in Family(what) : Answered(name, None)

Usable(u) ==
    /\ u.host # None /\ u.strict
    /\ u.scheme = "https" \/ (u.scheme = "http" /\ u.host \in Loopback)

-----------------------------------------------------------------------------
(* Properties *)

Names == Family("key") \cup Family("url") \cup Family("environment") \cup {Retired}

\* Every variable keeps its type, and legacy warnings name legacy names. A
\* start is over exactly when it has come to an outcome, and a remote one
\* then has a key and an endpoint.
TypeOK ==
    /\ options \in Options
    /\ phase \in Picking \cup {"retired", "build", "done"}
    /\ at \in 1..4
    /\ \A i \in DOMAIN reads : reads[i].name \in Names
    /\ key \in {None} \cup [value : Values("key"), source : {"option"} \cup Family("key")]
    /\ url \in {None} \cup [value : Urls \cup {DefaultUrl},
                            source : {"option", "channel"} \cup Family("url")]
    /\ warned \subseteq ({"legacy"} \X Legacy) \cup ({"ignored"} \X ({"option"} \cup Family("key")))
    /\ result \in {None} \cup Outcomes
    /\ phase = "done" <=> result # None
    /\ phase = "done" /\ result.mode = "remote" => None \notin {key, url}

\* The mode is the one the rules name, whichever sources were asked on the
\* way: local if asked for, or without any key under a development name;
\* remote with a project key and a usable endpoint; an error otherwise, so
\* that a deployment which lost its key never serves local decisions.
\* (resolve, resolve_key, resolve_url)
FollowsPrecedence ==
    phase = "done" =>
      /\ result.mode = "local" <=>
           \/ options.mode = "local"
           \/ /\ options.mode = None /\ Missing("key")
              /\ \E name \in DevNames : Means("environment", name)
      /\ result.mode = "remote" <=>
           /\ options.mode # "local"
           /\ \E k \in ProjectKeys : Means("key", k) /\ key.value = k
           /\ \/ Missing("url") /\ url.value = DefaultUrl
              \/ \E u \in Urls : Means("url", u) /\ Usable(u) /\ url.value = u

\* The environment is asked for a name once, and only when the answer can
\* still matter: what outranks it is unset, an endpoint is for a project key,
\* an environment name for a start without any, and the retired name for one
\* without either. (pick, no_key_error)
LazyReads ==
    \A i \in DOMAIN reads :
        LET name == reads[i].name IN
        /\ \A j \in DOMAIN reads : reads[j].name = name => j = i
        /\ \A what \in {"key", "url", "environment"} :
               name \in Family(what) => Outranked(what, name)
        /\ name \in Family("url") => \E k \in ProjectKeys : Means("key", k)
        /\ name \in Family("environment") \cup {Retired} => Missing("key")
        /\ name = Retired => Missing("environment")

\* What the resolver takes, init_fireweave and its adapter take: the two URL
\* parsers and the allowlists agree, whatever host an override names.
ResolvedIsAccepted ==
    phase = "done" => result.why # "invalidConfiguration"

\* A start that succeeds warns exactly of the legacy names whose values it
\* uses and of a key it ignores. (pick, resolve)
WarnsOfWhatItUses ==
    phase = "done" /\ result.mode # "error" =>
      /\ options.mode = "local" =>
           Cardinality(warned) = IF Missing("key") THEN 0 ELSE 1
      /\ options.mode # "local" =>
           warned = {"legacy"} \X ({p.source : p \in {key, url} \ {None}} \cap Legacy)
=============================================================================
