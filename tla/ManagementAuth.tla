---------------------------- MODULE ManagementAuth ----------------------------
(***************************************************************************)
(* Who may manage the plugins: the settings a process accepts (config.py), *)
(* and what the dependency built from them answers on the routes it guards *)
(* (auth.py, app.py, api/router.py).  The two are written apart, in        *)
(* different vocabularies; the properties are about both together.         *)
(*                                                                         *)
(* Addresses are those of the two versions of IP, and a network is a set   *)
(* of addresses of one version, any such set.  Origins, secrets and the    *)
(* values of header fields are kinds: what the code distinguishes of them. *)
(***************************************************************************)
EXTENDS Naturals, Sequences, FiniteSets

CONSTANTS
    Address4, Address6, \* the IP addresses of each version
    Loopback,           \* those of the host itself
    Texts,              \* networks as the settings spell them
    Net,                \* what a text denotes: its addresses, none if it does not parse
    FieldNames,         \* the names that header fields of requests have
    Settings            \* the settings processes are started with

Address == Address4 \cup Address6

\* A header name of the settings need not be one a field can have: it may be blank,
\* stand between blanks, or hold characters that no header has.
HeaderNames == FieldNames \cup {"blank", "padded", "unencodable"}

\* AppSettings, as far as authentication goes.
SettingsType ==
    [environment     : {"development", "test", "production"},
     host            : Address \cup {"name"},
     auth_mode       : {"development", "proxy"},
     secret          : {"absent", "weak", "unprintable", "strong"},
     identity_header : HeaderNames,
     secret_header   : HeaderNames,
     networks        : Seq(Texts),
     cors            : SUBSET {"console", "wildcard", "malformed"}]

ASSUME AddressAssumption ==
    /\ Address4 \cap Address6 = {}
    /\ Loopback \subseteq Address
    /\ {"name", "testclient", "unknown"} \cap Address = {}

ASSUME NetAssumption == Net \in [Texts -> (SUBSET Address4) \cup (SUBSET Address6)]

ASSUME NamesAssumption == {"blank", "padded", "unencodable"} \cap FieldNames = {}

ASSUME SettingsAssumption == Settings \subseteq SettingsType

\* A request: its direct peer, which is no address in a test client or without a
\* socket; its Origin; and what its header fields carry, blanks alone included.
Requests ==
    [route  : {"probe", "catalog", "lifecycle", "plugin"},
     peer   : Address \cup {"testclient", "unknown"},
     origin : {"none", "own", "console", "foreign"},
     fields : [FieldNames -> {"none", "blanks", "text", "non_ascii", "the_secret"}]]

VARIABLES
    settings,
    serving     \* the settings were accepted, and the application built

vars == <<settings, serving>>
-----------------------------------------------------------------------------
(* AppSettings.validate_auth_boundary.                                     *)

\* Mutant: the environment is not looked at.
ValidDevelopmentAuthEverywhere(s) == s.auth_mode = "development" => s.host \in Loopback

ValidDevelopmentAuth(s) ==
    s.auth_mode = "development" =>
        /\ s.environment \in {"development", "test"}
        /\ s.host \in Loopback

Parses(text) == Net[text] # {}

\* Prefix length 0: all addresses of its version.
TrustsEveryAddress(text) == Net[text] \in {Address4, Address6}

ValidProxyAuth(s) ==
    s.auth_mode = "proxy" =>
        /\ s.secret = "strong"
        /\ s.identity_header # "blank" /\ s.secret_header # "blank"
        /\ s.networks # <<>>
        /\ \A i \in DOMAIN s.networks : Parses(s.networks[i]) /\ ~TrustsEveryAddress(s.networks[i])
        /\ \A i, j \in DOMAIN s.networks : Net[s.networks[i]] = Net[s.networks[j]] => i = j

ValidCorsOrigins(s) == s.cors \subseteq {"console"}

Accepted(s) ==
    /\ s.host \in Address
    /\ ValidDevelopmentAuth(s)
    /\ ValidProxyAuth(s)
    /\ ValidCorsOrigins(s)
-----------------------------------------------------------------------------
(* build_management_auth.                                                  *)

Refuse(status) == [status |-> status, source |-> "none"]
Principal(source) == [status |-> "200", source |-> source]

OriginIsAllowed(s, r) == r.origin \in {"none", "own"} \cup (s.cors \cap {"console"})

AuthenticateDevelopment(s, r) ==
    IF ~OriginIsAllowed(s, r)                                   THEN Refuse("403")
    ELSE IF s.environment = "test" /\ r.peer = "testclient"     THEN Principal("development")
    ELSE IF r.peer \notin Loopback                              THEN Refuse("403")
    ELSE Principal("development")

\* headers.get: the name is looked up as the settings spell it.
Header(r, name) == IF name \in FieldNames THEN r.fields[name] ELSE "none"

\* Mutant: the peer must lie in every network.
PeerIsTrustedByAll(s, r) == \A i \in DOMAIN s.networks : r.peer \in Net[s.networks[i]]

\* The peer lies in a network of its version; one that is no address lies in none.
PeerIsTrusted(s, r) == \E i \in DOMAIN s.networks : r.peer \in Net[s.networks[i]]

\* The failures are a header name that cannot be looked up, networks that do not
\* parse, and text outside ASCII, which compare_digest does not compare.
AuthenticateProxy(s, r) ==
    LET identity == Header(r, s.identity_header)
        provided == Header(r, s.secret_header)
    IN
    IF "unencodable" \in {s.identity_header, s.secret_header}   THEN Refuse("500")
    ELSE IF /\ r.peer \in Address
            /\ \E i \in DOMAIN s.networks : ~Parses(s.networks[i])  THEN Refuse("500")
    ELSE IF ~PeerIsTrusted(s, r)                                THEN Refuse("403")
    ELSE IF \/ identity \in {"none", "blanks"}
            \/ s.secret = "absent" \/ provided = "none"         THEN Refuse("401")
    ELSE IF provided = "non_ascii"                              THEN Refuse("500")
    ELSE IF provided # "the_secret"                             THEN Refuse("403")
    ELSE Principal("proxy")

Authenticate(s, r) ==
    IF s.auth_mode = "development" THEN AuthenticateDevelopment(s, r) ELSE AuthenticateProxy(s, r)

\* The routes that depend on it: lifecycle operations, and all of a plugin's own.
Guarded == {"lifecycle", "plugin"}

\* What the application answers before the handler of the route runs.
Answer(s, r) == IF r.route \in Guarded THEN Authenticate(s, r) ELSE [status |-> "200", source |-> "none"]
-----------------------------------------------------------------------------
Init == settings \in Settings /\ serving = FALSE

\* The process starts, unless its settings are refused.  What it answers to a
\* request depends on them and on the request alone.
Start ==
    /\ ~serving
    /\ Accepted(settings)
    /\ serving' = TRUE
    /\ UNCHANGED settings

Spec == Init /\ [][Start]_vars
-----------------------------------------------------------------------------
(* Properties, of every request to a process that serves.                  *)

\* The requests that reach the handler of a lifecycle operation or of a plugin.
Managing == {r \in Requests : r.route \in {"lifecycle", "plugin"} /\ Answer(settings, r).status = "200"}

\* The proxy vouched for the request: it came straight from a network of the settings,
\* one that leaves somebody out, with an identity and a secret that was no placeholder.
Vouched(s, r) ==
    /\ \E i \in DOMAIN s.networks :
          /\ r.peer \in Net[s.networks[i]]
          /\ \E version \in {Address4, Address6} : r.peer \in version /\ ~(version \subseteq Net[s.networks[i]])
    /\ s.identity_header \in FieldNames /\ r.fields[s.identity_header] \notin {"none", "blanks"}
    /\ s.secret_header \in FieldNames /\ r.fields[s.secret_header] = "the_secret"
    /\ s.secret = "strong"

\* Made on the developer's machine: the process listens on loopback, and the request
\* comes from there, not from the page of a site the settings do not name.
Local(s, r) ==
    /\ s.environment # "production" /\ s.host \in Loopback
    /\ r.peer \in Loopback \/ (r.peer = "testclient" /\ s.environment = "test")
    /\ r.origin # "foreign" /\ (r.origin = "console" => r.origin \in s.cors)

\* In production, and behind a proxy anywhere, every management request that gets
\* through was vouched for; elsewhere it is local.  Neither the settings that are
\* accepted nor the routes leave a way around that.  (Each network leaves somebody
\* out; that they do so together is not said, and the code does not see to it.)
OnlyOperatorsManage ==
    serving => \A r \in Managing :
        IF settings.environment = "production" \/ settings.auth_mode = "proxy"
        THEN Vouched(settings, r)
        ELSE Local(settings, r)

\* Whose connections the process gets: of the version of the address it is bound to,
\* and from the host itself only if that is a loopback address.
Reaches(peer, s) ==
    /\ peer \in IF s.host \in Address4 THEN Address4 ELSE Address6
    /\ s.host \in Loopback => peer \in Loopback

\* When a process that starts can be managed at all: validation leaves open only that
\* a header name is none a field can have, or that nobody in a trusted network can
\* connect to the address it is bound to.  In any other case each guarded route
\* admits somebody, and in these none does.
AdmitsWhoCanConnect ==
    serving => \A x \in {"lifecycle", "plugin"} :
        (\E r \in Managing : r.route = x /\ Reaches(r.peer, settings))
        <=> \/ settings.auth_mode = "development"
            \/ /\ {settings.identity_header, settings.secret_header} \subseteq FieldNames
               /\ \E i \in DOMAIN settings.networks :
                     \E peer \in Net[settings.networks[i]] : Reaches(peer, settings)
=============================================================================
