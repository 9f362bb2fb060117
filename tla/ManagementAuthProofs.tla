------------------------- MODULE ManagementAuthProofs -------------------------
(***************************************************************************)
(* The properties of management authentication for every set of addresses  *)
(* and networks, every list of trusted networks and every header name.     *)
(***************************************************************************)
EXTENDS ManagementAuth, TLAPS

\* A process that serves passed validation: what the properties rest on.
ServesAccepted ==
    /\ settings \in Settings
    /\ serving \in BOOLEAN
    /\ serving => Accepted(settings)

\* The parts of the settings that the proofs look at.
LEMMA SettingsTyped ==
    ASSUME NEW s \in Settings
    PROVE  /\ s.environment \in {"development", "test", "production"}
           /\ s.auth_mode \in {"development", "proxy"}
           /\ s.host \in Address \cup {"name"}
           /\ s.networks \in Seq(Texts)
           /\ \A i \in DOMAIN s.networks :
                 Net[s.networks[i]] \subseteq Address4 \/ Net[s.networks[i]] \subseteq Address6
<1>1. s \in SettingsType
  BY SettingsAssumption
<1>2. /\ s.environment \in {"development", "test", "production"}
      /\ s.auth_mode \in {"development", "proxy"}
      /\ s.host \in Address \cup {"name"}
      /\ s.networks \in Seq(Texts)
  BY <1>1 DEF SettingsType
<1>3. \A i \in DOMAIN s.networks : s.networks[i] \in Texts
  BY <1>2
<1> QED
  BY <1>2, <1>3, NetAssumption

\* Once it serves, a process does so under settings it accepted.
LEMMA OnlyAcceptedServe == Spec => []ServesAccepted
<1>1. Init => ServesAccepted
  BY DEF Init, ServesAccepted
<1>2. ServesAccepted /\ [Start]_vars => ServesAccepted'
  <2> SUFFICES ASSUME ServesAccepted, [Start]_vars  PROVE ServesAccepted'
    OBVIOUS
  <2>1. CASE Start
    BY <2>1 DEF Start, ServesAccepted
  <2>2. CASE UNCHANGED vars
    BY <2>2 DEF vars, ServesAccepted
  <2> QED
    BY <2>1, <2>2
<1> QED
  BY <1>1, <1>2, PTL DEF Spec

-----------------------------------------------------------------------------
\* What a guarded route asks of a request before it admits it from behind a proxy.
LEMMA ProxyAdmits ==
    ASSUME NEW s, NEW r, AuthenticateProxy(s, r).status = "200"
    PROVE  /\ PeerIsTrusted(s, r)
           /\ s.identity_header \in FieldNames
           /\ r.fields[s.identity_header] \notin {"none", "blanks"}
           /\ s.secret_header \in FieldNames
           /\ r.fields[s.secret_header] = "the_secret"
<1>1. /\ PeerIsTrusted(s, r)
      /\ Header(r, s.identity_header) \notin {"none", "blanks"}
      /\ Header(r, s.secret_header) = "the_secret"
  BY DEF AuthenticateProxy, Refuse, Principal
<1> QED
  BY <1>1 DEF Header

\* An accepted network leaves out somebody of the version of those it holds.
LEMMA NetworksAreNarrow ==
    ASSUME NEW s \in Settings, Accepted(s), s.auth_mode = "proxy",
           NEW i \in DOMAIN s.networks, NEW peer \in Net[s.networks[i]]
    PROVE  \E version \in {Address4, Address6} :
              peer \in version /\ ~(version \subseteq Net[s.networks[i]])
<1>1. Net[s.networks[i]] \subseteq Address4 \/ Net[s.networks[i]] \subseteq Address6
  BY SettingsTyped
<1>2. Net[s.networks[i]] \notin {Address4, Address6}
  BY DEF Accepted, ValidProxyAuth, TrustsEveryAddress
<1>3. CASE Net[s.networks[i]] \subseteq Address4
  <2>1. ~(Address4 \subseteq Net[s.networks[i]])
    BY <1>2, <1>3
  <2> QED
    BY <1>3, <2>1
<1>4. CASE Net[s.networks[i]] \subseteq Address6
  <2>1. ~(Address6 \subseteq Net[s.networks[i]])
    BY <1>2, <1>4
  <2> QED
    BY <1>4, <2>1
<1> QED
  BY <1>1, <1>3, <1>4

\* A guarded route answers 200 to a proxy's request only if it is vouched for.
LEMMA ProxyVouches ==
    ASSUME NEW s \in Settings, Accepted(s), s.auth_mode = "proxy",
           NEW r \in Requests, AuthenticateProxy(s, r).status = "200"
    PROVE  Vouched(s, r)
<1>1. PICK i \in DOMAIN s.networks : r.peer \in Net[s.networks[i]]
  BY ProxyAdmits DEF PeerIsTrusted
<1>2. \E version \in {Address4, Address6} : r.peer \in version /\ ~(version \subseteq Net[s.networks[i]])
  BY <1>1, NetworksAreNarrow
<1>3. s.secret = "strong"
  BY DEF Accepted, ValidProxyAuth
<1> QED
  BY <1>1, <1>2, <1>3, ProxyAdmits DEF Vouched

\* In development mode it answers 200 to the developer's machine alone.
LEMMA DevelopmentIsLocal ==
    ASSUME NEW s \in Settings, Accepted(s), s.auth_mode = "development", NEW r \in Requests,
           AuthenticateDevelopment(s, r).status = "200"
    PROVE  s.environment # "production" /\ Local(s, r)
<1>1. s.environment # "production" /\ s.host \in Loopback
  BY DEF Accepted, ValidDevelopmentAuth
<1>2. /\ OriginIsAllowed(s, r)
      /\ r.peer \in Loopback \/ (r.peer = "testclient" /\ s.environment = "test")
  BY DEF AuthenticateDevelopment, Refuse, Principal
<1>3. r.origin # "foreign" /\ (r.origin = "console" => r.origin \in s.cors)
  BY <1>2 DEF OriginIsAllowed
<1> QED
  BY <1>1, <1>2, <1>3 DEF Local

\* Every management request that gets through was vouched for by a proxy or, outside
\* production, made on the developer's machine, whatever the addresses, networks and
\* settings are: what AppSettings accepts and the checks of auth.py leave nothing between.
THEOREM ManagersAreOperators == Spec => []OnlyOperatorsManage
<1>1. ServesAccepted => OnlyOperatorsManage
  <2> SUFFICES ASSUME ServesAccepted, serving, NEW r \in Managing
               PROVE  IF settings.environment = "production" \/ settings.auth_mode = "proxy"
                      THEN Vouched(settings, r)
                      ELSE Local(settings, r)
    BY DEF OnlyOperatorsManage
  <2>1. settings \in Settings /\ Accepted(settings) /\ settings.auth_mode \in {"development", "proxy"}
    BY SettingsTyped DEF ServesAccepted
  <2>2. r \in Requests /\ Authenticate(settings, r).status = "200"
    BY DEF Managing, Answer, Guarded
  <2>3. CASE settings.auth_mode = "proxy"
    BY <2>1, <2>2, <2>3, ProxyVouches DEF Authenticate
  <2>4. CASE settings.auth_mode = "development"
    BY <2>1, <2>2, <2>4, DevelopmentIsLocal DEF Authenticate
  <2> QED
    BY <2>1, <2>3, <2>4
<1> QED
  BY <1>1, OnlyAcceptedServe, PTL
-----------------------------------------------------------------------------
\* A request to route x from a peer, with the same in each of its header fields.
RequestOf(x, peer, value) ==
    [route |-> x, peer |-> peer, origin |-> "none", fields |-> [n \in FieldNames |-> value]]

LEMMA RequestTyped ==
    ASSUME NEW x \in Guarded, NEW peer \in Address, NEW value \in {"none", "the_secret"}
    PROVE  /\ RequestOf(x, peer, value) \in Requests
           /\ RequestOf(x, peer, value).route = x /\ RequestOf(x, peer, value).peer = peer
           /\ RequestOf(x, peer, value).origin = "none"
           /\ \A n \in FieldNames : RequestOf(x, peer, value).fields[n] = value
BY DEF RequestOf, Requests, Guarded

\* A proxy in an accepted network is admitted if the header names can be matched.
LEMMA ProxyIsAdmitted ==
    ASSUME NEW s \in Settings, Accepted(s), s.auth_mode = "proxy",
           s.identity_header \in FieldNames, s.secret_header \in FieldNames,
           NEW i \in DOMAIN s.networks, NEW peer \in Net[s.networks[i]], NEW x \in Guarded
    PROVE  /\ RequestOf(x, peer, "the_secret") \in Requests
           /\ Authenticate(s, RequestOf(x, peer, "the_secret")).status = "200"
<1> DEFINE r == RequestOf(x, peer, "the_secret")
<1>1. peer \in Address
  BY SettingsTyped DEF Address
<1>2. /\ r \in Requests /\ r.peer = peer
      /\ \A n \in FieldNames : r.fields[n] = "the_secret"
  BY <1>1, RequestTyped
<1> HIDE DEF r
<1>3. Header(r, s.identity_header) = "the_secret" /\ Header(r, s.secret_header) = "the_secret"
  BY <1>2 DEF Header
<1>4. "unencodable" \notin {s.identity_header, s.secret_header}
  BY NamesAssumption
<1>5. PeerIsTrusted(s, r) /\ ~\E j \in DOMAIN s.networks : ~Parses(s.networks[j])
  BY <1>2 DEF PeerIsTrusted, Accepted, ValidProxyAuth
<1>6. s.secret = "strong"
  BY DEF Accepted, ValidProxyAuth
<1>7. AuthenticateProxy(s, r) = Principal("proxy")
  BY <1>3, <1>4, <1>5, <1>6 DEF AuthenticateProxy
<1> QED
  BY <1>2, <1>7 DEF Authenticate, Principal, r

\* In development mode the developer's machine is admitted.
LEMMA DeveloperIsAdmitted ==
    ASSUME NEW s \in Settings, Accepted(s), s.auth_mode = "development", NEW x \in Guarded
    PROVE  /\ RequestOf(x, s.host, "none") \in Requests
           /\ Reaches(s.host, s)
           /\ Authenticate(s, RequestOf(x, s.host, "none")).status = "200"
<1> DEFINE r == RequestOf(x, s.host, "none")
<1>1. s.host \in Loopback /\ s.host \in Address
  BY DEF Accepted, ValidDevelopmentAuth
<1>2. r \in Requests /\ r.peer = s.host /\ r.origin = "none"
  BY <1>1, RequestTyped
<1>3. Reaches(s.host, s)
  BY <1>1 DEF Reaches, Address
<1> HIDE DEF r
<1>4. AuthenticateDevelopment(s, r) = Principal("development")
  BY <1>1, <1>2 DEF AuthenticateDevelopment, OriginIsAllowed
<1> QED
  BY <1>2, <1>3, <1>4 DEF Authenticate, Principal, r

\* A process that starts can be managed, or one of two things the settings are free to
\* say is in the way: a header name no field has, or networks nobody connects from.
THEOREM OperatorsAreAdmitted == Spec => []AdmitsWhoCanConnect
<1>1. ServesAccepted => AdmitsWhoCanConnect
  <2> DEFINE Open == /\ {settings.identity_header, settings.secret_header} \subseteq FieldNames
                     /\ \E i \in DOMAIN settings.networks :
                           \E peer \in Net[settings.networks[i]] : Reaches(peer, settings)
  <2> SUFFICES ASSUME ServesAccepted, serving, NEW x \in {"lifecycle", "plugin"}
               PROVE  (\E r \in Managing : r.route = x /\ Reaches(r.peer, settings))
                      <=> settings.auth_mode = "development" \/ Open
    BY DEF AdmitsWhoCanConnect
  <2>1. /\ settings \in Settings /\ Accepted(settings)
        /\ settings.auth_mode \in {"development", "proxy"} /\ x \in Guarded
    BY SettingsTyped DEF ServesAccepted, Guarded
  <2>2. ASSUME NEW r \in Managing, Reaches(r.peer, settings), settings.auth_mode = "proxy"
        PROVE  Open
    <3>1. AuthenticateProxy(settings, r).status = "200"
      BY <2>2 DEF Managing, Answer, Guarded, Authenticate
    <3> QED
      BY <2>2, <3>1, ProxyAdmits DEF PeerIsTrusted
  <2>3. ASSUME NEW r \in Requests, r.route = x, Authenticate(settings, r).status = "200"
        PROVE  r \in Managing
    BY <2>3 DEF Managing, Answer, Guarded
  <2>4. ASSUME settings.auth_mode = "development"
        PROVE  \E r \in Managing : r.route = x /\ Reaches(r.peer, settings)
    <3>1. settings.host \in Address
      BY <2>1 DEF Accepted
    <3> QED
      BY <2>1, <2>3, <2>4, <3>1, DeveloperIsAdmitted, RequestTyped
  <2>5. ASSUME settings.auth_mode = "proxy", Open
        PROVE  \E r \in Managing : r.route = x /\ Reaches(r.peer, settings)
    <3>1. PICK i \in DOMAIN settings.networks :
              \E peer \in Net[settings.networks[i]] : Reaches(peer, settings)
      BY <2>5
    <3>2. PICK peer \in Net[settings.networks[i]] : Reaches(peer, settings)
      BY <3>1
    <3>3. settings.identity_header \in FieldNames /\ settings.secret_header \in FieldNames
      BY <2>5
    <3>4. /\ RequestOf(x, peer, "the_secret") \in Requests
          /\ Authenticate(settings, RequestOf(x, peer, "the_secret")).status = "200"
      BY <2>1, <2>5, <3>3, ProxyIsAdmitted
    <3>5. RequestOf(x, peer, "the_secret").route = x /\ RequestOf(x, peer, "the_secret").peer = peer
      BY DEF RequestOf
    <3>6. RequestOf(x, peer, "the_secret") \in Managing
      BY <2>3, <3>4, <3>5
    <3> QED
      BY <3>2, <3>5, <3>6
  <2> QED
    BY <2>1, <2>2, <2>4, <2>5
<1> QED
  BY <1>1, OnlyAcceptedServe, PTL
=============================================================================
