--------------------------- MODULE MCManagementAuth ---------------------------
(***************************************************************************)
(* A few addresses of each version, and networks over them: the two halves *)
(* of all addresses, one network in two spellings, the host itself, all    *)
(* addresses, and a text that is no network.  Settings of three families:  *)
(* development, a proxy with every list of up to two networks, and a proxy *)
(* with every pair of header names and every secret.                       *)
(***************************************************************************)
EXTENDS ManagementAuth

MCAddress4 == {"127.0.0.1", "10.0.0.1", "203.0.113.10", "203.0.113.11"}
MCAddress6 == {"::1", "2001:db8::1"}
MCLoopback == {"127.0.0.1", "::1"}

MCTexts == {"0.0.0.0/0", "0.0.0.0/1", "128.0.0.0/1", "10.0.0.0/8", "10.0.0.1/8",
            "203.0.113.10", "127.0.0.1", "::/0", "2001:db8::/32", "proxy.example"}

MCNet == [t \in MCTexts |->
    CASE t = "0.0.0.0/0"                    -> MCAddress4
      [] t = "0.0.0.0/1"                    -> {"10.0.0.1", "127.0.0.1"}
      [] t = "128.0.0.0/1"                  -> {"203.0.113.10", "203.0.113.11"}
      [] t \in {"10.0.0.0/8", "10.0.0.1/8"} -> {"10.0.0.1"}
      [] t \in {"203.0.113.10", "127.0.0.1"} -> {t}
      [] t = "::/0"                         -> MCAddress6
      [] t = "2001:db8::/32"                -> {"2001:db8::1"}
      [] OTHER                              -> {}]

MCFieldNames == {"X-Identity", "X-Secret"}

Hosts == {"127.0.0.1", "10.0.0.1", "::1", "2001:db8::1", "name"}

\* The rest of the settings of a process behind a proxy, and of one without.
Proxied ==
    [environment : {"development", "production"}, host : Hosts, auth_mode : {"proxy"},
     secret : {"strong"}, identity_header : {"X-Identity"}, secret_header : {"X-Secret"},
     networks : UNION {[1..n -> MCTexts] : n \in 0..2}, cors : {{}}]

Headed ==
    [environment : {"production"}, host : {"10.0.0.1", "127.0.0.1"}, auth_mode : {"proxy"},
     secret : {"absent", "weak", "unprintable", "strong"},
     identity_header : MCFieldNames \cup {"blank", "padded", "unencodable"},
     secret_header : MCFieldNames \cup {"blank", "padded", "unencodable"},
     networks : {<<"10.0.0.0/8">>, <<"127.0.0.1", "2001:db8::/32">>}, cors : {{}, {"wildcard"}}]

Developed ==
    [environment : {"development", "test", "production"}, host : Hosts, auth_mode : {"development"},
     secret : {"absent", "strong"}, identity_header : {"X-Identity", "blank"},
     secret_header : {"X-Secret"}, networks : {<<>>, <<"0.0.0.0/0">>},
     cors : SUBSET {"console", "wildcard", "malformed"}]

MCSettings == Proxied \cup Headed \cup Developed
=============================================================================
