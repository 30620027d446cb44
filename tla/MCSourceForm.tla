---------------------------- MODULE MCSourceForm ----------------------------
EXTENDS SourceForm

Group == <<"(?P<a>">>
Go == <<"(?<a>", "\\", "(?P<a>">>

Rule(name, prefix, regex) == [name |-> name, contains |-> " x", prefix |-> prefix, regex |-> regex]

MCTemplates ==
    ("win" :> [id |-> "win", parts |-> <<[id |-> "sec", default |-> TRUE, steps |-> 2],
                                         [id |-> "sql", default |-> FALSE, steps |-> 1]>>,
               extract |-> <<Rule("", "w", Group)>>, first |-> 1, closing |-> 1])
    @@ ("dns" :> [id |-> "dns", parts |-> <<>>,
                  extract |-> <<Rule("", "", Group), Rule("t", "d", Go)>>,
                  first |-> 2, closing |-> 0])

MCPresets == {Rule("p", "w", Group)}

Plain == [name |-> "n", type |-> "syslog", parsing |-> "default", timezone |-> "UTC",
          protocol |-> "udp", address |-> "a", allowed_cidrs |-> <<"c">>, size |-> "65535",
          labels |-> {<<"k", "v">>}, framing |-> "auto", max_connections |-> 2000,
          idle_timeout |-> "10m0s", udp_sockets |-> 2, udp_read_buffer_bytes |-> "b",
          tls |-> NoTls, extract |-> <<>>, template |-> "", template_parts |-> <<>>]

Over(tls) == [Plain EXCEPT !.protocol = "tls", !.framing = "lf", !.max_connections = 2,
                           !.size = "64KiB", !.udp_sockets = 0, !.udp_read_buffer_bytes = "8MiB", !.tls = tls]

MCStored ==
    {[config |-> c, enabled |-> TRUE] : c \in
        {[Plain EXCEPT !.template = "win", !.template_parts = <<"sec", "old">>,
                       !.extract = <<Rule("", "w", Group), Rule("r", "", Group)>>],
         [Plain EXCEPT !.type = "http_json", !.protocol = "", !.address = "", !.udp_sockets = 0, !.size = "64KiB",
                       !.udp_read_buffer_bytes = "8MiB", !.max_connections = 2,
                       !.extract = <<Rule("rule-2", "", Group), Rule("", "d", Go)>>],
         Over([NoTls EXCEPT !.cert_file = "f", !.key_file = "f", !.key = "k"]),
         Over([NoTls EXCEPT !.cert = "c", !.key = "k"]),
         Over([NoTls EXCEPT !.cert_file = "f", !.key_file = "f", !.ca_file = "f", !.auth = "require_and_verify"]),
         Over([NoTls EXCEPT !.acme = TRUE, !.domains = <<"d">>, !.terms = TRUE])}}

MCInputs ==
    ("name" :> {"", " ", "m"}) @@ ("type" :> {"syslog", "http_json"}) @@ ("enabled" :> BOOLEAN)
    @@ ("protocol" :> {"udp", "tcp", "tls"}) @@ ("address" :> {"", "a", "bad"})
    @@ ("timezone" :> {" ", "z"}) @@ ("parsing" :> {"default", "other"}) @@ ("size" :> {" ", "64k"})
    @@ ("allowed_cidrs" :> {<<" ", "c", "c2">>})
    @@ ("labels" :> {<<[key |-> "k", val |-> "v"], [key |-> " ", val |-> ""], [key |-> "k", val |-> "x"]>>,
                     <<[key |-> "", val |-> "v"]>>})
    @@ ("udp_sockets" :> {"02", "x"}) @@ ("udp_read_buffer_bytes" :> {" "})
    @@ ("framing" :> {"auto"}) @@ ("max_connections" :> {"0", "x"}) @@ ("idle_timeout" :> {"", "10m"})
    @@ ("tls_mode" :> {"acme", "paste", "files"}) @@ ("tls_cert" :> {"c", "bad"})
    @@ ("tls_key" :> {" ", "k2"}) @@ ("tls_cert_file" :> {"f", "bad"}) @@ ("tls_key_file" :> {"f"})
    @@ ("tls_client_auth" :> {"none", "require_and_verify"})
    @@ ("tls_client_ca" :> {"c", "bad"}) @@ ("tls_client_ca_file" :> {"bad"})
    @@ ("tls_acme_domains" :> {<<"d">>, <<" ">>}) @@ ("tls_acme_email" :> {"e"})
    @@ ("tls_acme_staging" :> BOOLEAN) @@ ("tls_acme_accept_terms" :> BOOLEAN)
    @@ ("tls_acme_skip_preflight" :> BOOLEAN)

MCRuleInputs ==
    ("name" :> {"r", "rule-2"}) @@ ("contains" :> {" x", " "}) @@ ("prefix" :> {"w"})
    @@ ("regex" :> {Group, Go, <<"(?P<a>", "bad">>, <<"[", "(?P<a>", "]">>, <<"(?P<">>})

\* The switch of one source from pasted material to files.
MCPasted == {[config |-> Over([NoTls EXCEPT !.cert = "c", !.key = "k"]), enabled |-> TRUE]}
MCTlsInputs == [k \in {"tls_mode", "tls_cert_file", "tls_key_file"} |-> MCInputs[k]]
MCNoRuleInputs == [k \in {} |-> {}]
=============================================================================
