----------------------------- MODULE SourceForm -----------------------------
(***************************************************************************)
(* The source editor of the web client as one person uses it               *)
(* (features/sources): the flat form, its conversion to the config the API *)
(* stores and back (source-form.ts), the panels that change it             *)
(* (SourceDetailPage, TlsPanel, ExtractEditor, TemplateGuide), and the     *)
(* server's refusals placed next to the inputs.  Who else edits the source *)
(* meanwhile is the subject of module SourceEditor.                        *)
(*                                                                         *)
(* A text is a word or one of the blanks Trim tells apart; a text of       *)
(* several lines is a sequence; a pattern is a sequence of the tokens that *)
(* the scan of captureGroupNames tells apart.  Fields that are copied in   *)
(* the same way share one: parsing stands for format, raw_message,         *)
(* hostname_fallback and sd_flatten, size for max_message_bytes,           *)
(* idle_timeout for itself and udp_read_buffer_bytes for itself, auth for  *)
(* min_version and client_auth.  Messages are left out: an error is the    *)
(* place it is shown at.                                                   *)
(***************************************************************************)
EXTENDS Naturals, FiniteSets, SequencesExt, TLC

CONSTANTS
    Templates,    \* id -> [parts, extract, first, closing]
    Presets,      \* the built-in rules
    Stored,       \* sources that may be opened: [config, enabled]
    Inputs,      \* field -> what may be typed or picked
    RuleInputs,  \* field of a rule -> what may be typed
    MaxRules,     \* bound: rules in the form
    MaxEdits,     \* bound: edits
    MaxSaves      \* bound: submissions

VARIABLES
    form,         \* SourceFormState
    errors,       \* SourceErrors
    stored,       \* the source at the server, or NoSource
    sent,         \* the submission on its way, or NoRequest
    loaded,       \* the templates were fetched
    fresh,        \* ghost: errors speak of the form as it is
    edits, saves  \* ghost: the two bounds

formVars == <<form, errors, stored, sent, loaded, fresh, edits, saves>>

NoSource == [config |-> <<>>, enabled |-> FALSE]
NoRequest == [config |-> <<>>, enabled |-> FALSE, rules |-> <<>>]

Trim(t) == CASE t = " " -> "" [] t = " x" -> "x" [] OTHER -> t

\* Number(text); a text that is no whole number is NaN.
NaN == 99
Number(t) == CASE t = "0" -> 0 [] t \in {"2", "02"} -> 2 [] t = "2000" -> 2000 [] OTHER -> NaN
NoCount == 100

-----------------------------------------------------------------------------
(***************************************************************************)
(* Extract rules and templates.                                            *)
(***************************************************************************)

\* by: ghost, who brought the rule in.
NewExtractRule(name, contains, prefix, regex, by) ==
    [name |-> name, contains |-> contains, prefix |-> prefix, regex |-> regex, by |-> by]

\* One step of the scan: what follows a backslash is skipped, a class hides
\* what is in it, a group that is never closed ends the scan.
ScanToken(s, token) ==
    IF s.stop THEN s
    ELSE IF s.skip THEN [s EXCEPT !.skip = FALSE]
    ELSE IF token = "\\" THEN [s EXCEPT !.skip = TRUE]
    ELSE IF s.inClass THEN [s EXCEPT !.inClass = token # "]"]
    ELSE IF token = "[" THEN [s EXCEPT !.inClass = TRUE]
    ELSE IF token = "(?P<" THEN [s EXCEPT !.stop = TRUE]
    ELSE IF token \in {"(?P<a>", "(?<a>"} THEN
            [s EXCEPT !.names = IF Contains(@, "a") THEN @ ELSE Append(@, "a")]
    ELSE s

CaptureGroupNames(regex) ==
    FoldLeft(ScanToken,
             [names |-> <<>>, inClass |-> FALSE, skip |-> FALSE, stop |-> FALSE],
             regex).names

\* The chips under a rule: its groups behind its prefix.
ExtractFieldNames(r) ==
    [i \in DOMAIN CaptureGroupNames(r.regex) |-> <<Trim(r.prefix), CaptureGroupNames(r.regex)[i]>>]

TEMPLATE_NONE == ""
NoTemplate == [id |-> TEMPLATE_NONE, parts |-> <<>>, extract |-> <<>>, first |-> 0, closing |-> 0]

\* templateById, in the list that was fetched.
TemplateById(id) ==
    IF loaded /\ id \in DOMAIN Templates THEN Templates[id] ELSE NoTemplate

TemplateChoices == (IF loaded THEN DOMAIN Templates ELSE {}) \cup {TEMPLATE_NONE}

Ids(parts) == [i \in DOMAIN parts |-> parts[i].id]

TemplateDefaultParts(t) == Ids(SelectSeq(t.parts, LAMBDA p : p.default))

ResolveTemplateParts(t, want) ==
    IF want = <<>> THEN TemplateDefaultParts(t)
    ELSE Ids(SelectSeq(t.parts, LAMBDA p : Contains(want, p.id)))

SelectedTemplateParts(t, want) ==
    SelectSeq(t.parts, LAMBDA p : Contains(ResolveTemplateParts(t, want), p.id))

ToggleTemplatePart(t, want, id, on) ==
    LET current == ToSet(ResolveTemplateParts(t, want)) IN
    LET next == IF on THEN current \cup {id} ELSE current \ {id} IN
    Ids(SelectSeq(t.parts, LAMBDA p : p.id \in next))

\* A group of steps starts where the ones before it end.
PlaceRun(out, run) ==
    Append(out, [key |-> run.key, steps |-> run.steps,
                 start |-> IF out = <<>> THEN 0 ELSE Last(out).start + Last(out).steps])

\* The setup guide: the template's steps, those of each part that is on, the
\* generated configuration of a template with parts, the closing steps.
TemplateSteps(t, parts) ==
    LET on == SelectedTemplateParts(t, parts)
        runs == <<[key |-> "setup", steps |-> t.first]>>
                \o [i \in DOMAIN on |-> [key |-> on[i].id, steps |-> on[i].steps]]
                \o (IF t.parts = <<>> THEN <<>> ELSE <<[key |-> "config", steps |-> 1]>>)
                \o <<[key |-> "closing", steps |-> t.closing]>>
    IN  FoldLeft(PlaceRun, <<>>, SelectSeq(runs, LAMBDA g : g.steps > 0))

\* Two rules are the same when they match the same text into the same fields.
SameRule(a, b) == a.regex = b.regex /\ Trim(a.prefix) = Trim(b.prefix)

SameAsSome(r, rules) == \E i \in DOMAIN rules : SameRule(r, rules[i])

KeptRulesNone(rules, previous) == <<>>     \* mutant: all rules are replaced
KeptRulesAll(rules, previous) == rules     \* mutant: the old template's rules stay

\* Only the rules the previous template brought are taken back.
KeptRules(rules, previous) ==
    SelectSeq(rules, LAMBDA r : ~SameAsSome(r, previous.extract))

PartsAfter(f, next) == TemplateDefaultParts(next)

\* The rules of the next template come first, unless they are there already.
ApplyTemplate(f, next, previous) ==
    LET kept == KeptRules(f.extract, previous)
        added == SelectSeq(next.extract, LAMBDA r : ~SameAsSome(r, kept)) IN
    [f EXCEPT !.template = next.id,
              !.template_parts = PartsAfter(f, next),
              !.extract = [i \in DOMAIN added |->
                  NewExtractRule(added[i].name, added[i].contains, added[i].prefix,
                                 added[i].regex, "template")] \o kept]

-----------------------------------------------------------------------------
(***************************************************************************)
(* The form and the config.                                                *)
(***************************************************************************)

NoTls == [acme |-> FALSE, domains |-> <<>>, email |-> "", staging |-> FALSE,
          terms |-> FALSE, preflight |-> FALSE, cert |-> "", key |-> "",
          cert_file |-> "", key_file |-> "", ca |-> "", ca_file |-> "", auth |-> "none"]

DEFAULT_SOURCE_FORM ==
    [name |-> "", type |-> "syslog", enabled |-> TRUE, protocol |-> "udp",
     address |-> ":5514", timezone |-> "UTC", parsing |-> "default",
     allowed_cidrs |-> <<>>, size |-> "", labels |-> <<>>, framing |-> "auto",
     max_connections |-> "", idle_timeout |-> "", udp_sockets |-> "",
     udp_read_buffer_bytes |-> "", tls_mode |-> "paste", tls_cert_file |-> "",
     tls_key_file |-> "", tls_cert |-> "", tls_key |-> "", tls_key_stored |-> FALSE,
     tls_client_auth |-> "none", tls_client_ca_file |-> "", tls_client_ca |-> "",
     tls_acme_domains |-> <<>>, tls_acme_email |-> "", tls_acme_staging |-> TRUE,
     tls_acme_accept_terms |-> FALSE, tls_acme_skip_preflight |-> FALSE,
     extract |-> <<>>, template |-> TEMPLATE_NONE, template_parts |-> <<>>]

SourceSections(f) ==
    LET syslog == f.type = "syslog" IN
    [network |-> syslog,
     stream |-> syslog /\ f.protocol \in {"tcp", "tls"},
     udp |-> syslog /\ f.protocol = "udp",
     tls |-> syslog /\ f.protocol = "tls"]

TlsMode(tls, keyStored) ==
    CASE tls.acme -> "acme"
      [] ~tls.acme /\ (tls.cert # "" \/ keyStored) -> "paste"
      [] ~tls.acme /\ tls.cert = "" /\ ~keyStored /\ (tls.cert_file # "" \/ tls.key_file # "") -> "files"
      [] OTHER -> DEFAULT_SOURCE_FORM.tls_mode

CountText(n) == IF n \in {0, NoCount} THEN "" ELSE ToString(n)

AcmeStagingDefault(tls) == TRUE     \* mutant: always the form's default

\* A source that asks an authority already keeps the one it was given.
AcmeStaging(tls) == IF tls.acme THEN tls.staging ELSE DEFAULT_SOURCE_FORM.tls_acme_staging

\* The form of a stored source.  The key is never returned: its field starts
\* empty, and key_stored says whether there is one.
ConfigToForm(s) ==
    LET c == s.config IN
    [DEFAULT_SOURCE_FORM EXCEPT
        !.name = c.name, !.type = c.type, !.enabled = s.enabled,
        !.protocol = IF c.protocol = "" THEN "udp" ELSE c.protocol,
        !.address = c.address, !.timezone = c.timezone, !.parsing = c.parsing,
        !.allowed_cidrs = c.allowed_cidrs, !.size = c.size,
        !.labels = SetToSeq({[key |-> l[1], val |-> l[2]] : l \in c.labels}),
        !.framing = IF c.framing = "" THEN "auto" ELSE c.framing,
        !.max_connections = CountText(c.max_connections), !.idle_timeout = c.idle_timeout,
        !.udp_sockets = CountText(c.udp_sockets), !.udp_read_buffer_bytes = c.udp_read_buffer_bytes,
        !.tls_mode = TlsMode(c.tls, c.tls.key # ""),
        !.tls_cert_file = c.tls.cert_file, !.tls_key_file = c.tls.key_file,
        !.tls_cert = c.tls.cert, !.tls_key = "", !.tls_key_stored = c.tls.key # "",
        !.tls_client_auth = c.tls.auth,
        !.tls_client_ca_file = c.tls.ca_file, !.tls_client_ca = c.tls.ca,
        !.tls_acme_domains = c.tls.domains, !.tls_acme_email = c.tls.email,
        !.tls_acme_staging = AcmeStaging(c.tls),
        !.tls_acme_accept_terms = c.tls.terms,
        !.tls_acme_skip_preflight = c.tls.preflight,
        !.extract = [i \in DOMAIN c.extract |->
            NewExtractRule(c.extract[i].name, c.extract[i].contains,
                           c.extract[i].prefix, c.extract[i].regex, "stored")],
        !.template = c.template, !.template_parts = c.template_parts]

NoErrors == [fields |-> {}, rules |-> {}, general |-> FALSE]

HasErrors(e) == e.general \/ e.fields # {} \/ e.rules # {}

Lines(text) == SelectSeq([i \in DOMAIN text |-> Trim(text[i])], LAMBDA l : l # "")

\* parseCount: the number, NoCount when there is none, NaN when it is refused.
ParseCount(t) == IF Trim(t) = "" THEN NoCount ELSE Number(Trim(t))

\* parseLabels: a line is its key and its value; the key "" is a line with no
\* key before the `=', the key " " a blank line.  The last line of a key wins.
LabelLines(text) == SelectSeq(text, LAMBDA l : l.key # " ")
LabelsRefused(text) == \E i \in DOMAIN LabelLines(text) : LabelLines(text)[i].key = ""
ParseLabels(text) ==
    LET ls == LabelLines(text) IN
    {<<ls[i].key, Trim(ls[i].val)>> :
        i \in {n \in DOMAIN ls : \A m \in DOMAIN ls : m > n => ls[m].key # ls[n].key}}

\* Only the material of the chosen way in is sent.
TlsSends(f, mode) == f.tls_mode = mode

TlsConfig(f) ==
    LET ca == IF f.tls_mode = "files" THEN f.tls_client_ca_file ELSE f.tls_client_ca
        acme == f.tls_mode = "acme" IN
    [NoTls EXCEPT
        !.auth = f.tls_client_auth,
        !.acme = acme,
        !.domains = IF acme THEN Lines(f.tls_acme_domains) ELSE @,
        !.email = IF acme THEN Trim(f.tls_acme_email) ELSE @,
        !.staging = acme /\ f.tls_acme_staging,
        !.terms = acme /\ f.tls_acme_accept_terms,
        !.preflight = acme /\ f.tls_acme_skip_preflight,
        !.cert = IF TlsSends(f, "paste") THEN Trim(f.tls_cert) ELSE @,
        !.key = IF TlsSends(f, "paste") THEN Trim(f.tls_key) ELSE @,
        !.cert_file = IF TlsSends(f, "files") THEN Trim(f.tls_cert_file) ELSE @,
        !.key_file = IF TlsSends(f, "files") THEN Trim(f.tls_key_file) ELSE @,
        !.ca = IF f.tls_mode # "files" THEN Trim(ca) ELSE @,
        !.ca_file = IF f.tls_mode = "files" THEN Trim(ca) ELSE @]

TlsErrors(f) ==
    {e \in {"tls_acme_domains", "tls_acme_accept_terms", "tls_cert", "tls_key",
            "tls_cert_file", "tls_key_file"} :
        CASE e = "tls_acme_domains" -> f.tls_mode = "acme" /\ Lines(f.tls_acme_domains) = <<>>
          [] e = "tls_acme_accept_terms" -> f.tls_mode = "acme" /\ ~f.tls_acme_accept_terms
          [] e = "tls_cert" -> f.tls_mode = "paste" /\ Trim(f.tls_cert) = ""
          [] e = "tls_key" -> /\ f.tls_mode = "paste" /\ Trim(f.tls_cert) # ""
                              /\ Trim(f.tls_key) = "" /\ ~f.tls_key_stored
          [] e = "tls_cert_file" -> f.tls_mode = "files" /\ Trim(f.tls_cert_file) = ""
          [] e = "tls_key_file" -> f.tls_mode = "files" /\ Trim(f.tls_key_file) = ""}

\* A rule that names no field is refused before it is sent; contains keeps
\* the spaces around it.
RuleRefused(r) == r.regex = <<>> \/ CaptureGroupNames(r.regex) = <<>>

\* Rules stay index for index with the form.
ExtractRules(rules) ==
    [i \in DOMAIN rules |->
        [name |-> Trim(rules[i].name),
         contains |-> IF Trim(rules[i].contains) = "" THEN "" ELSE rules[i].contains,
         prefix |-> Trim(rules[i].prefix),
         regex |-> rules[i].regex]]

\* formToConfig: fields that do not apply to the type and protocol are left out.
FormToConfig(f) ==
    LET s == SourceSections(f)
        labels == IF LabelsRefused(f.labels) THEN {} ELSE ParseLabels(f.labels)
        Count(on, t) == IF on /\ ParseCount(t) # NaN THEN ParseCount(t) ELSE NoCount IN
    [config |->
        [name |-> Trim(f.name), type |-> f.type, parsing |-> f.parsing,
         timezone |-> IF Trim(f.timezone) = "" THEN "UTC" ELSE Trim(f.timezone),
         protocol |-> IF s.network THEN f.protocol ELSE "",
         address |-> IF s.network THEN Trim(f.address) ELSE "",
         allowed_cidrs |-> Lines(f.allowed_cidrs), size |-> Trim(f.size),
         labels |-> labels,
         framing |-> IF s.stream THEN f.framing ELSE "",
         max_connections |-> Count(s.stream, f.max_connections),
         idle_timeout |-> IF s.stream THEN Trim(f.idle_timeout) ELSE "",
         udp_sockets |-> Count(s.udp, f.udp_sockets),
         udp_read_buffer_bytes |-> IF s.udp THEN Trim(f.udp_read_buffer_bytes) ELSE "",
         tls |-> IF s.tls THEN TlsConfig(f) ELSE NoTls,
         extract |-> ExtractRules(f.extract),
         template |-> f.template,
         template_parts |-> IF f.template = TEMPLATE_NONE THEN <<>> ELSE f.template_parts],
     errors |->
        [fields |-> {e \in {"name", "address", "labels", "max_connections", "udp_sockets"} :
                        CASE e = "name" -> Trim(f.name) = ""
                          [] e = "address" -> s.network /\ Trim(f.address) = ""
                          [] e = "labels" -> LabelsRefused(f.labels)
                          [] e = "max_connections" -> s.stream /\ ParseCount(f.max_connections) = NaN
                          [] e = "udp_sockets" -> s.udp /\ ParseCount(f.udp_sockets) = NaN}
                    \cup (IF s.tls THEN TlsErrors(f) ELSE {}),
         rules |-> {i \in DOMAIN f.extract : RuleRefused(f.extract[i])},
         general |-> FALSE]]

-----------------------------------------------------------------------------
(***************************************************************************)
(* What the server refuses, and where the form shows it.  A complaint is a *)
(* key of the config, or a rule of the extract list by its name or its     *)
(* number.  The word "bad" stands for what the server finds wrong.         *)
(***************************************************************************)

RuleIds == <<"rule-1", "rule-2", "rule-3", "rule-4", "rule-5", "rule-6">>
RuleId(rules, i) == IF rules[i].name = "" THEN RuleIds[i] ELSE rules[i].name
Faulty(r) == Contains(r.regex, "bad")

\* An empty key of a listener with material of its own means `unchanged'.
ServerKey(c, old) ==
    IF /\ c.protocol = "tls" /\ ~c.tls.acme /\ c.tls.key = "" /\ old # NoSource
    THEN [c EXCEPT !.tls.key = old.config.tls.key]
    ELSE c

\* Sizes and durations are kept as numbers and written in one way.
Spelled(t) == CASE t = "64k" -> "64KiB" [] t = "10m" -> "10m0s" [] OTHER -> t

DefaultMaxConnections == 2000
DefaultMaxMessageBytes(protocol) == IF protocol = "udp" THEN "65535" ELSE "64KiB"

\* applySourceDefaults: what was left out is filled in, also the settings that
\* do not apply to the protocol.  (The form always sends those that parsing,
\* timezone and auth stand for; sockets have no default.)
ApplySourceDefaults(c) ==
    LET Filled(t, default) == IF t = "" THEN default ELSE Spelled(t) IN
    [c EXCEPT !.size = Filled(@, DefaultMaxMessageBytes(c.protocol)),
              !.framing = Filled(@, "auto"),
              !.max_connections = IF @ \in {0, NoCount} THEN DefaultMaxConnections ELSE @,
              !.idle_timeout = Filled(@, "10m0s"),
              !.udp_sockets = IF @ = NoCount THEN 0 ELSE @,
              !.udp_read_buffer_bytes = Filled(@, "8MiB")]

\* decodeSource: what a body comes to before it is checked and stored.
Prepared(c, old) == ApplySourceDefaults(ServerKey(c, old))

\* The checks of the certificate come first and name one key; those of the
\* whole source join their complaints, of the rules the first bad one.
ServerProblem(c, enabled) ==
    LET t == c.tls
        badMaterial == IF t.cert # "" THEN t.cert = "bad" \/ t.key = ""
                       ELSE t.cert_file \in {"", "bad"} \/ t.key_file \in {"", "bad"}
        badCA == "bad" \in {t.ca, t.ca_file}
        bad == SelectSeq([i \in DOMAIN c.extract |-> i], LAMBDA i : Faulty(c.extract[i]))
        clauses == (IF c.address = "bad" THEN <<[key |-> <<"address">>, rule |-> ""]>> ELSE <<>>)
                   \o (IF bad = <<>> THEN <<>>
                       ELSE <<[key |-> <<"extract">>, rule |-> RuleId(c.extract, Head(bad))]>>)
                   \o (IF c.protocol = "udp" /\ c.size = "64KiB"
                       THEN <<[key |-> <<"max_message_bytes">>, rule |-> ""]>> ELSE <<>>)
                   \o (IF /\ c.protocol = "tls" /\ enabled
                          /\ t.auth = "require_and_verify" /\ t.ca = "" /\ t.ca_file = ""
                       THEN <<[key |-> <<"a">>, rule |-> ""]>> ELSE <<>>) IN
    IF c.protocol = "tls" /\ ~t.acme /\ t.cert = "" /\ t.cert_file = "" /\ t.key_file = ""
    THEN <<[key |-> <<"tls">>, rule |-> ""]>>
    ELSE IF c.protocol = "tls" /\ ~t.acme /\ badMaterial
    THEN <<[key |-> <<"tls", "cert">>, rule |-> ""]>>
    ELSE IF c.protocol = "tls" /\ badCA
    THEN <<[key |-> <<"tls", "client_ca">>, rule |-> ""]>>
    ELSE clauses

\* Another source may have the name or the address already.
ConflictsWith == {<<[key |-> <<k>>, rule |-> ""]>> : k \in {"name", "address"}}

CONFIG_FIELD ==
    (<<"name">> :> "name") @@ (<<"template">> :> "template") @@ (<<"type">> :> "type")
    @@ (<<"protocol">> :> "protocol") @@ (<<"address">> :> "address")
    @@ (<<"timezone">> :> "timezone") @@ (<<"parsing">> :> "parsing")
    @@ (<<"allowed_cidrs">> :> "allowed_cidrs") @@ (<<"max_message_bytes">> :> "size")
    @@ (<<"labels">> :> "labels") @@ (<<"framing">> :> "framing")
    @@ (<<"max_connections">> :> "max_connections") @@ (<<"idle_timeout">> :> "idle_timeout")
    @@ (<<"udp", "sockets">> :> "udp_sockets")
    @@ (<<"udp", "read_buffer_bytes">> :> "udp_read_buffer_bytes")
    @@ (<<"tls">> :> "tls_mode") @@ (<<"tls", "cert_file">> :> "tls_cert_file")
    @@ (<<"tls", "key_file">> :> "tls_key_file") @@ (<<"tls", "cert">> :> "tls_cert")
    @@ (<<"tls", "key">> :> "tls_key") @@ (<<"tls", "client_auth">> :> "tls_client_auth")
    @@ (<<"tls", "client_ca_file">> :> "tls_client_ca_file")
    @@ (<<"tls", "client_ca">> :> "tls_client_ca")
    @@ (<<"tls", "acme", "domains">> :> "tls_acme_domains")
    @@ (<<"tls", "acme", "email">> :> "tls_acme_email")
    @@ (<<"tls", "acme", "accept_terms">> :> "tls_acme_accept_terms")

\* configField: the field of the key, or of the nearest key above it.
ConfigField(key) ==
    LET known == {n \in 1..Len(key) : SubSeq(key, 1, n) \in DOMAIN CONFIG_FIELD} IN
    IF known = {} THEN {} ELSE {CONFIG_FIELD[SubSeq(key, 1, Max(known))]}

\* extractRuleIndex: the first rule of that name, else the one of that number.
ExtractRuleIndex(rules, id) ==
    LET named == {i \in DOMAIN rules : Trim(rules[i].name) = id} IN
    IF named # {} THEN {Min(named)} ELSE {i \in DOMAIN rules : RuleIds[i] = id}

\* sourceProblemErrors; an answer without a problem is the fallback.
SourceProblemErrors(problem, rules) ==
    LET PlacedRule(c) == IF c.rule = "" THEN {} ELSE ExtractRuleIndex(rules, c.rule)
        Field(c) == IF PlacedRule(c) # {} THEN {} ELSE ConfigField(c.key) IN
    [rules |-> UNION {PlacedRule(problem[i]) : i \in DOMAIN problem},
     fields |-> UNION {Field(problem[i]) : i \in DOMAIN problem},
     general |-> \/ problem = <<>>
                 \/ \E i \in DOMAIN problem :
                       PlacedRule(problem[i]) = {} /\ ConfigField(problem[i].key) = {}]

\* Which fields, and so which messages, are on the screen.
Visible(f, name) ==
    LET s == SourceSections(f) IN
    CASE name \in {"protocol", "address"} -> s.network
      [] name \in {"framing", "max_connections", "idle_timeout"} -> s.stream
      [] name \in {"udp_sockets", "udp_read_buffer_bytes"} -> s.udp
      [] name \in {"tls_mode", "tls_client_auth"} -> s.tls
      [] name \in {"tls_cert", "tls_key"} -> s.tls /\ f.tls_mode = "paste"
      [] name \in {"tls_cert_file", "tls_key_file"} -> s.tls /\ f.tls_mode = "files"
      [] name \in {"tls_acme_domains", "tls_acme_email", "tls_acme_staging",
                   "tls_acme_accept_terms", "tls_acme_skip_preflight"} -> s.tls /\ f.tls_mode = "acme"
      [] name = "tls_client_ca" -> s.tls /\ f.tls_client_auth = "require_and_verify" /\ f.tls_mode # "files"
      [] name = "tls_client_ca_file" -> s.tls /\ f.tls_client_auth = "require_and_verify"
      [] name = "template" -> loaded \/ f.template # TEMPLATE_NONE
      [] OTHER -> TRUE

-----------------------------------------------------------------------------
(***************************************************************************)
(* The editor.                                                             *)
(***************************************************************************)

\* The page of a new source, or of a stored one.
SourceInit ==
    /\ stored \in Stored \cup {NoSource}
    /\ form = IF stored = NoSource THEN DEFAULT_SOURCE_FORM ELSE ConfigToForm(stored)
    /\ errors = NoErrors /\ sent = NoRequest
    /\ loaded = FALSE /\ fresh = FALSE
    /\ edits = 0 /\ saves = 0

LoadTemplates ==
    /\ ~loaded /\ loaded' = TRUE
    /\ UNCHANGED <<form, errors, stored, sent, fresh, edits, saves>>

Edited(f) ==
    /\ f # form /\ edits < MaxEdits
    /\ form' = f /\ edits' = edits + 1 /\ fresh' = FALSE
    /\ UNCHANGED <<errors, stored, sent, loaded, saves>>

\* set(key, value) of an input that is on the screen.  Nothing is disabled
\* while a save is on its way.
SetGeneral == \E k \in {"name", "type", "enabled", "protocol", "address"} \cap DOMAIN Inputs :
    Visible(form, k) /\ \E v \in Inputs[k] : Edited([form EXCEPT ![k] = v])
SetParsing == \E k \in {"timezone", "parsing", "size", "allowed_cidrs", "labels"} \cap DOMAIN Inputs :
    Visible(form, k) /\ \E v \in Inputs[k] : Edited([form EXCEPT ![k] = v])
SetTransport == \E k \in {"udp_sockets", "udp_read_buffer_bytes", "framing", "max_connections",
                          "idle_timeout"} \cap DOMAIN Inputs :
    Visible(form, k) /\ \E v \in Inputs[k] : Edited([form EXCEPT ![k] = v])
SetTls == \E k \in {"tls_mode", "tls_cert", "tls_key", "tls_cert_file", "tls_key_file",
                    "tls_client_auth"} \cap DOMAIN Inputs :
    Visible(form, k) /\ \E v \in Inputs[k] : Edited([form EXCEPT ![k] = v])
SetClientCA ==
    \E k \in {"tls_client_ca", "tls_client_ca_file"} \cap DOMAIN Inputs :
        /\ Visible(form, k) /\ (k = "tls_client_ca_file" <=> form.tls_mode = "files")
        /\ \E v \in Inputs[k] : Edited([form EXCEPT ![k] = v])
SetAcme == \E k \in {"tls_acme_domains", "tls_acme_email", "tls_acme_staging",
                     "tls_acme_accept_terms", "tls_acme_skip_preflight"} \cap DOMAIN Inputs :
    Visible(form, k) /\ \E v \in Inputs[k] : Edited([form EXCEPT ![k] = v])

PickTemplate(id) ==
    /\ Visible(form, "template") /\ id \in TemplateChoices /\ id # form.template
    /\ Edited(ApplyTemplate(form, TemplateById(id), TemplateById(form.template)))

TogglePart ==
    LET t == TemplateById(form.template) IN
    \E i \in DOMAIN t.parts :
        LET on == ~Contains(ResolveTemplateParts(t, form.template_parts), t.parts[i].id) IN
        Edited([form EXCEPT !.template_parts = ToggleTemplatePart(t, @, t.parts[i].id, on)])

AddRule ==
    /\ Len(form.extract) < MaxRules
    /\ Edited([form EXCEPT !.extract = Append(@, NewExtractRule("", "", "", <<>>, "typed"))])

PickPreset ==
    /\ Len(form.extract) < MaxRules
    /\ \E p \in Presets :
          Edited([form EXCEPT !.extract = Append(@, NewExtractRule(p.name, p.contains, p.prefix, p.regex, "typed"))])

ReplaceRule == \E i \in DOMAIN form.extract, k \in DOMAIN RuleInputs : \E v \in RuleInputs[k] :
    /\ v # form.extract[i][k]
    /\ Edited([form EXCEPT !.extract[i][k] = v, !.extract[i].by = "typed"])

MoveRule == \E i, j \in DOMAIN form.extract :
    /\ j \in {i - 1, i + 1}
    /\ Edited([form EXCEPT !.extract = [@ EXCEPT ![i] = form.extract[j], ![j] = form.extract[i]]])

RemoveRule == \E i \in DOMAIN form.extract :
    Edited([form EXCEPT !.extract = RemoveAt(@, i)])

\* onSubmit: the checks of the form, then create or update.
Submit ==
    /\ sent = NoRequest /\ saves < MaxSaves
    /\ LET out == FormToConfig(form) IN
       IF HasErrors(out.errors)
       THEN errors' = out.errors /\ fresh' = TRUE /\ UNCHANGED <<sent, saves>>
       ELSE /\ errors' = NoErrors /\ fresh' = TRUE
            /\ sent' = [config |-> out.config, enabled |-> form.enabled, rules |-> form.extract]
            /\ saves' = saves + 1
    /\ (errors' # errors \/ sent' # sent)
    /\ UNCHANGED <<form, stored, loaded, edits>>

\* The server stores the source: the item of the answer has a new version,
\* so the editor is mounted again on what is stored.
Accepted ==
    /\ sent # NoRequest
    /\ LET c == Prepared(sent.config, stored) IN
       /\ ServerProblem(c, sent.enabled) = <<>>
       /\ stored' = [config |-> c, enabled |-> sent.enabled]
       /\ form' = ConfigToForm(stored')
    /\ sent' = NoRequest /\ errors' = NoErrors /\ fresh' = FALSE
    /\ UNCHANGED <<loaded, edits, saves>>

\* onError: the complaints, or the failure of the call itself.  (A save that is
\* stored and whose answer is lost is a matter of module SourceEditor.)
Refused ==
    /\ sent # NoRequest /\ sent' = NoRequest
    /\ \E problem \in {<<>>, ServerProblem(Prepared(sent.config, stored), sent.enabled)} \cup ConflictsWith :
          errors' = SourceProblemErrors(problem, sent.rules)
    /\ UNCHANGED <<form, stored, loaded, fresh, edits, saves>>

SourceNext ==
    \/ LoadTemplates
    \/ SetGeneral \/ SetParsing \/ SetTransport \/ SetTls \/ SetClientCA \/ SetAcme
    \/ \E id \in DOMAIN Templates \cup {TEMPLATE_NONE} : PickTemplate(id)
    \/ TogglePart
    \/ AddRule \/ PickPreset \/ ReplaceRule \/ MoveRule \/ RemoveRule
    \/ Submit \/ Accepted \/ Refused

SourceSpec == SourceInit /\ [][SourceNext]_formVars

-----------------------------------------------------------------------------
(***************************************************************************)
(* Properties.                                                             *)
(***************************************************************************)

Opened == /\ errors = NoErrors /\ sent = NoRequest /\ stored # NoSource
          /\ form = ConfigToForm(stored)

\* The settings of a source that its type and protocol use; the form leaves
\* the others out, and the server gives them their defaults.
InUse(c) ==
    LET s == SourceSections(c) IN
    [c EXCEPT !.framing = IF s.stream THEN @ ELSE "auto",
              !.max_connections = IF s.stream THEN @ ELSE DefaultMaxConnections,
              !.idle_timeout = IF s.stream THEN @ ELSE "10m0s",
              !.udp_sockets = IF s.udp THEN @ ELSE 0,
              !.udp_read_buffer_bytes = IF s.udp THEN @ ELSE "8MiB"]

\* A pasted certificate was replaced by files, and the server kept the key.
KeyLeftOver(c) == c.tls.cert = "" /\ c.tls.key # ""

\* A source that is opened and saved without a change is accepted and is what
\* it was, as far as its type and protocol go: the form reads back what the
\* server made of its texts and of the ones it left out, sends nothing that is
\* refused, and the private key, which is never returned, is kept.  The one
\* exception is a source whose pasted certificate was replaced by files: its key
\* stays, the form takes it for pasted material, and the save is refused.
UntouchedSaveIsIdentity ==
    Opened /\ ~KeyLeftOver(stored.config) =>
        LET out == FormToConfig(form)
            c == Prepared(out.config, stored) IN
        /\ ~HasErrors(out.errors)
        /\ ServerProblem(c, form.enabled) = <<>>
        /\ c = InUse(stored.config)

\* The message about a rule is on a rule that is at fault, as long as the form
\* is the one that was submitted and no two rules answer to one name (two that
\* are called the same, or one called like the number of another).
RuleErrorsOnTheirRow ==
    LET rules == form.extract IN
    /\ fresh /\ sent = NoRequest
    /\ \A i, j \in DOMAIN rules : RuleId(rules, i) = RuleId(rules, j) => i = j
    => \A i \in errors.rules : i \in DOMAIN rules /\ (RuleRefused(rules[i]) \/ Faulty(rules[i]))

\* A rule a template brought in is there only while that template is chosen.
TemplateRulesGoWithIt ==
    \A i \in DOMAIN form.extract :
        form.extract[i].by = "template" =>
            SameAsSome(form.extract[i], TemplateById(form.template).extract)

\* A rule somebody wrote survives any change of the template, unless it does
\* exactly what a rule of the template they leave does.
TypedRulesSurvive ==
    [][form'.template # form.template /\ sent' = sent =>
          \A i \in DOMAIN form.extract :
              form.extract[i].by # "template" =>
                  \/ Contains(form'.extract, form.extract[i])
                  \/ SameAsSome(form.extract[i], TemplateById(form.template).extract)]_formVars

\* The parts of the form are parts of its template; only a stored source may
\* still name a part that its template no longer has.
PartsBelongToTemplate ==
    loaded =>
        \A p \in ToSet(form.template_parts) :
            \/ Contains(Ids(TemplateById(form.template).parts), p)
            \/ /\ stored # NoSource /\ form.template = stored.config.template
               /\ Contains(stored.config.template_parts, p)

\* The numbers of the setup guide run from 1 without a gap or a repetition
\* across the template's steps, its parts and the closing ones.
GuideIsNumbered ==
    LET groups == TemplateSteps(TemplateById(form.template), form.template_parts)
        Numbers(g) == (g.start + 1)..(g.start + g.steps)
        total == FoldLeft(LAMBDA n, g : n + g.steps, 0, groups) IN
    /\ UNION {Numbers(groups[i]) : i \in DOMAIN groups} = 1..total
    /\ \A i, j \in DOMAIN groups : i # j => Numbers(groups[i]) \cap Numbers(groups[j]) = {}

\* Template, rules, parts, guide and messages belong together after any
\* sequence of choices, edits and refused saves.
FormHangsTogether ==
    RuleErrorsOnTheirRow /\ TemplateRulesGoWithIt /\ PartsBelongToTemplate /\ GuideIsNumbered
=============================================================================
