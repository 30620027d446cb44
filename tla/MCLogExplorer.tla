--------------------------- MODULE MCLogExplorer ---------------------------
(* The log explorer over four kinds of logs: a host whose name is a keyword  *)
(* of the filter text, one that must be quoted, an address, and no host.     *)
EXTENDS LogExplorer

IP == "10.0.0.7"
MCUnsafe == {"x y", "^1|or"}
MCNumbers == {"5"}
MCBadRegexes == {"("}
MCCIDRs == {"10.0.0.0/8"}
Kind1 == [host |-> IP, message |-> "x y", level |-> "3"]
Kind2 == [host |-> "or", message |-> "b", level |-> "5"]
Kind3 == [host |-> "x y", message |-> "b", level |-> "7"]
Kind4 == [host |-> "", message |-> "a", level |-> ""]

MCMatching(op, v) ==
    CASE op = "contains" /\ v = "o" -> {"or"}
      [] op = "starts_with" /\ v = "x" -> {"x y"}
      [] op = "regex" /\ v = "^1|or" -> {IP, "or"}
      [] op = "cidr" /\ v = "10.0.0.0/8" -> {IP}
      [] op = "gt" /\ v = "5" -> {"7"}
      [] op = "gte" /\ v = "5" -> {"5", "7"}
      [] op = "lt" /\ v = "5" -> {"3"}
      [] op = "lte" /\ v = "5" -> {"3", "5"}
      [] OTHER -> {}
MCSamples == {Kind1, Kind2, Kind3, Kind4}

HostA == Term("eq", "host", IP)
HostOr == Term("eq", "host", "or")
MessageB == FreeText("b")
Pair == Joined("or", <<HostA, MessageB>>)

MCTyped ==
    {[tokens |-> <<Bare("host"), Op("="), Quoted("or"), Bare("or"), Bare("b")>>,
      means |-> Joined("or", <<HostOr, MessageB>>)],
     [tokens |-> <<Bare("not"), Quoted("b"), Bare("host"), Bare("not"), Bare("in"), Mark("lparen"), Bare(IP),
                   Mark("comma"), Quoted("x y"), Mark("rparen")>>,
      means |-> Joined("and", <<Not(MessageB), Listed("not_in", "host", <<IP, "x y">>)>>)],
     [tokens |-> <<Bare("not"), Mark("lparen"), Mark("bang"), Bare("host"), Mark("exists"), Bare("b"), Mark("rparen")>>,
      means |-> Not(Joined("and", <<Present("not_exists", "host"), MessageB>>))],
     [tokens |-> <<Bare("host"), Op("="), Bare("or"), Bare("b")>>,
      means |-> Joined("and", <<HostOr, MessageB>>)],
     [tokens |-> <<Bare("level"), Op(">="), Bare("5"), Bare("host"), Op("^="), Bare("x"), Bare("or"),
                   Bare("host"), Bare("cidr"), Bare("10.0.0.0/8"), Bare("level"), Op("<"), Bare("5")>>,
      means |-> Joined("or", <<Joined("and", <<Term("gte", "level", "5"), Term("starts_with", "host", "x")>>),
                               Joined("and", <<Term("cidr", "host", "10.0.0.0/8"), Term("lt", "level", "5")>>)>>)],
     [tokens |-> <<Bare("host"), Bare("cidr")>>, means |-> NoMeaning],
     [tokens |-> <<Mark("lparen"), Bare("a"), Bare("or"), Bare("b")>>, means |-> NoMeaning]}

MCFormInputs ==
    {[form |-> [field |-> "host", op |-> "in", value |-> <<IP, "", "or">>],
      means |-> Listed("in", "host", <<IP, "or">>)],
     [form |-> [field |-> "host", op |-> "ne", value |-> <<"x y">>], means |-> Term("ne", "host", "x y")],
     [form |-> [field |-> "host", op |-> "not_exists", value |-> <<>>], means |-> Present("not_exists", "host")],
     [form |-> [field |-> "host", op |-> "regex", value |-> <<"^1|or">>], means |-> Term("regex", "host", "^1|or")],
     [form |-> [field |-> "level", op |-> "lte", value |-> <<"5">>], means |-> Term("lte", "level", "5")],
     [form |-> [field |-> "host", op |-> "cidr", value |-> <<"or">>], means |-> NoMeaning],
     [form |-> [field |-> "", op |-> "eq", value |-> <<"a">>], means |-> NoMeaning],
     [form |-> [field |-> "host", op |-> "in", value |-> <<"">>], means |-> NoMeaning]}

Only1 == [blank |-> FALSE, sel |-> {Kind1}, pipes |-> FALSE, bad |-> FALSE]
Piped == [blank |-> FALSE, sel |-> {Kind1, Kind2}, pipes |-> TRUE, bad |-> FALSE]
Mistake == [blank |-> FALSE, sel |-> {}, pipes |-> FALSE, bad |-> TRUE]
MCNatives == {NoNative, Only1, Piped, Mistake}

Address(q, n) == [from |-> Ago(2), to |-> Ago(0), q |-> EncodeFilter(q), native |-> n, mode |-> "visual",
                  cols |-> <<>>, split |-> "severity", saved |-> 0]
Compound == Address(Joined("and", <<Pair, Not(MessageB)>>), Only1)
Inverted == [Address(Pair, Piped) EXCEPT !.from = At(3), !.to = At(1)]
Unparsable == [Address(Everything, NoNative) EXCEPT !.q = Written(<<Bare("or")>>)]
Advanced == [Address(Not(Joined("or", <<Term("gt", "level", "5"), Term("contains", "host", "o")>>)), NoNative) EXCEPT !.mode = "advanced"]
MCStartURLs ==
    [query |-> {Address(Everything, NoNative), Unparsable, Compound, Advanced},
     panels |-> {Address(Term("ne", "host", "or"), NoNative), Inverted},
     saved |-> {Compound, Unparsable}]

MCProposals == {[filter |-> Joined("and", <<Pair, Present("exists", "host")>>), from |-> Ago(4), to |-> Ago(0)],
                [filter |-> Everything, from |-> At(0), to |-> At(2)]}

Early == [time |-> 1, kind |-> Kind1]
TiedA == [time |-> 2, kind |-> Kind1]
TiedB == [time |-> 2, kind |-> Kind4]
TiedLate == [time |-> 2, kind |-> Kind3]
Newer == [time |-> 3, kind |-> Kind3]
MCLogs == {Early, TiedA, TiedB, TiedLate, Newer}
MCStartLogs == {Early, TiedA, TiedB, Newer}
\* One order of the tied logs and its reverse.
MCRanks == {[l \in MCLogs |-> CASE l = TiedA -> n [] l = TiedLate -> -n [] OTHER -> 0] : n \in {1, -1}}
MCRanges == {[from |-> At(0), to |-> At(4)], [from |-> Ago(4), to |-> Ago(0)], [from |-> Garbled, to |-> Ago(0)]}

MCLinks == {Address(Pair, Piped), Address(Pair, Mistake)}

MCElsewhere == {[filter |-> Pair, native |-> Only1]}
MCMaxMoves == [query |-> 2, panels |-> 2, saved |-> 3]
=============================================================================
