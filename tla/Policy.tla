------------------------------- MODULE Policy -------------------------------
(***************************************************************************)
(* magiskpolicy: the statement language, the built-in rules and what they  *)
(* do to a policy.                                                         *)
(*                                                                         *)
(* A line is a sequence of words, a word a sequence of atoms: a name, a    *)
(* keyword, a number or one of the glued characters { } , ~.  A policy     *)
(* holds access rules <<effect, source, target, class, permission>> whose  *)
(* source and target are types or attributes, and for each extended key    *)
(* the ioctl numbers as libsepol stores them: whole drivers, and functions *)
(* of single drivers.                                                      *)
(***************************************************************************)
EXTENDS Integers, Sequences, SequencesExt, FiniteSetsExt, TLC

CONSTANTS
  HexOf,        \* atoms "0x..." to their numbers
  RangeOf,      \* atoms "0x..-0x.." to pairs of numbers
  NDrivers, NFuncs, \* an ioctl number is driver * NFuncs + function (256 each)
  ClassPerms,   \* classes to their permissions
  StockPolicy,  \* a device's policy
  PolicyArgs    \* command lines of magiskpolicy

VARIABLES
  ppc,      \* "start", "rules", "lines", "store", "done", "failed"
  pargs,    \* the parsed command line
  pol,      \* the policy in memory
  ptodo,    \* lines still to be parsed
  pstored   \* policies written: by "live" and by "save"

policyVars == <<ppc, pargs, pol, ptodo, pstored>>

-----------------------------------------------------------------------------
(* Tokens.                                                                 *)

Keywords == {"allow", "deny", "auditallow", "dontaudit", "allowxperm", "auditallowxperm",
             "dontauditxperm", "permissive", "enforce", "typeattribute", "type", "attribute",
             "type_transition", "type_change", "type_member", "genfscon", "*", "{", "}", ",", "~"}

Token(atom) ==
  CASE atom \in Keywords -> [k |-> atom]
    [] atom \in DOMAIN HexOf -> [k |-> "HX", v |-> HexOf[atom]]
    [] OTHER -> [k |-> "ID", v |-> atom]

RECURSIVE ExtractToken(_)
ExtractToken(w) ==
  LET Split(c) == LET i == SelectInSeq(w, LAMBDA a : a = c)
                  IN  ExtractToken(SubSeq(w, 1, i - 1)) \o <<[k |-> c]>>
                        \o ExtractToken(SubSeq(w, i + 1, Len(w)))
      Has(c) == \E i \in DOMAIN w : w[i] = c
  IN  CASE w = <<>> -> <<>>
        [] Has("{") -> Split("{")
        [] ~Has("{") /\ Has("}") -> Split("}")
        [] ~Has("{") /\ ~Has("}") /\ Has(",") -> Split(",")
        [] OTHER -> IF w[1] = "~" THEN <<[k |-> "~"]>> \o ExtractToken(Tail(w))
                                  ELSE <<Token(w[1])>>

TokenizeStatement(line) == FlattenSeq([i \in DOMAIN line |-> ExtractToken(line[i])])

-----------------------------------------------------------------------------
(* The parser.  A parse is a set: empty on a syntax error, else one record *)
(* of the value and of the tokens that are left.                           *)

Next1(ts) == IF ts = <<>> THEN [k |-> "end"] ELSE ts[1]

Ok(v, rest) == {[v |-> v, rest |-> rest]}

ParseId(ts) == IF Next1(ts).k = "ID" THEN Ok(ts[1].v, Tail(ts)) ELSE {}

(* The tokens up to the next one that is not of a kind in K.               *)
Run(ts, K) == {n \in 0 .. Len(ts) :
                 (\A i \in 1 .. n : ts[i].k \in K) /\ (n < Len(ts) => ts[n + 1].k \notin K)}

TermNames(ts) == [i \in DOMAIN ts |-> ts[i].v]

ParseTerm(ts) ==
  CASE Next1(ts).k = "ID" -> Ok(<<ts[1].v>>, Tail(ts))
    [] Next1(ts).k = "{" ->
         UNION {IF n + 1 < Len(ts) /\ ts[n + 2].k = "}"
                THEN Ok(TermNames(SubSeq(ts, 2, n + 1)), SubSeq(ts, n + 3, Len(ts))) ELSE {}
                : n \in Run(Tail(ts), {"ID"})}
    [] OTHER -> {}

ParseSterm(ts) ==
  CASE Next1(ts).k = "ID" -> Ok(<<ts[1].v>>, Tail(ts))
    [] Next1(ts).k = "*" -> Ok(<<>>, Tail(ts))
    [] Next1(ts).k = "{" ->
         UNION {IF n + 1 < Len(ts) /\ ts[n + 2].k = "}"
                THEN Ok(IF \E i \in 2 .. n + 1 : ts[i].k = "*" THEN <<>>
                        ELSE TermNames(SubSeq(ts, 2, n + 1)), SubSeq(ts, n + 3, Len(ts))) ELSE {}
                : n \in Run(Tail(ts), {"ID", "*"})}
    [] OTHER -> {}

MaxIoctl == NDrivers * NFuncs - 1

Xperm(low, high, reset) == [low |-> low, high |-> high, reset |-> reset]

ParseXperm(ts, reset) ==
  CASE Next1(ts).k = "HX" -> Ok(Xperm(ts[1].v, ts[1].v, reset), Tail(ts))
    [] Next1(ts).k = "ID" /\ Next1(ts).v \in DOMAIN RangeOf ->
         Ok(Xperm(RangeOf[ts[1].v][1], RangeOf[ts[1].v][2], reset), Tail(ts))
    [] OTHER -> {}

RECURSIVE ParseXpermList(_, _, _)
ParseXpermList(ts, reset, done) ==
  UNION {IF Next1(r.rest).k = "}" THEN Ok(Append(done, r.v), Tail(r.rest))
         ELSE ParseXpermList(r.rest, reset, Append(done, r.v)) : r \in ParseXperm(ts, reset)}

ParseXperms(ts) ==
  CASE Next1(ts).k = "~" -> IF Next1(Tail(ts)).k = "{" THEN ParseXpermList(SubSeq(ts, 3, Len(ts)), TRUE, <<>>) ELSE {}
    [] Next1(ts).k = "{" -> ParseXpermList(Tail(ts), FALSE, <<>>)
    [] Next1(ts).k = "*" \/ (Next1(ts).k = "HX" /\ Next1(ts).v = 0) ->
         Ok(<<Xperm(0, MaxIoctl, FALSE)>>, Tail(ts))
    [] OTHER -> {[v |-> <<r.v>>, rest |-> r.rest] : r \in ParseXperm(ts, FALSE)}

(* The arguments of a statement, each parsed by the parser its place has.  *)
ParseArg(kind, ts) ==
  CASE kind = "id" -> ParseId(ts)
    [] kind = "term" -> ParseTerm(ts)
    [] kind = "sterm" -> ParseSterm(ts)
    [] kind = "ioctl" -> {r \in ParseId(ts) : r.v = "ioctl"}
    [] kind = "xperms" -> ParseXperms(ts)
    [] kind = "[term]" -> IF ts = <<>> THEN Ok(<<>>, ts) ELSE ParseTerm(ts)
    [] kind = "[id]" -> IF ts = <<>> THEN Ok("", ts) ELSE ParseId(ts)

Shape(action) ==
  CASE action \in {"allow", "deny", "auditallow", "dontaudit"} -> <<"sterm", "sterm", "sterm", "sterm">>
    [] action \in {"allowxperm", "auditallowxperm", "dontauditxperm"} ->
         <<"sterm", "sterm", "sterm", "ioctl", "xperms">>
    [] action \in {"permissive", "enforce"} -> <<"sterm">>
    [] action = "typeattribute" -> <<"term", "term">>
    [] action = "type" -> <<"id", "[term]">>
    [] action = "attribute" -> <<"id">>
    [] action \in {"type_change", "type_member"} -> <<"id", "id", "id", "id">>
    [] action = "type_transition" -> <<"id", "id", "id", "id", "[id]">>
    [] action = "genfscon" -> <<"id", "id", "id">>

(* check_additional_args                                                   *)
NoMore(ts) == ts = <<>>

(* exec_statement: the call it makes on the policy, none on an error.      *)
ExecStatement(ts) ==
  IF Next1(ts).k \notin Keywords \ {"*", "{", "}", ",", "~"} THEN {}
  ELSE LET action == ts[1].k
           Step(acc, kind) == UNION {{[v |-> Append(a.v, r.v), rest |-> r.rest]
                                        : r \in ParseArg(kind, a.rest)} : a \in acc}
       IN  {[fn |-> action, args |-> a.v]
              : a \in {x \in FoldLeft(Step, Ok(<<>>, Tail(ts)), Shape(action)) : NoMore(x.rest)}}

-----------------------------------------------------------------------------
(* What a call does to the policy.                                         *)

Driver(x) == x \div NFuncs
Func(x) == x % NFuncs

(* Mutant of Each: the expansion stops after the first element.            *)
Each_First(vec) == IF vec = <<>> THEN {""} ELSE {vec[1]}

(* expand: an empty vector stands for a wildcard.                          *)
Each(vec) == IF vec = <<>> THEN {""} ELSE Range(vec)

AllNames(p) == p.types \cup p.attrs

(* The types or attributes a name stands for; none if it does not exist.   *)
(* A wildcard that adds covers the attributes, one that clears everything. *)
Meant(p, vec, strips) ==
  UNION {IF n = "" THEN (IF strips THEN AllNames(p) ELSE p.attrs) ELSE {n} \cap AllNames(p) : n \in Each(vec)}

(* Class and permission pairs; a permission without a class is refused.    *)
MeantPerms(c, perm) ==
  LET Of(k, n) == IF n = "" THEN ClassPerms[k] ELSE {n} \cap ClassPerms[k]
  IN  UNION {UNION {IF k = "" THEN (IF n = "" THEN UNION {{z} \X Of(z, n) : z \in DOMAIN ClassPerms} ELSE {})
                    ELSE IF k \in DOMAIN ClassPerms THEN {k} \X Of(k, n) ELSE {}
                    : n \in Each(perm)} : k \in Each(c)}

AvRules(p, effect, a, strips) ==
  {<<effect, s, t, cp[1], cp[2]>> : s \in Meant(p, a[1], strips), t \in Meant(p, a[2], strips),
                                    cp \in MeantPerms(a[3], a[4])}

NoXperms == [drivers |-> {}, funcs |-> [d \in 0 .. NDrivers - 1 |-> {}]]

(* add_xperm_rule on one key: a range inside one driver sets function      *)
(* bits, one over several sets whole drivers; reset starts from nothing.   *)
AddXperm(node, x) ==
  LET lo == Driver(x.low)
      hi == Driver(x.high)
      fs == Func(x.low) .. Func(x.high)
      all == 0 .. NDrivers - 1
  IN  CASE ~x.reset /\ lo # hi -> [node EXCEPT !.drivers = @ \cup lo .. hi]
        [] ~x.reset /\ lo = hi -> [node EXCEPT !.funcs[lo] = @ \cup fs]
        [] x.reset /\ lo # hi -> [NoXperms EXCEPT !.drivers = all \ (lo .. hi)]
        [] x.reset /\ lo = hi -> [NoXperms EXCEPT !.drivers = all \ {lo}, !.funcs[lo] = (0 .. NFuncs - 1) \ fs]

XpermsAt(p, key) == IF key \in DOMAIN p.xperms THEN p.xperms[key] ELSE NoXperms

AddXperms(p, effect, a) ==
  LET keys == {<<effect, s, t, c>> : s \in Meant(p, a[1], FALSE), t \in Meant(p, a[2], FALSE),
                                     c \in IF a[3] = <<>> THEN DOMAIN ClassPerms ELSE Range(a[3]) \cap DOMAIN ClassPerms}
  IN  [p EXCEPT !.xperms = [k \in keys \cup DOMAIN @ |->
         IF k \in keys THEN FoldLeft(AddXperm, XpermsAt(p, k), a[5]) ELSE @[k]]]

AddType(p, name, attrs) ==
  LET q == IF name \in AllNames(p) THEN p ELSE [p EXCEPT !.types = @ \cup {name}]
  IN  [q EXCEPT !.member = @ \cup (({name} \cap q.types) \X (attrs \cap q.attrs))]

Apply(p, call) ==
  LET a == call.args IN
  CASE call.fn = "allow" -> [p EXCEPT !.rules = @ \cup AvRules(p, "allow", a, FALSE)]
    [] call.fn = "deny" -> [p EXCEPT !.rules = @ \ AvRules(p, "allow", a, TRUE)]
    [] call.fn = "auditallow" -> [p EXCEPT !.rules = @ \cup AvRules(p, "auditallow", a, FALSE)]
    [] call.fn = "dontaudit" -> [p EXCEPT !.rules = @ \cup AvRules(p, "dontaudit", a, FALSE)]
    [] call.fn \in {"allowxperm", "auditallowxperm", "dontauditxperm"} -> AddXperms(p, call.fn, a)
    [] call.fn = "permissive" -> [p EXCEPT !.permissive = @ \cup Meant(p, a[1], TRUE)]
    [] call.fn = "enforce" -> [p EXCEPT !.permissive = @ \ Meant(p, a[1], TRUE)]
    [] call.fn = "typeattribute" ->
         [p EXCEPT !.member = @ \cup ((Range(a[1]) \cap p.types) \X (Range(a[2]) \cap p.attrs))]
    [] call.fn = "type" -> AddType(p, a[1], Range(a[2]))
    [] call.fn = "attribute" ->
         [p EXCEPT !.attrs = IF a[1] \in AllNames(p) THEN @ ELSE @ \cup {a[1]}]
    [] call.fn \in {"type_transition", "type_change", "type_member"} ->
         IF {a[1], a[2], a[4]} \subseteq AllNames(p) /\ a[3] \in DOMAIN ClassPerms
         THEN [p EXCEPT !.defaults = (<<call.fn, a[1], a[2], a[3], IF Len(a) = 5 THEN a[5] ELSE "">> :> a[4]) @@ @]
         ELSE p
    [] call.fn = "genfscon" -> [p EXCEPT !.defaults = (<<call.fn, a[1], a[2]>> :> a[3]) @@ @]

ApplyAll(p, calls) == FoldLeft(Apply, p, calls)

-----------------------------------------------------------------------------
(* magisk_rules: the table, in its order.                                  *)

Call(fn, args) == [fn |-> fn, args |-> args]

All == <<>>
Proc == <<"magisk">>
MagiskFile == <<"magisk_file">>
Log == <<"magisk_log_file">>
Domain == <<"domain">>
XAll == <<Xperm(0, MaxIoctl, FALSE)>>
SvcMgr == <<"servicemanager", "vndservicemanager", "hwservicemanager">>
DataTypes == <<"fs_type", "dev_type", "file_type", "domain">>

Declarations == <<
  Call("type", <<"magisk", Domain>>),
  Call("typeattribute", <<Proc, <<"mlstrustedsubject", "netdomain", "appdomain">>>>),
  Call("type", <<"magisk_file", <<"file_type">>>>), Call("typeattribute", <<MagiskFile, <<"mlstrustedobject">>>>),
  Call("type", <<"magisk_log_file", <<"file_type">>>>), Call("typeattribute", <<Log, <<"mlstrustedobject">>>>) >>

(* Source, target, classes and permissions of the allow statements.        *)
AllowTable == <<
  <<Domain, MagiskFile, <<"file", "dir", "fifo_file", "chr_file", "lnk_file", "sock_file">>, All>>,
  <<<<"zygote">>, Log, <<"fifo_file">>, <<"open", "read">>>>,
  <<Domain, Log, <<"fifo_file">>, <<"write">>>>,
  <<Proc, DataTypes \o <<"service_manager_type", "hwservice_manager_type", "vndservice_manager_type",
                         "port_type", "node_type", "property_type">>, All, All>>,
  <<SvcMgr, Proc, <<"dir">>, <<"search">>>>,
  <<SvcMgr, Proc, <<"file">>, <<"open", "read", "map">>>>,
  <<SvcMgr, Proc, <<"process">>, <<"getattr">>>>,
  <<Domain, Proc, <<"binder">>, <<"call", "transfer">>>>,
  <<Domain, Proc, <<"process">>, <<"sigchld">>>>,
  <<Domain, Proc, <<"fd">>, <<"use">>>>,
  <<Domain, Proc, <<"fifo_file">>, <<"write", "read", "open", "getattr">>>>,
  <<<<"zygote", "shell", "platform_app", "system_app", "priv_app", "untrusted_app", "untrusted_app_all">>,
    Proc, <<"unix_stream_socket">>, <<"connectto", "getopt">>>>,
  <<<<"init", "zygote", "shell">>, <<"tmpfs">>, <<"file">>, All>>,
  <<<<"kernel">>, <<"rootfs", "tmpfs">>, <<"chr_file">>, <<"write">>>>,
  <<<<"kernel">>, <<"tmpfs">>, <<"fifo_file">>, <<"open", "read", "write">>>>,
  <<<<"rootfs">>, <<"labeledfs", "tmpfs">>, <<"filesystem">>, <<"associate">>>>,
  <<MagiskFile, <<"pipefs", "devpts">>, <<"filesystem">>, <<"associate">>>>,
  <<<<"kernel">>, All, <<"file">>, <<"relabelto">>>>,
  <<<<"kernel">>, <<"tmpfs">>, <<"file">>, <<"relabelfrom">>>>,
  <<<<"kernel">>, <<"kernel">>, <<"process">>, <<"setcurrent">>>>,
  <<<<"kernel">>, Proc, <<"process">>, <<"dyntransition">>>>,
  <<<<"init">>, Proc, <<"process">>, All>>,
  <<<<"zygote">>, <<"zygote">>, <<"process">>, <<"execmem">>>>,
  <<<<"zygote">>, <<"fs_type">>, <<"filesystem">>, <<"unmount">>>>,
  <<<<"system_server">>, <<"system_server">>, <<"process">>, <<"execmem">>>> >>

Allows == [i \in DOMAIN AllowTable |-> Call("allow", AllowTable[i])]

(* Mutant of MagiskRules: the types are declared after the rules on them.  *)
MagiskRules_DeclaredLate == Allows \o Declarations

(* permissive and allowxperm stand among the allows; they write other      *)
(* parts of the policy.                                                    *)
MagiskRules ==
  <<Call("deny", <<All, <<"kernel">>, <<"security">>, <<"load_policy">>>>)>> \o Declarations \o Allows \o <<
    Call("permissive", <<Proc>>),
    Call("allowxperm", <<Proc, DataTypes, <<"blk_file", "fifo_file", "chr_file">>, "ioctl", XAll>>),
    Call("allowxperm", <<Proc, Proc, <<"tcp_socket", "udp_socket", "rawip_socket">>, "ioctl", XAll>>),
    Call("dontaudit", <<<<"llkd">>, Proc, <<"process">>, <<"ptrace">>>>),
    Call("deny", <<<<"init">>, <<"adb_data_file">>, <<"dir">>, <<"search">>>>),
    Call("deny", <<<<"vendor_init">>, <<"adb_data_file">>, <<"dir">>, <<"search">>>>) >>

-----------------------------------------------------------------------------
(* magiskpolicy's main.  A command line is a record of its options:        *)
(* sources (of --load, --load-split, --compile-split), print, magisk,      *)
(* apply (files, each a set of at most one sequence of lines), polices     *)
(* (sequences of lines), live, save.                                       *)

PolicyInit ==
  /\ ppc = "start" /\ pargs = <<>> /\ pol = StockPolicy /\ ptodo = <<>> /\ pstored = <<>>

(* The policy is loaded, or the source cannot be read.                     *)
PLoad(args) ==
  /\ pargs' = args
  /\ ptodo' = FlattenSeq([i \in DOMAIN args.apply |-> FlattenSeq(SetToSeq(args.apply[i]))]) \o FlattenSeq(args.polices)
  /\ ppc' \in IF Cardinality(args.sources) > 1 THEN {"failed"}
              ELSE {"failed", IF args.print THEN "print" ELSE "rules"}
  /\ UNCHANGED <<pol, pstored>>

PPrint ==
  /\ ppc = "print"
  /\ ppc' = IF pargs.magisk \/ pargs.apply # <<>> \/ pargs.polices # <<>> \/ pargs.live \/ pargs.save
            THEN "failed" ELSE "done"
  /\ UNCHANGED <<pargs, pol, ptodo, pstored>>

PRules ==
  /\ ppc = "rules" /\ ppc' = "lines"
  /\ pol' = IF pargs.magisk THEN ApplyAll(pol, MagiskRules) ELSE pol
  /\ UNCHANGED <<pargs, ptodo, pstored>>

(* One line, in the files first; a comment or an error changes nothing.    *)
PLine ==
  /\ ppc = "lines" /\ ptodo # <<>> /\ ptodo' = Tail(ptodo)
  /\ LET calls == IF Head(ptodo) = <<>> \/ Head(ptodo)[1][1] = "#" THEN {}
                  ELSE ExecStatement(TokenizeStatement(Head(ptodo)))
     IN  pol' = ApplyAll(pol, SetToSeq(calls))
  /\ UNCHANGED <<ppc, pargs, pstored>>

(* Live first: a failed write ends the program before the file is saved.   *)
PStore ==
  /\ ppc = "lines" /\ ptodo = <<>>
  /\ \E live, save \in BOOLEAN :
       /\ ppc' = IF (pargs.live => live) /\ (pargs.save => save) THEN "done" ELSE "failed"
       /\ pstored' = (IF pargs.live /\ live THEN <<pol>> ELSE <<>>)
                     \o (IF pargs.save /\ (pargs.live => live) /\ save THEN <<pol>> ELSE <<>>)
  /\ UNCHANGED <<pargs, pol, ptodo>>

PolicyNext == (ppc = "start" /\ \E args \in PolicyArgs : PLoad(args)) \/ PPrint \/ PRules \/ PLine \/ PStore

-----------------------------------------------------------------------------
(* Properties.                                                             *)

(* Access as the kernel computes it: through the type itself or any of its *)
(* attributes, on either side.                                             *)
Allowed(p, s, t, c, perm) ==
  LET Views(n) == {n} \cup {a \in p.attrs : <<n, a>> \in p.member}
  IN  \E x \in Views(s), y \in Views(t) : <<"allow", x, y, c, perm>> \in p.rules

(* After the built-in rules only Magisk's own domain may load a policy     *)
(* ("Prevent anything to change sepolicy except ourselves").               *)
OnlyMagiskLoadsPolicy ==
  [][ppc = "rules" /\ ppc' = "lines" /\ pargs.magisk =>
       {s \in pol'.types : Allowed(pol', s, "kernel", "security", "load_policy")} = {"magisk"}]_policyVars

(* Patching a policy that is already patched changes nothing: no built-in  *)
(* rule was lost because the type it names is declared further down, and   *)
(* none undoes another.  The booted policy is patched a second time when   *)
(* magiskpolicy --live --magisk runs on a device that magiskinit patched.  *)
PatchAgainChangesNothing ==
  [][ppc = "rules" /\ ppc' = "lines" /\ pargs.magisk => ApplyAll(pol', MagiskRules) = pol']_policyVars

(* What sepol_magisk_rules leaves behind: a policy only Magisk can change  *)
(* and that no second patch changes.                                       *)
BuiltInRulesHold == OnlyMagiskLoadsPolicy /\ PatchAgainChangesNothing

(* Every choice of one element from each pair of braces.                   *)
RECURSIVE Singles(_)
Singles(ts) ==
  IF ts = <<>> THEN {<<>>}
  ELSE IF ts[1].k # "{" THEN {<<ts[1]>> \o r : r \in Singles(Tail(ts))}
  ELSE LET n == SelectInSeq(ts, LAMBDA x : x.k = "}")
       IN  {<<ts[i]>> \o r : i \in 2 .. n - 1, r \in Singles(SubSeq(ts, n + 1, Len(ts)))}

(* A statement with lists of names or numbers in braces does what the      *)
(* statements do that take one element from each list, in whatever order   *)
(* they are given (the help: "Will be expanded to: allow s1 t1 ... allow   *)
(* s2 t2"), types that do not exist included.                              *)
ListMeansEach ==
  [][ppc = "lines" /\ ptodo # <<>> =>
       LET ts == TokenizeStatement(Head(ptodo))
           calls == UNION {ExecStatement(single) : single \in Singles(ts)}
       IN  ExecStatement(ts) # {} /\ (\A i \in DOMAIN ts : ts[i].k \notin {"*", "~"}) =>
             pol' = FoldSet(LAMBDA call, p : Apply(p, call), pol, calls)]_policyVars
=============================================================================
