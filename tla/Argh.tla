-------------------------------- MODULE Argh --------------------------------
(***************************************************************************)
(* Command lines: what derive(FromArgs) accepts as a command, how          *)
(* parse_struct_args reads words into its fields, the command tables of    *)
(* magiskboot, of its cpio, of magisk and of magiskpolicy, and their       *)
(* entry points up to the chosen action.                                   *)
(*                                                                         *)
(* A command is a record: fields (a sequence), subs (subcommand names to   *)
(* commands), triggers (words asking for help).  Words are opaque; Dashed  *)
(* are the ones that begin with "-".                                       *)
(***************************************************************************)
EXTENDS Integers, Sequences, SequencesExt, FiniteSetsExt, TLC

CONSTANTS
  Dashed,     \* words that begin with "-"
  Undash,     \* words that begin with "--" to the rest of them
  CompressTo, \* words "compress=..." to the format they name
  Formats,    \* compression formats
  Octal,      \* words that are file modes
  Schemas,    \* field sequences given to the derive macro
  CmdLines    \* records of a program and of its words

VARIABLES
  apc,    \* "start", "derived", "parsed", "action", "exit"
  ain,    \* the schema or the command line
  aout    \* the result of the parse

arghVars == <<apc, ain, aout>>

-----------------------------------------------------------------------------
(* Fields and derive(FromArgs).                                            *)

Field(kind, name, flags, opt) ==
  [kind |-> kind, name |-> name, flags |-> flags, opt |-> opt, greedy |-> FALSE, of |-> {}]

Switch(name, flags) == Field("switch", name, flags, "optional")
Opt(name, flags, opt) == Field("option", name, flags, opt)
Pos(name, opt) == Field("positional", name, {}, opt)
Greedy(name) == [Pos(name, "repeating") EXCEPT !.greedy = TRUE]

Positionals(fields) == SelectSeq(fields, LAMBDA f : f.kind = "positional")

(* Mutant of OnlyTrailingOptional: a required positional may follow an     *)
(* optional one.                                                           *)
OnlyTrailingOptional_Any(fields) == TRUE

OnlyTrailingOptional(fields) ==
  LET p == Positionals(fields)
  IN  \A i, j \in DOMAIN p : i < j /\ p[i].opt # "none" => p[j].opt # "none"

UniqueNames(fields) == \A i, j \in DOMAIN fields : i # j => fields[i].flags \cap fields[j].flags = {}

Named(fields) ==
  \A i \in DOMAIN fields : fields[i].kind \in {"switch", "option"} => fields[i].flags # {} /\ "--help" \notin fields[i].flags

DeriveAccepts(fields) == UniqueNames(fields) /\ OnlyTrailingOptional(fields) /\ Named(fields)

(* Help triggers: the defaults at the top, none in subcommands.            *)
Top(fields, subs) == [fields |-> fields, subs |-> subs, triggers |-> {"-h", "--help"}]
Sub(fields) == [fields |-> fields, subs |-> <<>>, triggers |-> {}]

-----------------------------------------------------------------------------
(* parse_struct_args.                                                      *)

(* The slot with one more value; none when the value cannot be parsed or   *)
(* the slot holds one and is not a list.                                   *)
FillSlot(f, slot, word) ==
  IF (f.of # {} /\ word \notin f.of) \/ (f.opt # "repeating" /\ slot # <<>>) THEN {} ELSE {Append(slot, word)}

Start(cmd, args) ==
  [rest |-> args, slots |-> [n \in {cmd.fields[i].name : i \in DOMAIN cmd.fields} |-> <<>>],
   help |-> FALSE, ended |-> FALSE, index |-> 1, sub |-> <<>>, st |-> "ok"]

Error(s) == [s EXCEPT !.st = "error", !.rest = <<>>]

Filled(s, f, word) ==
  LET new == FillSlot(f, s.slots[f.name], word)
  IN  IF new = {} THEN Error(s) ELSE [s EXCEPT !.slots[f.name] = CHOOSE x \in new : TRUE]

ParseOption(cmd, s, arg) ==
  LET i == SelectInSeq(cmd.fields, LAMBDA f : arg \in f.flags)
  IN  CASE i = 0 -> Error(s)
        [] i # 0 /\ cmd.fields[i].kind = "switch" -> [s EXCEPT !.slots[cmd.fields[i].name] = <<arg>>]
        [] i # 0 /\ cmd.fields[i].kind = "option" ->
             IF s.rest = <<>> THEN Error(s)
             ELSE Filled([s EXCEPT !.rest = Tail(@)], cmd.fields[i], Head(s.rest))

ParsePositional(cmd, s, arg) ==
  LET p == Positionals(cmd.fields)
      stays == s.index = Len(p) /\ p[s.index].opt = "repeating"
  IN  IF s.index > Len(p) THEN Error(s)
      ELSE [Filled(s, p[s.index], arg) EXCEPT !.index = IF stays THEN @ ELSE @ + 1,
                                              !.ended = @ \/ (stays /\ p[s.index].greedy)]

(* compress has a parser of its own, which takes dashes for file names.    *)
CompressArgs(format, args) ==
  IF format \in Formats /\ Len(args) \in 1 .. 2
  THEN [st |-> "ok", slots |-> [file |-> <<args[1]>>, out |-> Tail(args)], sub |-> <<>>]
  ELSE [st |-> "error", slots |-> <<>>, sub |-> <<>>]

RECURSIVE ParseArgs(_, _), FromArgs(_, _)
ParseArgs(cmd, s) ==
  IF s.rest = <<>> THEN s
  ELSE LET arg == Head(s.rest)
           r == [s EXCEPT !.rest = Tail(@)]
           dash == arg \in Dashed /\ ~s.ended
           subargs == IF s.help THEN <<"help">> \o r.rest ELSE r.rest
           sub == IF arg = "compress" THEN CompressArgs("gzip", subargs) ELSE FromArgs(cmd.subs[arg], subargs)
       IN  CASE arg \in cmd.triggers /\ ~s.ended -> ParseArgs(cmd, [r EXCEPT !.help = TRUE])
             [] arg \notin cmd.triggers /\ dash /\ arg = "--" -> ParseArgs(cmd, [r EXCEPT !.ended = TRUE])
             [] arg \notin cmd.triggers /\ dash /\ arg # "--" ->
                  IF s.help THEN Error(s) ELSE ParseArgs(cmd, ParseOption(cmd, r, arg))
             [] ~dash /\ arg \in DOMAIN cmd.subs ->
                  [s EXCEPT !.rest = <<>>, !.help = FALSE, !.st = sub.st, !.sub = <<arg, sub>>]
             [] ~dash /\ arg \notin DOMAIN cmd.subs /\ (arg \notin cmd.triggers \/ s.ended) ->
                  ParseArgs(cmd, ParsePositional(cmd, r, arg))

Missing(cmd, s) ==
  \/ \E i \in DOMAIN cmd.fields : cmd.fields[i].opt = "none" /\ s.slots[cmd.fields[i].name] = <<>>
  \/ cmd.subs # <<>> /\ s.sub = <<>>

FromArgs(cmd, args) ==
  LET s == ParseArgs(cmd, Start(cmd, args))
  IN  [slots |-> s.slots, sub |-> s.sub,
       st |-> CASE s.st # "ok" -> s.st
                [] s.st = "ok" /\ s.help -> "help"
                [] s.st = "ok" /\ ~s.help -> IF Missing(cmd, s) THEN "error" ELSE "ok"]

-----------------------------------------------------------------------------
(* The command tables.                                                     *)

Img == Pos("img", "none")
OneFile == Pos("file", "none")
Two(a, b) == Sub(<<Pos(a, "none"), Pos(b, "none")>>)
Mode == [Pos("mode", "none") EXCEPT !.of = Octal]
Bare == Sub(<<>>)

DtbAction == "print" :> Sub(<<Switch("fstab", {"-f"})>>) @@ "patch" :> Bare @@ "test" :> Bare

ImageActions ==
  "unpack" :> Sub(<<Switch("no_decompress", {"-n"}), Switch("dump_header", {"-h"}), Img>>)
  @@ "repack" :> Sub(<<Switch("no_compress", {"-n"}), Img, Pos("out", "optional")>>)
  @@ "verify" :> Sub(<<Img, Pos("cert", "optional")>>)
  @@ "sign" :> Sub(<<Img, Pos("name", "optional"), Pos("cert", "optional"), Pos("key", "optional")>>)
  @@ "extract" :> Sub(<<Pos("payload", "none"), Pos("partition", "optional"), Pos("outfile", "optional")>>)

FileActions ==
  "hexpatch" :> Sub(<<OneFile, Pos("src", "none"), Pos("dest", "none")>>)
  @@ "cpio" :> Sub(<<OneFile, Pos("cmds", "repeating")>>)
  @@ "dtb" :> [Sub(<<OneFile>>) EXCEPT !.subs = DtbAction]
  @@ "split" :> Sub(<<Switch("no_decompress", {"-n"}), OneFile>>)
  @@ "sha1" :> Sub(<<OneFile>>) @@ "cleanup" :> Bare @@ "compress" :> Bare
  @@ "decompress" :> Sub(<<OneFile, Pos("out", "optional")>>)

BootCli == Top(<<>>, ImageActions @@ FileActions)

CpioCommand == Top(<<>>,
  "test" :> Bare @@ "restore" :> Bare @@ "patch" :> Bare @@ "exists" :> Sub(<<Pos("path", "none")>>)
  @@ "backup" :> Sub(<<Switch("skip_compress", {"-n", "--skip-compress"}), Pos("origin", "none")>>)
  @@ "rm" :> Sub(<<Switch("recursive", {"-r", "--recursive"}), Pos("path", "none")>>)
  @@ "mv" :> Two("from", "to") @@ "extract" :> Sub(<<Greedy("paths")>>)
  @@ "mkdir" :> Sub(<<Mode, Pos("dir", "none")>>) @@ "ln" :> Two("src", "dst")
  @@ "add" :> Sub(<<Mode, Pos("path", "none"), Pos("file", "none")>>)
  @@ "ls" :> Sub(<<Switch("recursive", {"-r", "--recursive"}), Pos("path", "defaulted")>>))

(* Requests to the daemon, and whether the client may start it.            *)
DaemonRequest ==
  "-v" :> <<"CHECK_VERSION", FALSE>> @@ "-V" :> <<"CHECK_VERSION_CODE", FALSE>>
  @@ "--remove-modules" :> <<"REMOVE_MODULES", FALSE>> @@ "--daemon" :> <<"START_DAEMON", TRUE>>
  @@ "--stop" :> <<"STOP_DAEMON", FALSE>> @@ "--post-fs-data" :> <<"POST_FS_DATA", TRUE>>
  @@ "--service" :> <<"LATE_START", TRUE>> @@ "--boot-complete" :> <<"BOOT_COMPLETE", FALSE>>
  @@ "--zygote-restart" :> <<"ZYGOTE_RESTART", FALSE>> @@ "--sqlite" :> <<"SQLITE_CMD", FALSE>>

LocalActions == {"-c", "--list", "--install-module", "--unlock-blocks", "--restorecon", "--clone-attr",
                 "--clone", "--path", "--denylist", "--preinit-device"}

MagiskFields(name) ==
  CASE name = "--remove-modules" -> Sub(<<Switch("no_reboot", {"-n", "--no-reboot"})>>)
    [] name = "--install-module" -> Sub(<<Pos("zip", "none")>>)
    [] name \in {"--clone-attr", "--clone"} -> Two("from", "to")
    [] name = "--sqlite" -> Sub(<<Pos("sql", "none")>>)
    [] name = "--denylist" -> Sub(<<Greedy("args")>>)
    [] OTHER -> Bare

MagiskCli == Top(<<>>, [name \in DOMAIN DaemonRequest \cup LocalActions |-> MagiskFields(name)])

PolicyCli == Top(<<Switch("live", {"--live"}), Switch("magisk", {"--magisk"}),
  Switch("compile_split", {"--compile-split"}), Switch("load_split", {"--load-split"}),
  Switch("print_rules", {"--print-rules"}), Opt("load", {"--load"}, "optional"),
  Opt("save", {"--save"}, "optional"), Opt("apply", {"--apply"}, "repeating"), Pos("polices", "repeating")>>, <<>>)

(* The words as the entry point hands them to the parser: magiskboot drops *)
(* the dashes of an action, magisk puts "--" before it, which ends the     *)
(* options so that actions with dashes are subcommands.                    *)
Given(program, words) ==
  CASE program = "magiskboot" ->
         IF words[1] \in DOMAIN Undash THEN <<Undash[words[1]]>> \o Tail(words) ELSE words
    [] program = "magisk" -> <<"--">> \o words
    [] OTHER -> words

Parse(program, words) ==
  CASE program = "magiskboot" ->
         IF words[1] \in DOMAIN CompressTo
         THEN [st |-> CompressArgs(CompressTo[words[1]], Tail(words)).st, slots |-> <<>>,
               sub |-> <<words[1], CompressArgs(CompressTo[words[1]], Tail(words))>>]
         ELSE FromArgs(BootCli, words)
    [] program = "cpio" -> FromArgs(CpioCommand, words)
    [] program = "magisk" -> FromArgs(MagiskCli, words)
    [] program = "magiskpolicy" -> FromArgs(PolicyCli, words)

-----------------------------------------------------------------------------
Payload(name, slots) ==
  CASE name = "--remove-modules" -> {[do_reboot |-> slots.no_reboot = <<>>]}
    [] name = "--sqlite" -> {slots.sql[1]}
    [] OTHER -> {}

ArghInit == apc = "start" /\ ain = <<>> /\ aout = <<>>

ADerive(fields) ==
  /\ apc' = IF DeriveAccepts(fields) THEN "derived" ELSE "exit"
  /\ ain' = fields /\ UNCHANGED aout

AParse(line) ==
  /\ ain' = line /\ aout' = Parse(line.program, Given(line.program, line.words))
  /\ apc' = IF aout'.st = "ok" THEN "action" ELSE "exit"

(* The program runs the action with the fields it parsed; magisk sends     *)
(* most of its actions to the daemon.                                      *)
ARun ==
  /\ apc = "action" /\ apc' = "exit"
  /\ aout' = IF ain.program = "magisk" /\ aout.sub[1] \in DOMAIN DaemonRequest
             THEN [request |-> DaemonRequest[aout.sub[1]], payload |-> Payload(aout.sub[1], aout.sub[2].slots)]
             ELSE [locally |-> aout]
  /\ UNCHANGED ain

ArghNext ==
  \/ apc = "start" /\ \E f \in Schemas : ADerive(f)
  \/ apc = "start" /\ \E l \in CmdLines : AParse(l)
  \/ ARun

-----------------------------------------------------------------------------
(* Properties.                                                             *)

Count(seq, w) == Cardinality({i \in DOMAIN seq : seq[i] = w})

RECURSIVE Occurrences(_, _)
Occurrences(result, w) ==
  MapThenSumSet(LAMBDA n : Count(result.slots[n], w), DOMAIN result.slots)
    + (IF result.sub = <<>> THEN 0 ELSE (IF result.sub[1] = w THEN 1 ELSE 0) + Occurrences(result.sub[2], w))

(* A command line that is accepted is used up word for word: every word    *)
(* that is not an option's name is the action or is in exactly one field,  *)
(* as often as it was given.  (Without help triggers: before a subcommand  *)
(* they become an extra word "help".)                                      *)
NoWordLost ==
  apc = "action" =>
    LET words == Given(ain.program, ain.words)
    IN  Range(ain.words) \cap {"-h", "--help"} = {} =>
          \A w \in Range(words) \cup {"help"} :
            w \notin Dashed \/ w \in DOMAIN MagiskCli.subs => Count(words, w) = Occurrences(aout, w)

(* Values the fields can hold, in the forms a user can express: optional   *)
(* positionals are given before the ones left out, and only the last       *)
(* positional may be given more than once.                                 *)
ValuesOf(f) ==
  LET x == IF f.kind = "option" THEN "-s" ELSE "x"
  IN  CASE f.kind = "switch" -> {<<>>} \cup {<<g>> : g \in f.flags}
        [] f.kind # "switch" /\ f.opt = "none" -> {<<x>>}
        [] f.kind # "switch" /\ f.opt \in {"optional", "defaulted"} -> {<<>>, <<x>>}
        [] f.kind # "switch" /\ f.opt = "repeating" -> {<<>>, <<x>>, <<"y", x>>}

Expressible(fields) ==
  LET p == Positionals(fields)
      all == UNION {ValuesOf(fields[i]) : i \in DOMAIN fields}
  IN  {v \in [{fields[i].name : i \in DOMAIN fields} -> all] :
         /\ \A i \in DOMAIN fields : v[fields[i].name] \in ValuesOf(fields[i])
         /\ \A i \in 1 .. Len(p) - 1 :
              /\ Len(v[p[i].name]) <= 1
              /\ p[i + 1].opt # "none" /\ v[p[i + 1].name] # <<>> => v[p[i].name] # <<>>}

(* The words for a value: options before or after the positionals.         *)
Renderings(fields, v) ==
  LET opts == FlattenSeq([i \in DOMAIN fields |->
                CASE fields[i].kind = "switch" -> v[fields[i].name]
                  [] fields[i].kind = "option" ->
                       FlattenSeq([j \in DOMAIN v[fields[i].name] |->
                                     <<CHOOSE g \in fields[i].flags : TRUE, v[fields[i].name][j]>>])
                  [] fields[i].kind = "positional" -> <<>>])
      p == Positionals(fields)
      words == FlattenSeq([i \in DOMAIN p |-> v[p[i].name]])
  IN  {opts \o words, opts \o <<"--">> \o words}
        \cup (IF \E i \in DOMAIN p : p[i].greedy THEN {} ELSE {words \o opts})

(* Every value of a struct the derive macro accepts can be given on a      *)
(* command line, and is what the generated parser then returns; in         *)
(* particular leaving out what is optional never shifts what follows.      *)
RenderedParses ==
  apc = "derived" =>
    \A v \in Expressible(ain) : \A words \in Renderings(ain, v) :
      LET r == FromArgs(Top(ain, <<>>), words) IN r.st = "ok" /\ r.slots = v

(* The parser neither loses nor invents: what the programs are given is used *)
(* up (magiskboot, cpio, magisk, magiskpolicy), and what a struct can hold   *)
(* can be given (parse_struct_args).                                         *)
ParserIsFaithful == NoWordLost /\ RenderedParses
=============================================================================
