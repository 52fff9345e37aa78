------------------------------ MODULE MCArgh ------------------------------
(* Small structs for the derive macro, and command lines of the four programs. *)
EXTENDS Argh

DashedWords == {"--", "-s", "--o", "--o2", "-n", "-h", "--help", "-f", "-r", "-c", "-v", "-x", "--unpack", "--load",
                "--apply", "--live"} \cup DOMAIN DaemonRequest \cup LocalActions
Undashed == "--unpack" :> "unpack" @@ "--help" :> "help"
Compressors == "compress=xz" :> "xz" @@ "compress=foo" :> "foo"

FieldsNamed(n) ==
  {Switch(n, {"-s"}), Opt(n, {"--o"}, "none"), Opt(n, {"--o2"}, "repeating"), Opt(n, {"--help"}, "optional"),
   Pos(n, "none"), Pos(n, "optional"), Pos(n, "repeating"), Greedy(n)}
Structs == {<<f>> : f \in FieldsNamed("a")} \cup {<<f, g>> : f \in FieldsNamed("a"), g \in FieldsNamed("b")}
           \cup {<<f, g, h>> : f \in FieldsNamed("a"), g \in FieldsNamed("b"), h \in FieldsNamed("c")}

(* All short sequences of words after each program's actions.              *)
After(program, first, words) ==
  {[program |-> program, words |-> <<f>> \o w] : f \in first, w \in UNION {[1 .. n -> words] : n \in 0 .. 3}}
Invocations ==
  After("magiskboot", {"unpack", "--unpack", "repack", "verify", "sign", "extract", "hexpatch", "dtb", "split",
                       "cleanup", "compress", "compress=xz", "compress=foo", "-h", "help"},
        {"a", "print", "-n", "--"})
  \cup After("cpio", {"test", "backup", "extract", "mkdir", "add", "ls", "none"}, {"0750", "a", "-r", "--"})
  \cup After("magisk", {"-v", "--remove-modules", "--clone", "--sqlite", "--denylist", "--path"}, {"a", "-n", "--stop"})
  \cup After("magiskpolicy", {"--load", "--apply", "--live", "-h", "a"}, {"a", "b", "--load", "--apply", "--"})

=============================================================================
