------------------------------ MODULE MCPolicy ------------------------------
(* A small policy and the command lines given to magiskpolicy. *)
EXTENDS Policy

Hexes == "0x0" :> 0 @@ "0x1" :> 1 @@ "0x3" :> 3 @@ "0x5" :> 5
Ranges == "0x1-0x2" :> <<1, 2>> @@ "0x2-0x5" :> <<2, 5>>
Perms == "security" :> {"load_policy"} @@ "file" :> {"read", "relabelto"} @@ "dir" :> {"search"}
         @@ "process" :> {"sigchld", "ptrace", "dyntransition"} @@ "chr_file" :> {"write"}
Device == [types |-> {"kernel", "init", "zygote", "llkd", "adb_data_file"},
           attrs |-> {"domain", "file_type", "mlstrustedsubject"},
           member |-> ({"kernel", "init", "zygote", "llkd"} \X {"domain"}) \cup {<<"adb_data_file", "file_type">>},
           rules |-> {<<"allow", "init", "kernel", "security", "load_policy">>,
                      <<"allow", "init", "adb_data_file", "dir", "search">>},
           xperms |-> <<>>, permissive |-> {}, defaults |-> <<>>]

(* Lines of one- or two-element lists, and ones the parser refuses.        *)
W(a) == <<a>>
Lists == {<<W("init")>>, <<W("domain")>>, <<W("*")>>, <<<<"{", "init">>, <<"zygote", "}">>>>,
          <<W("{"), W("magisk"), W("none"), W("*"), W("}")>>, <<<<"{", "init", "}">>>>}
Numbers == {<<W("0x3")>>, <<W("0x0")>>, <<W("*")>>, <<W("0x2-0x5")>>, <<W("{"), W("0x1"), <<"0x5", "}">>>>,
            <<<<"~", "{">>, W("0x1-0x2"), W("}")>>, <<<<"~", "{">>, W("0x1"), W("0x3"), W("}")>>, <<<<"~", "0x3">>>>}
Lines ==
  {<<W(a)>> \o s \o t \o <<W("file")>> \o p : a \in {"allow", "deny", "dontaudit", "auditallow"}, s \in Lists,
     t \in Lists, p \in {<<W("read")>>, <<W("*")>>, <<<<"{", "read">>, W("sigchld"), W("}")>>}}
  \cup {<<W(a)>> \o s \o <<W("init"), W("chr_file"), W("ioctl")>> \o x :
          a \in {"allowxperm", "auditallowxperm", "dontauditxperm"}, s \in Lists, x \in Numbers}
  \cup {<<W(a)>> \o s : a \in {"permissive", "enforce"}, s \in Lists}
  \cup {<<W("typeattribute")>> \o s \o t : s \in Lists, t \in Lists}
  \cup {<<W("type"), W("new")>>, <<W("type"), W("new"), <<"{", "domain">>, <<"file_type", "}">>>>,
        <<W("attribute"), W("new")>>, <<W("attribute"), W("init"), W("x")>>,
        <<W("type_change"), W("init"), W("init"), W("file"), W("zygote")>>,
        <<W("type_transition"), W("init"), W("init"), W("file"), W("zygote"), W("name")>>,
        <<W("genfscon"), W("proc"), W("path"), W("context")>>, <<W("#"), W("allow")>>, <<>>,
        <<W("allow"), <<"{", "init", ",", "zygote", "}">>, W("init"), W("file"), W("read")>>, <<W("init")>>}

Plain == [sources |-> {}, print |-> FALSE, magisk |-> FALSE, apply |-> <<>>, polices |-> <<>>,
          live |-> FALSE, save |-> FALSE]
Xperms(x) == <<W("allowxperm"), W("init"), W("init"), W("file"), W("ioctl")>> \o x
CommandLines ==
  {[Plain EXCEPT !.polices = <<<<l>>>>, !.save = TRUE] : l \in Lines}
  \cup {[Plain EXCEPT !.apply = <<{<<Xperms(x), Xperms(y)>>}, {}>>, !.live = TRUE] : x, y \in Numbers}
  \cup {[Plain EXCEPT !.magisk = TRUE, !.live = TRUE, !.save = TRUE, !.polices = <<<<l>>>>]
          : l \in {<<W("deny"), W("*"), W("*"), W("*"), W("*")>>}}
  \cup {[Plain EXCEPT !.print = TRUE, !.sources = s] : s \in SUBSET {"load", "load_split"}}
  \cup {[Plain EXCEPT !.print = TRUE, !.magisk = TRUE]}

=============================================================================
