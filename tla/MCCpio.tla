------------------------------ MODULE MCCpio ------------------------------
(* A device's ramdisk and the command scripts run on it. *)
EXTENDS Cpio

Lengths == ".backup" :> 7 @@ ".magisk" :> 7 @@ ".rmlist" :> 7 @@ ".xz" :> 3 @@ "init" :> 4
           @@ "fstab.qcom" :> 10 @@ "verity_key" :> 10 @@ "sub" :> 3 @@ "f" :> 1
           @@ "TRAILER!!!" :> 10 @@ "." :> 1
Ranks == "." :> 0 @@ ".backup" :> 1 @@ ".magisk" :> 2 @@ ".rmlist" :> 3 @@ ".xz" :> 4 @@ "f" :> 5
         @@ "fstab.qcom" :> 6 @@ "init" :> 7 @@ "sub" :> 8 @@ "verity_key" :> 9

Fstab == <<"dev", " ", "wait", ",", "verify", "=", "key", " ", "avb", ",", "forceencrypt">>

StockArchive ==
  <<"init">> :> Entry("reg", "0750", <<"stock", 5>>)
  @@ <<"fstab.qcom">> :> Entry("reg", "0640", <<"fstab", Len(Fstab), Fstab>>)
  @@ <<"verity_key">> :> Entry("reg", "0640", <<"key", 3>>)
  @@ <<"sub">> :> Entry("dir", "0700", NoData)
  @@ <<"sub", "f">> :> Entry("lnk", "0777", <<"path", 4, <<"init">>>>)

(* A boot image may hold one archive after another.                        *)
TwoArchives ==
  Dump(Dump(EmptyImage, <<".">> :> Entry("dir", "0755", NoData)
                        @@ <<"init">> :> Entry("reg", "0750", <<"vendor", 2>>)), StockArchive)

StockImages == {MissingImage, TwoArchives}

NewInit == [op |-> "add", mode |-> "0750", path |-> <<"init">>, in |-> [type |-> "reg", data |-> <<"magiskinit", 6>>]]
Config == [op |-> "add", mode |-> "000", path |-> MAGISK, in |-> [type |-> "lnk", data |-> <<"config", 1>>]]
MakeBackupDir == [op |-> "mkdir", mode |-> "000", path |-> BACKUP]
DoPatch(v, e) == [op |-> "patch", keepverity |-> v, keepencrypt |-> e]
DoBackup(skip) == [op |-> "backup", skip |-> skip]
DoRestore == [op |-> "restore"]
DoExtract(p, o) == [op |-> "extract", path |-> p, out |-> o]
Look == [op |-> "look"]

Scripts ==
  {<<NewInit, [op |-> "mkdir", mode |-> "0750", path |-> <<"", "sub">>], DoPatch(v, ~v), DoBackup(v),
     MakeBackupDir, Config>> : v \in BOOLEAN}
  \cup {<<NewInit, DoPatch(FALSE, FALSE), MakeBackupDir, Config>>,
        <<DoExtract(MAGISK, <<"config.orig">>), DoRestore>>, <<DoRestore>>, <<Look>>,
        <<[op |-> "rm", path |-> <<"sub">>, recursive |-> TRUE], DoBackup(FALSE)>>,
        <<[op |-> "rm", path |-> <<"sub">>, recursive |-> FALSE], DoBackup(TRUE)>>,
        <<[op |-> "mv", path |-> <<"", "init">>, to |-> <<"sub", "", "f">>], Look>>,
        <<[op |-> "mv", path |-> <<"sub", "f">>, to |-> <<"f">>], DoBackup(FALSE), DoExtract(<<>>, <<>>)>>,
        <<[op |-> "ln", src |-> <<"", "sub", "f">>, path |-> <<"f">>], DoExtract(<<>>, <<>>)>>,
        <<[NewInit EXCEPT !.in.type = "dir"]>>, <<[NewInit EXCEPT !.path = <<"f", "">>]>>}

=============================================================================
