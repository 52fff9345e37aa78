------------------------------ MODULE MCMounts -----------------------------
(* Partitions of several kinds in several orders; targets inside each other. *)
EXTENDS Mounts

Part(name, n, fs) ==
  [target |-> <<name>>, root |-> "/", source |-> "by-name", dev |-> n, fs |-> fs, rw |-> TRUE, mapper |-> FALSE,
   part |-> name, parses |-> TRUE]
SystemPart == [Part("system", 9, "ext4") EXCEPT !.rw = FALSE]
Odd == [Part("odd", 8, "tmpfs") EXCEPT !.parses = FALSE]
Worker == [target |-> <<"worker">>] @@ Magisk0
MountTabs == UNION {{<<Worker, SystemPart>> \o s, s \o <<Odd, SystemPart>>} :
            s \in UNION {SetToSeqs(S) : S \in SUBSET {Part("data", 1, "f2fs"), Part("cache", 2, "ext4"),
                                                      Part("metadata", 3, "f2fs"), Part("persist", 4, "ext4")}}}
SortedTargets == << <<"cache">>, <<"data">>, <<"metadata">>, <<"modules">>, <<"odd">>, <<"persist">>, <<"system">>,
             <<"system", "bin">>, <<"system", "bin", "su">>, <<"system", "etc">>, <<"worker">> >>
InSystem == {t \in {SortedTargets[i] : i \in 1 .. Len(SortedTargets)} : t[1] = "system" /\ Len(t) > 1}
MSpec == MountInit /\ [][MountNext]_mountVars
=============================================================================
