----------------------------- MODULE ZygiskState -----------------------------
(***************************************************************************)
(* struct ZygiskState (native/src/core/zygisk/daemon.rs) and the system    *)
(* property NBPROP it owns, as functions on                                *)
(*   z = [lib_name, sockets, start_count, nbprop].                         *)
(* The callers hold the daemon's zygisk mutex.  A socket is named by the   *)
(* companion process at its other end.                                     *)
(*                                                                         *)
(* A string is a sequence of opaque parts, so the code's concatenation,    *)
(* length test and suffix slice keep their meaning: ZYGISKLDR is one part, *)
(* "0" is <<"0">>, and the name of a real native bridge is one part.       *)
(***************************************************************************)
EXTENDS Integers, Sequences

ZYGISKLDR == "libzygisk.so"

(* Strings NBPROP can hold on a device whose native bridge is b.             *)
BridgeNames(b) == {<<>>, <<"0">>, <<b>>, <<ZYGISKLDR>>, <<ZYGISKLDR, b>>}

(* "" and "0" both mean: no native bridge.                                   *)
NoBridge(s) == s \in {<<>>, <<"0">>}

Abis == {"32", "64"}
NoSocket == 0
NoSockets == [a \in Abis |-> NoSocket]

(* A new daemon's state next to the property as it finds it.                 *)
NewZygisk(prop) ==
    [lib_name |-> <<>>, sockets |-> NoSockets, start_count |-> 1, nbprop |-> prop]

(* Mutant of SetProp: no early return when the loader is already injected.   *)
SetProp_Again(z) ==
    LET lib == IF NoBridge(z.nbprop) THEN <<ZYGISKLDR>> ELSE <<ZYGISKLDR>> \o z.nbprop
    IN  [z EXCEPT !.lib_name = lib, !.nbprop = lib]

(* set_prop: prefix the loader to the property, once.                        *)
SetProp(z) ==
    LET lib == IF NoBridge(z.nbprop) THEN <<ZYGISKLDR>> ELSE <<ZYGISKLDR>> \o z.nbprop
    IN  IF z.lib_name # <<>> THEN z ELSE [z EXCEPT !.lib_name = lib, !.nbprop = lib]

(* restore_prop: the part behind the loader, or "0" when there is none.      *)
RestoreProp(z) ==
    [z EXCEPT !.nbprop   = IF Len(z.lib_name) > 1 THEN Tail(z.lib_name) ELSE <<"0">>,
              !.lib_name = <<>>]

(* Mutant of Reset: the crash counter is not compared.                       *)
Reset_NoRollback(z, restore) ==
    IF restore THEN RestoreProp([z EXCEPT !.start_count = 1])
    ELSE SetProp([z EXCEPT !.start_count = @ + 1, !.sockets = NoSockets])

(* reset(restore): boot-complete restores; a zygote restart injects again,   *)
(* unless zygote was started more than three times without a boot-complete.  *)
Reset(z, restore) ==
    IF restore THEN RestoreProp([z EXCEPT !.start_count = 1])
    ELSE LET n == z.start_count + 1
             y == [z EXCEPT !.start_count = n, !.sockets = NoSockets]
         IN  IF n > 3 THEN RestoreProp(y) ELSE SetProp(y)

Injected(z) == z.nbprop # <<>> /\ z.nbprop[1] = ZYGISKLDR
=============================================================================
