--------------------------- MODULE MCResetProp ---------------------------
(* A writer beside a reader or waiter, on names of both kinds. *)
EXTENDS ResetProp

PersistLine == [NoFlags EXCEPT !.persist = TRUE]

WriterLines ==
  OwnCalls("persist.b", "z", <<<<"prop", "persist.b", "x">>>>)
  \cup {[PersistLine EXCEPT !.args = <<"persist.b", "z">>, !.skip = n] : n \in BOOLEAN}
  \cup {[PersistLine EXCEPT !.delete = {k}] : k \in {"persist.a", "persist.b"}}
  \cup {[PersistLine EXCEPT !.skip = TRUE, !.file = {f}] : f \in
          {<<<<"prop", "ro.c", "long">>, <<"comment">>, <<"prop", "ro.c", "x">>>>,
           <<<<"bare">>, <<"prop", "persist.b", "long">>, <<"prop", "persist.0", "z">>>>}}
OtherLines ==
  {[NoFlags EXCEPT !.wait = TRUE, !.args = a] : a \in {<<>>, <<"persist.b">>, <<"persist.b", "x">>, <<"ro.c", "long">>}}
  \cup {[NoFlags EXCEPT !.wait = TRUE, !.args = <<"ro.c">>, !.delete = {"ro.c"}]}
  \cup {[l EXCEPT !.args = a, !.persist_only = o] :
          l \in {NoFlags, PersistLine}, a \in {<<>>, <<"persist.b">>}, o \in BOOLEAN}
  \cup {[NoFlags EXCEPT !.context = TRUE, !.args = <<"ro.c">>], [NoFlags EXCEPT !.args = <<"ro.c", "x", "y">>]}

PropNames == <<"persist.0", "persist.a", "persist.b", "ro.c">>
PropProcs == "writer" :> WriterLines @@ "other" :> OtherLines
OtherSets == {<<"persist.b", "x">>, <<"persist.b", "y">>}
BootProto == {{}, {<<[name |-> "persist.b", value |-> {"x"}], [name |-> "persist.a", value |-> {"x"}],
                     [name |-> "persist.0", value |-> {}]>>}}
BootFiles == "persist.a" :> "x"

RSpec == ResetInit /\ [][ResetNext]_resetVars /\ ResetFairness
=============================================================================
