------------------------- MODULE MCModuleLifecycle -------------------------
(* One module with a script, and rules in some of the versions.             *)
EXTENDS ModuleLifecycle

MCRuled == {<<"A", "old">>, <<"A", "new">>, <<"B", "new">>}
=============================================================================
