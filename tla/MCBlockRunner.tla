---------------------------- MODULE MCBlockRunner ----------------------------
(***************************************************************************)
(* Blocks for BlockRunner: direct additions, a committed and an abandoned  *)
(* checkpoint, and two commits of one base.                                *)
(***************************************************************************)
EXTENDS BlockRunner

MCKeys == {"a", "b"}

Direct == <<<<"add", "a">>, <<"add", "b">>, <<"add", "a">>, <<"flush">>>>

Nested == <<<<"atomic", "a">>, <<"checkpoint">>, <<"atomic", "a">>, <<"commit">>,
            <<"checkpoint">>, <<"atomic", "b">>, <<"rollback">>, <<"commit">>, <<"flush">>>>

Twice == <<<<"atomic", "b">>, <<"commit">>, <<"add", "a">>, <<"atomic", "b">>,
           <<"commit">>, <<"flush">>>>

MCPrograms == {Direct, Nested, Twice}
=============================================================================
