----------------------------- MODULE MCSettings -----------------------------
(* Instances of Settings for TLC.                                          *)
EXTENDS Settings

MCLegacies == {<<"old">>, <<"old", "old">>, <<>>}

MCCommands ==
  {<<"ensure">>, <<"init_local", TRUE>>, <<"init_local", FALSE>>, <<"init_global", FALSE>>,
   <<"set", "server", Typed("int", -1)>>, <<"set", "server", Typed("float", 70)>>,
   <<"set", "conf", Typed("float", 90)>>, <<"set", "conf", Typed("float", 170)>>, <<"set", "conf", Typed("int", 5)>>,
   <<"unset", "conf">>, <<"unset", "server">>,
   <<"recommend", "noise">>, <<"recommend", "old">>}
=============================================================================
