--------------------------- MODULE MCServerRegistry ---------------------------
(***************************************************************************)
(* ServerRegistry over two keys, one of them with two spellings, and one   *)
(* option of each kind: table_name stands for those that `valid' and the   *)
(* comparison name, metrics_table_name is the one they leave out.          *)
(***************************************************************************)
EXTENDS ServerRegistry, TLC

MCKey == {"k1", "k2"}
MCUri == {"cloudwatch:a", "cloudwatch://a", "cloudwatch:b"}
MCCanonical == [u \in MCUri |-> IF u = "cloudwatch:b" THEN "k2" ELSE "k1"]
MCOption == {"table_name", "metrics_table_name"}
MCUncompared == {"metrics_table_name"}
MCGiven ==
  {NoOptions, "table_name" :> Other, "table_name" :> Null,
   "metrics_table_name" :> Other, Unknown :> Other}

=============================================================================
