------------------------- MODULE MCSchemaInspection -------------------------
(***************************************************************************)
(* Three of the eight tables, which have between them everything that      *)
(* inspectProfile looks at.                                                *)
(***************************************************************************)
EXTENDS SchemaInspection

Key(from) == [from |-> from, delete |-> "cascade"]

MCParentKey == Key("parent")

Table(columns, keys, unique, indexes) ==
    [columns |-> columns, keys |-> keys, unique |-> unique, indexes |-> indexes, auto |-> TRUE]

MCRequired ==
    "posts" :> Table(<<"id", "title", "preview">>, {}, {}, <<>>)
    @@ "comments" :> Table(<<"id", "post", "parent", "likes", "status">>,
                           {Key("post"), MCParentKey}, {},
                           "thread" :> <<"post", "parent">> @@ "status" :> <<"status">>)
    @@ "mutes" :> Table(<<"id", "ip", "until">>, {}, {<<"ip">>}, "until" :> <<"until">>)

MCEarlyColumns == "posts" :> <<"id", "title">> @@ "comments" :> <<"id", "post", "parent">>

MCAddedColumns == "posts" :> <<"preview">> @@ "comments" :> <<"likes", "status">>

MCMigrationTable == [Table(<<"version", "name">>, {}, {}, <<>>) EXCEPT !.auto = FALSE]
=============================================================================
