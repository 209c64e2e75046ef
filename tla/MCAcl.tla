------------------------------- MODULE MCAcl -------------------------------
(***************************************************************************)
(* A small database for model checking Acl: two users, one of them there   *)
(* from the start, and requests that touch the same rows.                  *)
(***************************************************************************)
EXTENDS Acl

MCPatterns ==
  {<<"a">>, <<"a", "b">>, <<"a", "#">>, <<"a", "+">>, <<"+", "#">>, <<"#">>, <<"a", "b", "#">>,
   <<"$", "b">>}

Own == [u \in Users |-> IF u = "u" THEN <<"a", "#">> ELSE <<"a", "+">>]

MCInitialDb ==
  [users |-> {[username |-> "u", password_hash |-> "p", enabled |-> FALSE, category_id |-> {"c"}]},
   topics |-> {[topic |-> <<"a", "#">>, owner_username |-> {"u"}]},
   rules |-> {[username |-> "u", topic_pattern |-> <<"a", "b", "#">>, can_subscribe |-> TRUE,
               can_publish |-> FALSE]},
   categories |-> {"c"}, user_defaults |-> <<Own>>]

Create(name) ==
  [op |-> "create_mqtt_user", username |-> name, password |-> "p", enabled |-> TRUE,
   category_id |-> {}, apply_defaults |-> TRUE]

AllRequests ==
  {Create("v"), [Create("u") EXCEPT !.apply_defaults = FALSE],
   [op |-> "batch_create_mqtt_users", rows |-> <<Create("u"), Create("v")>>, apply_defaults |-> TRUE],
   [op |-> "batch_create_mqtt_users", rows |-> <<Create("v")>>, apply_defaults |-> FALSE],
   [op |-> "update_mqtt_user", username |-> "u", password |-> {"q"}, enabled |-> TRUE,
    category_id |-> {}],
   [op |-> "update_mqtt_user", username |-> "u", password |-> {}, enabled |-> TRUE,
    category_id |-> {"c"}],
   [op |-> "delete_mqtt_user", username |-> "u"],
   [op |-> "create_topic", topic |-> <<"a", "b">>, owner_username |-> {"v"}],
   [op |-> "update_topic", id |-> <<"a", "#">>, topic |-> <<"#">>, owner_username |-> {}],
   [op |-> "delete_topic", id |-> <<"a", "#">>],
   [op |-> "create_acl", username |-> "u", topic_pattern |-> <<"+", "#">>, can_subscribe |-> TRUE,
    can_publish |-> TRUE],
   [op |-> "update_acl", username |-> "u", id |-> <<"a", "b", "#">>, topic_pattern |-> <<"a", "#">>,
    can_subscribe |-> FALSE, can_publish |-> TRUE],
   [op |-> "delete_acl", username |-> "u", id |-> <<"a", "b", "#">>],
   [op |-> "create_category", category |-> "c"], [op |-> "delete_category", category |-> "c"],
   [op |-> "update_settings", user_defaults |-> <<>>], [op |-> "reload_acl"]}

(* One handler gets any request, the other one a request to delete the user *)
(* the first may be creating.                                               *)
MCRequests ==
  [h |-> AllRequests, i |-> {[op |-> "delete_mqtt_user", username |-> "v"]}]

MCLogins == {[name |-> "u", password |-> "p"]}
=============================================================================
