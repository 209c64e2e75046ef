-------------------------------- MODULE Acl --------------------------------
(***************************************************************************)
(* Access control of HiMQTT: the database's tables (src/db), the admin     *)
(* handlers that write them (src/admin), and the cached copy that answers  *)
(* the broker (src/acl).                                                   *)
(*                                                                         *)
(* A handler is a list of statements it awaits one after another; any      *)
(* other handler, the refresh task and a login may run between two of      *)
(* them.  The statements stand in lines: one that fails takes the rest of  *)
(* its line with it.  A handler has one line, so the reload at its end     *)
(* goes too; the batch handler has a line per user and the reload on one   *)
(* of its own.                                                             *)
(*                                                                         *)
(* A row is identified by its key column instead of its serial id; times,  *)
(* addresses and descriptions are left out.                                *)
(***************************************************************************)
EXTENDS TopicMatch

CONSTANTS
  Users, Passwords, Categories,
  Patterns,       \* topics, filters and patterns
  InitialDb,      \* the database when the broker starts
  Handlers,       \* admin handlers that may run at the same time
  Requests,       \* the requests each of them may get
  Logins,         \* credentials a client may come with
  Enforce,        \* acl.enforce_registered_topics
  MaxRequests,    \* bound on the requests of a handler (not in the code)
  MaxFailures     \* bound on failed statements (not in the code)

(* An Option is a set of at most one element. *)
UserRow ==
  [username : Users, password_hash : Passwords, enabled : BOOLEAN, category_id : SUBSET Categories]
TopicRow == [topic : Patterns, owner_username : SUBSET Users]
RuleRow ==
  [username : Users, topic_pattern : Patterns, can_subscribe : BOOLEAN, can_publish : BOOLEAN]
Db ==
  [users : SUBSET UserRow, topics : SUBSET TopicRow, rules : SUBSET RuleRow,
   categories : SUBSET Categories, user_defaults : Seq([Users -> Patterns])]

Named(d, name)   == {r \in d.users : r.username = name}
OnTopic(d, t)    == {r \in d.topics : r.topic = t}
Rule(d, name, p) == {r \in d.rules : r.username = name /\ r.topic_pattern = p}
Exist(d, owner)  == \A name \in owner : Named(d, name) # {}

(* The database's unique keys and references. *)
Consistent(d) ==
  /\ \A r, q \in d.users : r.username = q.username => r = q
  /\ \A r, q \in d.topics : r.topic = q.topic => r = q
  /\ \A r, q \in d.rules :
       r.username = q.username /\ r.topic_pattern = q.topic_pattern => r = q
  /\ \A r \in d.rules : Exist(d, {r.username})
  /\ \A r \in d.topics : Exist(d, r.owner_username)
  /\ \A r \in d.users : r.category_id \subseteq d.categories

(* Requests that begin with a statement of their own, and all of them. *)
NewUser ==
  [op : {"create_mqtt_user"}, username : Users, password : Passwords, enabled : BOOLEAN,
   category_id : SUBSET Categories, apply_defaults : BOOLEAN]
WriteRequest ==
  NewUser
  \cup [op : {"update_mqtt_user"}, username : Users, password : SUBSET Passwords,
        enabled : BOOLEAN, category_id : SUBSET Categories]
  \cup [op : {"delete_mqtt_user"}, username : Users]
  \cup [op : {"create_topic"}, topic : Patterns, owner_username : SUBSET Users]
  \cup [op : {"update_topic"}, id : Patterns, topic : Patterns, owner_username : SUBSET Users]
  \cup [op : {"delete_topic"}, id : Patterns]
  \cup [op : {"create_acl"}, username : Users, topic_pattern : Patterns,
        can_subscribe : BOOLEAN, can_publish : BOOLEAN]
  \cup [op : {"update_acl"}, username : Users, id : Patterns, topic_pattern : Patterns,
        can_subscribe : BOOLEAN, can_publish : BOOLEAN]
  \cup [op : {"delete_acl"}, username : Users, id : Patterns]
  \cup [op : {"create_category", "delete_category"}, category : Categories]
  \cup [op : {"update_settings"}, user_defaults : Seq([Users -> Patterns])]
BatchRequest ==
  [op : {"batch_create_mqtt_users"}, rows : Seq(NewUser), apply_defaults : BOOLEAN]
Request == WriteRequest \cup BatchRequest \cup [op : {"reload_acl"}]

ASSUME AclAssumption ==
  /\ InitialDb \in Db /\ Consistent(InitialDb) /\ Enforce \in BOOLEAN
  /\ \A p \in Patterns : p \in Seq(STRING)
  /\ \A h \in Handlers : \A r \in Requests[h] : r \in Request
  /\ Logins \subseteq [name : Users, password : Passwords]
  /\ MaxRequests \in Nat /\ MaxFailures \in Nat

Refresh == "refresh"
Tasks   == Handlers \cup {Refresh}

ASSUME RefreshAssumption == Refresh \notin Handlers

VARIABLES
  log,        \* the database after each change: its last element is the database
  cache,      \* AclCache, and in `since` where the log stood when its reload began
  task,       \* what each task has still to do, and what its reload has read
  requests,   \* requests each handler has started
  failures,   \* statements failed
  login       \* a login: its credentials, the cache's age when it began, its verdict

vars == <<log, cache, task, requests, failures, login>>

db  == log[Len(log)]
Now == Len(log)


-----------------------------------------------------------------------------
(* The statements of src/db that write.  Each gives the database it leaves  *)
(* behind, or nothing if a constraint refuses it or it finds no row.        *)

create_mqtt_user(d, s) ==
  IF Named(d, s.username) # {} \/ ~(s.category_id \subseteq d.categories) THEN {}
  ELSE {[d EXCEPT !.users = @ \cup
           {[username |-> s.username, password_hash |-> s.password, enabled |-> s.enabled,
             category_id |-> s.category_id]}]}

(* Without a password the old hash stays; the category is always set. *)
update_mqtt_user(d, s) ==
  IF Named(d, s.username) = {} \/ ~(s.category_id \subseteq d.categories) THEN {}
  ELSE {[d EXCEPT !.users = (@ \ Named(d, s.username)) \cup
           {[r EXCEPT !.password_hash = IF s.password = {} THEN @ ELSE CHOOSE p \in s.password : TRUE,
                      !.enabled = s.enabled, !.category_id = s.category_id] :
              r \in Named(d, s.username)}]}

(* Slip: no ON DELETE CASCADE. *)
SlipDelete(d, s) ==
  IF Named(d, s.username) = {} THEN {}
  ELSE {[d EXCEPT !.users = @ \ Named(d, s.username)]}

(* The topics a user owns and its rules go with it. *)
delete_mqtt_user(d, s) ==
  IF Named(d, s.username) = {} THEN {}
  ELSE {[d EXCEPT !.users = @ \ Named(d, s.username),
                  !.topics = {r \in @ : s.username \notin r.owner_username},
                  !.rules = {r \in @ : r.username # s.username}]}

create_mqtt_topic(d, s) ==
  IF OnTopic(d, s.topic) # {} \/ ~Exist(d, s.owner_username) THEN {}
  ELSE {[d EXCEPT !.topics = @ \cup {[topic |-> s.topic, owner_username |-> s.owner_username]}]}

update_mqtt_topic(d, s) ==
  IF \/ OnTopic(d, s.id) = {} \/ ~Exist(d, s.owner_username)
     \/ s.topic # s.id /\ OnTopic(d, s.topic) # {}
  THEN {}
  ELSE {[d EXCEPT !.topics = (@ \ OnTopic(d, s.id)) \cup
           {[topic |-> s.topic, owner_username |-> s.owner_username]}]}

delete_mqtt_topic(d, s) ==
  IF OnTopic(d, s.id) = {} THEN {} ELSE {[d EXCEPT !.topics = @ \ OnTopic(d, s.id)]}

create_topic_acl(d, s) ==
  IF Rule(d, s.username, s.topic_pattern) # {} \/ Named(d, s.username) = {} THEN {}
  ELSE {[d EXCEPT !.rules = @ \cup
           {[username |-> s.username, topic_pattern |-> s.topic_pattern,
             can_subscribe |-> s.can_subscribe, can_publish |-> s.can_publish]}]}

update_topic_acl(d, s) ==
  IF \/ Rule(d, s.username, s.id) = {}
     \/ s.topic_pattern # s.id /\ Rule(d, s.username, s.topic_pattern) # {}
  THEN {}
  ELSE {[d EXCEPT !.rules = (@ \ Rule(d, s.username, s.id)) \cup
           {[username |-> s.username, topic_pattern |-> s.topic_pattern,
             can_subscribe |-> s.can_subscribe, can_publish |-> s.can_publish]}]}

delete_topic_acl(d, s) ==
  IF Rule(d, s.username, s.id) = {} THEN {}
  ELSE {[d EXCEPT !.rules = @ \ Rule(d, s.username, s.id)]}

create_category(d, s) ==
  IF s.category \in d.categories THEN {} ELSE {[d EXCEPT !.categories = @ \cup {s.category}]}

(* ON DELETE SET NULL *)
delete_category(d, s) ==
  IF s.category \notin d.categories THEN {}
  ELSE {[d EXCEPT !.categories = @ \ {s.category},
                  !.users = {[r EXCEPT !.category_id = @ \ {s.category}] : r \in @}]}

set_user_defaults(d, s) == {[d EXCEPT !.user_defaults = s.user_defaults]}

(* apply_user_defaults, for one template: its topic, which keeps the owner  *)
(* it has, and its rule.  The two lists of templates are one list here.     *)
apply_default_topic(d, s) ==
  IF Named(d, s.username) = {} THEN {}
  ELSE {[d EXCEPT !.topics =
           IF \E r \in OnTopic(d, s.pattern) : r.owner_username # {} THEN @
           ELSE (@ \ OnTopic(d, s.pattern))
                \cup {[topic |-> s.pattern, owner_username |-> {s.username}]}]}

apply_default_acl(d, s) ==
  IF Named(d, s.username) = {} THEN {}
  ELSE {[d EXCEPT !.rules = (@ \ Rule(d, s.username, s.pattern)) \cup
           {[username |-> s.username, topic_pattern |-> s.pattern,
             can_subscribe |-> TRUE, can_publish |-> TRUE]}]}

Write(d, s) ==
  CASE s.op = "create_mqtt_user"   -> create_mqtt_user(d, s)
    [] s.op = "update_mqtt_user"   -> update_mqtt_user(d, s)
    [] s.op = "delete_mqtt_user"   -> delete_mqtt_user(d, s)
    [] s.op = "create_topic"       -> create_mqtt_topic(d, s)
    [] s.op = "update_topic"       -> update_mqtt_topic(d, s)
    [] s.op = "delete_topic"       -> delete_mqtt_topic(d, s)
    [] s.op = "create_acl"         -> create_topic_acl(d, s)
    [] s.op = "update_acl"         -> update_topic_acl(d, s)
    [] s.op = "delete_acl"         -> delete_topic_acl(d, s)
    [] s.op = "create_category"    -> create_category(d, s)
    [] s.op = "delete_category"    -> delete_category(d, s)
    [] s.op = "update_settings"    -> set_user_defaults(d, s)
    [] s.op = "default_topic"      -> apply_default_topic(d, s)
    [] s.op = "default_acl"        -> apply_default_acl(d, s)

-----------------------------------------------------------------------------
(* What a handler will do, as lines of statements. *)

Reload ==
  <<[op |-> "list_mqtt_users"], [op |-> "list_mqtt_topics"], [op |-> "list_topic_acls"],
    [op |-> "install"]>>

(* The topics of the templates for a new user, then their rules. *)
Defaults(d, name) ==
  [i \in 1 .. 2 * Len(d.user_defaults) |->
     IF i <= Len(d.user_defaults)
     THEN [op |-> "default_topic", username |-> name, pattern |-> d.user_defaults[i][name]]
     ELSE [op |-> "default_acl", username |-> name,
           pattern |-> d.user_defaults[i - Len(d.user_defaults)][name]]]

(* A batch creates its users one by one, each on a line with its defaults. *)
BatchLines(d, r) ==
  [i \in DOMAIN r.rows |-> <<r.rows[i]>> \o (IF r.apply_defaults THEN Defaults(d, r.rows[i].username)
                                            ELSE <<>>)]
  \o <<Reload>>

Lines(r) ==
  CASE r.op = "create_mqtt_user" ->
         <<<<r>> \o IF r.apply_defaults THEN <<[r EXCEPT !.op = "get_user_defaults"]>> ELSE Reload>>
    [] r.op = "batch_create_mqtt_users" ->
         IF r.apply_defaults THEN <<<<[r EXCEPT !.op = "get_batch_defaults"]>>>>
         ELSE BatchLines(InitialDb, r)
    [] r.op \in {"create_category", "delete_category", "update_settings"} -> <<<<r>>>>
    [] r.op = "reload_acl" -> <<Reload>>
    [] OTHER -> <<<<r>> \o Reload>>

-----------------------------------------------------------------------------
(* The tasks. *)

Nothing == [lines |-> <<>>, users |-> {}, topics |-> {}, rules |-> {}, since |-> 0]

Init ==
  /\ log = <<InitialDb>>
  /\ cache = [users |-> InitialDb.users, topics |-> InitialDb.topics, rules |-> InitialDb.rules,
              since |-> 1]
  /\ task = [t \in Tasks |-> Nothing]
  /\ requests = [h \in Handlers |-> 0] /\ failures = 0
  /\ login = [verdict |-> "none"]

Idle(t) == task[t].lines = <<>>

Start(h, r) ==
  /\ Idle(h) /\ requests[h] < MaxRequests
  /\ requests' = [requests EXCEPT ![h] = @ + 1]
  /\ task' = [task EXCEPT ![h].lines = Lines(r)]
  /\ UNCHANGED <<log, cache, failures, login>>

(* The refresh task wakes up; the database need not have changed. *)
Wake ==
  /\ Idle(Refresh)
  /\ task' = [task EXCEPT ![Refresh].lines = <<Reload>>]
  /\ UNCHANGED <<log, cache, requests, failures, login>>

Statement(t) == Head(Head(task[t].lines))

(* The lines left when the rest of this one is `line`, or is dropped. *)
Go(t, line) ==
  IF line = <<>> THEN Tail(task[t].lines) ELSE <<line>> \o Tail(task[t].lines)
Rest(t) == Go(t, Tail(Head(task[t].lines)))
Drop(t) == Tail(task[t].lines)

Doing(t, op) == ~Idle(t) /\ Statement(t).op = op

Reads == {"list_mqtt_users", "list_mqtt_topics", "list_topic_acls", "install",
          "get_user_defaults", "get_batch_defaults"}

WriteStep(t) ==
  /\ ~Idle(t) /\ Statement(t).op \notin Reads
  /\ \/ \E d \in Write(db, Statement(t)) :
          /\ log' = IF d = db THEN log ELSE Append(log, d)
          /\ task' = [task EXCEPT ![t].lines = Rest(t)]
     \/ /\ Write(db, Statement(t)) = {}
        /\ task' = [task EXCEPT ![t].lines = Drop(t)]
        /\ UNCHANGED log
  /\ UNCHANGED <<cache, requests, failures, login>>

get_user_defaults(t) ==
  /\ \/ /\ Doing(t, "get_user_defaults")
        /\ task' = [task EXCEPT ![t].lines =
                      Go(t, Defaults(db, Statement(t).username) \o Reload)]
     \/ /\ Doing(t, "get_batch_defaults")
        /\ task' = [task EXCEPT ![t].lines = BatchLines(db, Statement(t))]
  /\ UNCHANGED <<log, cache, requests, failures, login>>

(* The three reads of a reload. *)
ReadUsers(t) ==
  /\ Doing(t, "list_mqtt_users")
  /\ task' = [task EXCEPT ![t] = [@ EXCEPT !.lines = Rest(t), !.users = db.users, !.since = Now]]
  /\ UNCHANGED <<log, cache, requests, failures, login>>

ReadTopics(t) ==
  /\ Doing(t, "list_mqtt_topics")
  /\ task' = [task EXCEPT ![t] = [@ EXCEPT !.lines = Rest(t), !.topics = db.topics]]
  /\ UNCHANGED <<log, cache, requests, failures, login>>

ReadRules(t) ==
  /\ Doing(t, "list_topic_acls")
  /\ task' = [task EXCEPT ![t] = [@ EXCEPT !.lines = Rest(t), !.rules = db.rules]]
  /\ UNCHANGED <<log, cache, requests, failures, login>>

(* Slip: rules are added to those in the cache. *)
SlipInstall(t) ==
  /\ Doing(t, "install")
  /\ cache' = [users |-> task[t].users, topics |-> task[t].topics,
               rules |-> cache.rules \cup task[t].rules, since |-> task[t].since]
  /\ task' = [task EXCEPT ![t] = [Nothing EXCEPT !.lines = Rest(t)]]
  /\ UNCHANGED <<log, requests, failures, login>>

(* The new maps replace the old ones under one write lock. *)
Install(t) ==
  /\ Doing(t, "install")
  /\ cache' = [users |-> task[t].users, topics |-> task[t].topics, rules |-> task[t].rules,
               since |-> task[t].since]
  /\ task' = [task EXCEPT ![t] = [Nothing EXCEPT !.lines = Rest(t)]]
  /\ UNCHANGED <<log, requests, failures, login>>

(* The database does not answer. *)
Fail(t) ==
  /\ ~Idle(t) /\ ~Doing(t, "install") /\ failures < MaxFailures
  /\ failures' = failures + 1
  /\ task' = [task EXCEPT ![t] = [Nothing EXCEPT !.lines = Drop(t)]]
  /\ UNCHANGED <<log, cache, requests, login>>

-----------------------------------------------------------------------------
(* verify_mqtt_password: the cache answers for a user it holds enabled, the *)
(* database for any other.                                                  *)

Admits(users, name, password) ==
  \E r \in users : r.username = name /\ r.enabled /\ r.password_hash = password

(* Slip: whoever is in the cache is asked for the password alone. *)
SlipCached(users, name) == {r \in users : r.username = name}
Cached(users, name)     == {r \in users : r.username = name /\ r.enabled}

Answer(yes) == IF yes THEN "yes" ELSE "no"

Login(name, password) ==
  /\ login.verdict = "none"
  /\ login' = [name |-> name, password |-> password, since |-> cache.since,
               verdict |-> IF Cached(cache.users, name) = {} THEN "asking"
                           ELSE Answer(\E r \in Cached(cache.users, name) :
                                         r.password_hash = password)]
  /\ UNCHANGED <<log, cache, task, requests, failures>>

(* get_mqtt_user; when the database fails the login is refused. *)
Ask ==
  /\ login.verdict = "asking"
  /\ \/ /\ login' = [login EXCEPT !.verdict = Answer(Admits(db.users, login.name, login.password))]
        /\ UNCHANGED failures
     \/ /\ failures < MaxFailures
        /\ failures' = failures + 1
        /\ login' = [login EXCEPT !.verdict = "failed"]
  /\ UNCHANGED <<log, cache, task, requests>>

(* A task goes on, with or without success. *)
Step(t) ==
  \/ WriteStep(t) \/ get_user_defaults(t)
  \/ ReadUsers(t) \/ ReadTopics(t) \/ ReadRules(t) \/ Install(t) \/ Fail(t)

Next ==
  \/ \E h \in Handlers : \E r \in Requests[h] : Start(h, r)
  \/ Wake
  \/ \E t \in Tasks : Step(t)
  \/ \E l \in Logins : Login(l.name, l.password)
  \/ Ask

Spec == Init /\ [][Next]_vars

FairSpec == Spec /\ WF_vars(Wake) /\ \A t \in Tasks : WF_vars(Step(t))

-----------------------------------------------------------------------------
(* check_acl, over given topics and rules. *)

Registered(topics, target, op) ==
  \/ ~Enforce
  \/ \E r \in topics :
       \/ registered_covers(r.topic, target)
       \/ op = "subscribe" /\ subscribe_allowed(r.topic, target)

check_acl(topics, rules, name, target, op) ==
  /\ Registered(topics, target, op)
  /\ \E r \in rules :
       /\ r.username = name
       /\ \/ op = "subscribe" /\ r.can_subscribe /\ subscribe_allowed(r.topic_pattern, target)
          \/ op = "publish" /\ r.can_publish /\ publish_allowed(r.topic_pattern, target)

(* Type correctness, with the database's keys and references: names and     *)
(* topics are unique, a rule and a topic's owner have their user.           *)
TypeOK == db \in Db /\ Consistent(db)

(***************************************************************************)
(* A login is answered as some database would have answered it, one that    *)
(* was current after the cache's reload began: the mix of cache and         *)
(* database in verify_mqtt_password (src/acl/mod.rs:94-109) neither admits  *)
(* nor refuses anybody on its own.                                          *)
(***************************************************************************)
LoginHonest ==
  [][login'.verdict \in {"yes", "no"} =>
       \E i \in login'.since .. Now :
         login'.verdict = Answer(Admits(log[i].users, login'.name, login'.password))]_login

May(r, op) == IF op = "subscribe" THEN r.can_subscribe ELSE r.can_publish

Matched == [filter \in Patterns |-> {topic \in Patterns : matches(topic, filter)}]

(* The topics a subscription or a publication reaches. *)
Reached(target, op) == IF op = "subscribe" THEN Matched[target] ELSE {target}

(***************************************************************************)
(* What the cache grants (src/acl/mod.rs:115-152, matcher.rs:4-35) is       *)
(* covered by the user's rules and by the registered topics of databases    *)
(* that were current after the cache's reload began: a subscription brings  *)
(* no topic, a publication reaches none, that no such rule matches.         *)
(***************************************************************************)
GrantsCover ==
  \A name \in Users, target \in Patterns, op \in {"subscribe", "publish"} :
    check_acl(cache.topics, cache.rules, name, target, op) =>
      /\ \E i \in cache.since .. Now :
           Reached(target, op) \subseteq
             UNION {Matched[r.topic_pattern] :
                      r \in {q \in log[i].rules : q.username = name /\ May(q, op)}}
      /\ Enforce => \E i \in cache.since .. Now : \E r \in log[i].topics :
                      r.topic = target \/ Reached(target, op) \subseteq Matched[r.topic]

(***************************************************************************)
(* Reloads overlap and an old one may overwrite a newer one                 *)
(* (src/acl/mod.rs:62-92), handlers end before their reload when a step     *)
(* fails (src/admin/mod.rs:264-291); once the database stops changing the   *)
(* refresh task makes the cache a copy of it, and so it stays.              *)
(***************************************************************************)
CatchesUp ==
  <>[](/\ cache.users = db.users /\ cache.topics = db.topics /\ cache.rules = db.rules)
=============================================================================
