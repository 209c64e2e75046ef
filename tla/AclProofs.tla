----------------------------- MODULE AclProofs -----------------------------
(***************************************************************************)
(* Theorems about Acl for any database, users, patterns, number of         *)
(* handlers and requests.                                                  *)
(***************************************************************************)
EXTENDS Acl, TopicMatchProofs

(* What a line is made of. *)
Default     == [op : {"default_topic", "default_acl"}, username : Users, pattern : Patterns]
GetDefaults ==
  [op : {"get_user_defaults"}, username : Users, password : Passwords, enabled : BOOLEAN,
   category_id : SUBSET Categories, apply_defaults : BOOLEAN]
GetBatch    == [op : {"get_batch_defaults"}, rows : Seq(NewUser), apply_defaults : BOOLEAN]
ReloadStep  == [op : {"list_mqtt_users", "list_mqtt_topics", "list_topic_acls", "install"}]
Statements  == WriteRequest \cup Default \cup GetDefaults \cup GetBatch \cup ReloadStep

Good(d) == d \in Db /\ Consistent(d)

-----------------------------------------------------------------------------
(* The statements that write keep the database's types, keys and references. *)

(* A new user has a name of its own and a category that exists. *)
LEMMA CreateUserKeeps ==
  ASSUME NEW d, Good(d), NEW s \in NewUser, NEW e \in create_mqtt_user(d, s)
  PROVE  Good(e)
<1> DEFINE row == [username |-> s.username, password_hash |-> s.password, enabled |-> s.enabled,
                   category_id |-> s.category_id]
<1>1. /\ Named(d, s.username) = {} /\ s.category_id \subseteq d.categories
      /\ e = [d EXCEPT !.users = @ \cup {row}]
  BY DEF create_mqtt_user
<1>2. row \in UserRow /\ row.username = s.username /\ row.category_id = s.category_id
  BY DEF NewUser, UserRow
<1> HIDE DEF row
<1>3. /\ e \in Db /\ e.users = d.users \cup {row} /\ e.topics = d.topics /\ e.rules = d.rules
      /\ e.categories = d.categories
  BY <1>1, <1>2 DEF Good, Db
<1>4. \A r \in d.users : r.username # row.username
  BY <1>1, <1>2 DEF Named
<1>5. \A owner : Exist(d, owner) => Exist(e, owner)
  BY <1>3 DEF Exist, Named
<1> QED BY <1>1, <1>2, <1>3, <1>4, <1>5 DEF Good, Consistent

(* The row changed keeps its name. *)
LEMMA UpdateUserKeeps ==
  ASSUME NEW d, Good(d), NEW e,
         NEW s \in [op : {"update_mqtt_user"}, username : Users, password : SUBSET Passwords,
                    enabled : BOOLEAN, category_id : SUBSET Categories],
         e \in update_mqtt_user(d, s)
  PROVE  Good(e)
<1> DEFINE New(r) ==
             [r EXCEPT !.password_hash = IF s.password = {} THEN @ ELSE CHOOSE p \in s.password : TRUE,
                       !.enabled = s.enabled, !.category_id = s.category_id]
           N == Named(d, s.username)
<1>1. /\ N # {} /\ s.category_id \subseteq d.categories
      /\ e = [d EXCEPT !.users = (@ \ N) \cup {New(r) : r \in N}]
  BY DEF update_mqtt_user
<1>2. N \subseteq UserRow /\ \A r \in N : r.username = s.username
  BY DEF Named, Good, Db
<1>3. s.password # {} => (CHOOSE p \in s.password : TRUE) \in Passwords
  BY DEF UserRow
<1>4. ASSUME NEW r \in N
      PROVE  New(r) \in UserRow /\ New(r).username = s.username
             /\ New(r).category_id = s.category_id
  <2>1. r \in UserRow /\ r.username = s.username
    BY <1>2
  <2> QED BY <1>3, <2>1 DEF UserRow
<1> DEFINE U == (d.users \ N) \cup {New(r) : r \in N}
<1>5. e = [d EXCEPT !.users = U]
  BY <1>1
<1>6. U \subseteq UserRow
  <2> HIDE DEF New
  <2> QED BY <1>4 DEF Good, Db
<1>7. \A r, q \in N : r = q
  BY <1>2 DEF Good, Consistent, Named
<1>8. \A r \in U : \/ r \in d.users /\ r.username # s.username
                   \/ \E q \in N : r = New(q)
  BY DEF Named
<1>9. \A r, q \in U : r.username = q.username => r = q
  <2> HIDE DEF New, U
  <2> QED BY <1>4, <1>7, <1>8 DEF Good, Consistent
<1>10. \A r \in U : r.category_id \subseteq d.categories
  <2> HIDE DEF New, U
  <2> QED BY <1>1, <1>4, <1>8 DEF Good, Consistent
<1>11. \A name : Named(d, name) # {} => \E r \in U : r.username = name
  <2> SUFFICES ASSUME NEW name, Named(d, name) # {} PROVE \E r \in U : r.username = name
    OBVIOUS
  <2>1. CASE name = s.username
    <3>1. PICK q \in N : TRUE
      BY <1>1
    <3>2. New(q) \in U /\ New(q).username = name
      BY <1>4, <2>1
    <3> QED BY <3>2
  <2>2. CASE name # s.username
    BY <2>2 DEF Named
  <2> QED BY <2>1, <2>2
<1> HIDE DEF U
<1>12. /\ e \in Db /\ e.users = U /\ e.topics = d.topics /\ e.rules = d.rules
       /\ e.categories = d.categories
  BY <1>5, <1>6 DEF Good, Db
<1>13. \A owner : Exist(d, owner) => Exist(e, owner)
  BY <1>11, <1>12 DEF Exist, Named
<1> QED BY <1>9, <1>10, <1>12, <1>13 DEF Good, Consistent

(* ON DELETE CASCADE leaves no rule and no owner without a user. *)
LEMMA DeleteUserKeeps ==
  ASSUME NEW d, Good(d), NEW s, NEW e \in delete_mqtt_user(d, s)
  PROVE  Good(e)
<1>1. e = [d EXCEPT !.users = @ \ Named(d, s.username),
                    !.topics = {r \in @ : s.username \notin r.owner_username},
                    !.rules = {r \in @ : r.username # s.username}]
  BY DEF delete_mqtt_user
<1>2. /\ e \in Db /\ e.users = {r \in d.users : r.username # s.username}
      /\ e.topics = {r \in d.topics : s.username \notin r.owner_username}
      /\ e.rules = {r \in d.rules : r.username # s.username}
      /\ e.categories = d.categories
  BY <1>1 DEF Good, Db, Named
<1>3. \A owner : Exist(d, owner) /\ s.username \notin owner => Exist(e, owner)
  BY <1>2 DEF Exist, Named
<1> QED BY <1>2, <1>3 DEF Good, Consistent

(* Topics are unique and their owners exist. *)
LEMMA TopicsKeep ==
  ASSUME NEW d, Good(d), NEW e, NEW s, s.topic \in Patterns, s.owner_username \subseteq Users,
         e \in create_mqtt_topic(d, s) \cup update_mqtt_topic(d, s)
  PROVE  Good(e)
<1> DEFINE row == [topic |-> s.topic, owner_username |-> s.owner_username]
<1>1. PICK gone \in SUBSET d.topics :
        /\ e = [d EXCEPT !.topics = (d.topics \ gone) \cup {row}]
        /\ \A r \in d.topics \ gone : r.topic # s.topic
        /\ Exist(d, s.owner_username)
  <2>1. CASE e \in create_mqtt_topic(d, s)
    <3>1. e = [d EXCEPT !.topics = (d.topics \ {}) \cup {row}] /\ OnTopic(d, s.topic) = {}
          /\ Exist(d, s.owner_username)
      BY <2>1 DEF create_mqtt_topic
    <3>2. {} \in SUBSET d.topics
      OBVIOUS
    <3> HIDE DEF row
    <3> QED BY <3>1, <3>2 DEF OnTopic
  <2>2. CASE e \in update_mqtt_topic(d, s)
    <3>1. e = [d EXCEPT !.topics = (d.topics \ OnTopic(d, s.id)) \cup {row}]
          /\ (s.topic # s.id => OnTopic(d, s.topic) = {}) /\ Exist(d, s.owner_username)
      BY <2>2 DEF update_mqtt_topic
    <3>2. OnTopic(d, s.id) \in SUBSET d.topics
      BY DEF OnTopic
    <3>3. \A r \in d.topics \ OnTopic(d, s.id) : r.topic # s.topic
      BY <3>1 DEF OnTopic
    <3> HIDE DEF row
    <3> QED BY <3>1, <3>2, <3>3
  <2> QED BY <2>1, <2>2
<1>2. row \in TopicRow /\ row.topic = s.topic /\ row.owner_username = s.owner_username
  BY DEF TopicRow
<1> HIDE DEF row
<1>3. /\ e \in Db /\ e.users = d.users /\ e.topics = (d.topics \ gone) \cup {row}
      /\ e.rules = d.rules /\ e.categories = d.categories
  BY <1>1, <1>2 DEF Good, Db
<1>4. \A owner : Exist(d, owner) => Exist(e, owner)
  BY <1>3 DEF Exist, Named
<1> QED BY <1>1, <1>2, <1>3, <1>4 DEF Good, Consistent

(* A user has one rule for a pattern. *)
LEMMA RulesKeep ==
  ASSUME NEW d, Good(d), NEW e, NEW s, s.username \in Users, s.topic_pattern \in Patterns,
         s.can_subscribe \in BOOLEAN, s.can_publish \in BOOLEAN,
         e \in create_topic_acl(d, s) \cup update_topic_acl(d, s)
  PROVE  Good(e)
<1> DEFINE row == [username |-> s.username, topic_pattern |-> s.topic_pattern,
                   can_subscribe |-> s.can_subscribe, can_publish |-> s.can_publish]
<1>1. PICK gone \in SUBSET d.rules :
        /\ e = [d EXCEPT !.rules = (d.rules \ gone) \cup {row}]
        /\ \A r \in d.rules \ gone : ~(r.username = s.username /\ r.topic_pattern = s.topic_pattern)
        /\ Exist(d, {s.username})
  <2>1. CASE e \in create_topic_acl(d, s)
    <3>1. /\ e = [d EXCEPT !.rules = (d.rules \ {}) \cup {row}]
          /\ Rule(d, s.username, s.topic_pattern) = {} /\ Named(d, s.username) # {}
      BY <2>1 DEF create_topic_acl
    <3>2. {} \in SUBSET d.rules
      OBVIOUS
    <3> HIDE DEF row
    <3> QED BY <3>1, <3>2 DEF Rule, Exist
  <2>2. CASE e \in update_topic_acl(d, s)
    <3>1. /\ e = [d EXCEPT !.rules = (d.rules \ Rule(d, s.username, s.id)) \cup {row}]
          /\ Rule(d, s.username, s.id) # {}
          /\ s.topic_pattern # s.id => Rule(d, s.username, s.topic_pattern) = {}
      BY <2>2 DEF update_topic_acl
    <3>2. Rule(d, s.username, s.id) \in SUBSET d.rules
      BY DEF Rule
    <3>3. Exist(d, {s.username})
      BY <3>1 DEF Rule, Good, Consistent
    <3>4. \A r \in d.rules \ Rule(d, s.username, s.id) :
            ~(r.username = s.username /\ r.topic_pattern = s.topic_pattern)
      BY <3>1 DEF Rule
    <3> HIDE DEF row
    <3> QED BY <3>1, <3>2, <3>3, <3>4
  <2> QED BY <2>1, <2>2
<1>2. row \in RuleRow /\ row.username = s.username /\ row.topic_pattern = s.topic_pattern
  BY DEF RuleRow
<1> HIDE DEF row
<1>3. /\ e \in Db /\ e.users = d.users /\ e.rules = (d.rules \ gone) \cup {row}
      /\ e.topics = d.topics /\ e.categories = d.categories
  BY <1>1, <1>2 DEF Good, Db
<1>4. \A owner : Exist(d, owner) => Exist(e, owner)
  BY <1>3 DEF Exist, Named
<1>5. \A r, q \in e.rules :
        r.username = q.username /\ r.topic_pattern = q.topic_pattern => r = q
  BY <1>1, <1>2, <1>3 DEF Good, Consistent
<1>6. \A r \in e.rules : Exist(e, {r.username})
  BY <1>1, <1>2, <1>3, <1>4 DEF Good, Consistent
<1> QED BY <1>3, <1>4, <1>5, <1>6 DEF Good, Consistent

(* A topic or a rule that goes takes nothing with it. *)
LEMMA RemovalsKeep ==
  ASSUME NEW d, Good(d), NEW s, NEW e \in delete_mqtt_topic(d, s) \cup delete_topic_acl(d, s)
  PROVE  Good(e)
<1>1. PICK T \in SUBSET d.topics, R \in SUBSET d.rules : e = [d EXCEPT !.topics = T, !.rules = R]
  <2>1. CASE e \in delete_mqtt_topic(d, s)
    <3>1. e = [d EXCEPT !.topics = d.topics \ OnTopic(d, s.id), !.rules = d.rules]
      BY <2>1 DEF delete_mqtt_topic, Good, Db
    <3> QED BY <3>1
  <2>2. CASE e \in delete_topic_acl(d, s)
    <3>1. e = [d EXCEPT !.topics = d.topics, !.rules = d.rules \ Rule(d, s.username, s.id)]
      BY <2>2 DEF delete_topic_acl, Good, Db
    <3> QED BY <3>1
  <2> QED BY <2>1, <2>2
<1>2. e \in Db /\ e.users = d.users /\ e.topics = T /\ e.rules = R /\ e.categories = d.categories
  BY <1>1 DEF Good, Db
<1>3. \A owner : Exist(d, owner) => Exist(e, owner)
  BY <1>2 DEF Exist, Named
<1> QED BY <1>2, <1>3 DEF Good, Consistent

(* Users may stay without the category that goes. *)
LEMMA CategoriesKeep ==
  ASSUME NEW d, Good(d), NEW s, s.category \in Categories,
         NEW e \in create_category(d, s) \cup delete_category(d, s)
  PROVE  Good(e)
<1>1. CASE e \in create_category(d, s)
  <2>1. e = [d EXCEPT !.categories = @ \cup {s.category}]
    BY <1>1 DEF create_category
  <2>2. /\ e \in Db /\ e.users = d.users /\ e.topics = d.topics /\ e.rules = d.rules
        /\ d.categories \subseteq e.categories
    BY <2>1 DEF Good, Db
  <2>3. \A owner : Exist(d, owner) => Exist(e, owner)
    BY <2>2 DEF Exist, Named
  <2> QED BY <2>2, <2>3 DEF Good, Consistent
<1>2. CASE e \in delete_category(d, s)
  <2> DEFINE New(r) == [r EXCEPT !.category_id = @ \ {s.category}]
             U == {New(r) : r \in d.users}
  <2>1. e = [d EXCEPT !.categories = @ \ {s.category}, !.users = U]
    BY <1>2 DEF delete_category
  <2>2. \A r \in d.users : /\ New(r) \in UserRow /\ New(r).username = r.username
                           /\ New(r).category_id = r.category_id \ {s.category}
    <3> SUFFICES ASSUME NEW r \in d.users
                 PROVE  /\ New(r) \in UserRow /\ New(r).username = r.username
                        /\ New(r).category_id = r.category_id \ {s.category}
      OBVIOUS
    <3>1. r \in UserRow
      BY DEF Good, Db
    <3> QED BY <3>1 DEF UserRow
  <2>3. \A r \in U : \E q \in d.users : r = New(q)
    OBVIOUS
  <2>4. \A r \in d.users : New(r) \in U
    OBVIOUS
  <2> HIDE DEF New, U
  <2>5. U \subseteq UserRow
    BY <2>2, <2>3
  <2>6. /\ e \in Db /\ e.users = U /\ e.topics = d.topics /\ e.rules = d.rules
        /\ e.categories = d.categories \ {s.category}
    BY <2>1, <2>5 DEF Good, Db
  <2>7. \A owner : Exist(d, owner) => Exist(e, owner)
    BY <2>2, <2>4, <2>6 DEF Exist, Named
  <2>8. \A r, q \in U : r.username = q.username => r = q
    BY <2>2, <2>3 DEF Good, Consistent
  <2>9. \A r \in U : r.category_id \subseteq e.categories
    BY <2>2, <2>3, <2>6 DEF Good, Consistent
  <2> QED BY <2>6, <2>7, <2>8, <2>9 DEF Good, Consistent
<1> QED BY <1>1, <1>2

(* The templates are a list of patterns. *)
LEMMA SettingsKeep ==
  ASSUME NEW d, Good(d), NEW s, s.user_defaults \in Seq([Users -> Patterns]),
         NEW e \in set_user_defaults(d, s)
  PROVE  Good(e)
<1>1. e = [d EXCEPT !.user_defaults = s.user_defaults]
  BY DEF set_user_defaults
<1>2. /\ e \in Db /\ e.users = d.users /\ e.topics = d.topics /\ e.rules = d.rules
      /\ e.categories = d.categories
  BY <1>1 DEF Good, Db
<1>3. \A owner : Exist(d, owner) => Exist(e, owner)
  BY <1>2 DEF Exist, Named
<1> QED BY <1>2, <1>3 DEF Good, Consistent

(* A template takes over a topic nobody owns, and replaces the user's rule. *)
LEMMA DefaultsKeep ==
  ASSUME NEW d, Good(d), NEW s \in Default,
         NEW e \in apply_default_topic(d, s) \cup apply_default_acl(d, s)
  PROVE  Good(e)
<1>0. s.username \in Users /\ s.pattern \in Patterns
  BY DEF Default
<1>1. CASE e \in apply_default_topic(d, s)
  <2> DEFINE row == [topic |-> s.pattern, owner_username |-> {s.username}]
  <2>1. /\ Named(d, s.username) # {}
        /\ e = [d EXCEPT !.topics =
                  IF \E r \in OnTopic(d, s.pattern) : r.owner_username # {} THEN d.topics
                  ELSE (d.topics \ OnTopic(d, s.pattern)) \cup {row}]
    BY <1>1 DEF apply_default_topic
  <2>2. row \in TopicRow /\ row.topic = s.pattern /\ row.owner_username = {s.username}
    BY <1>0 DEF TopicRow
  <2> HIDE DEF row
  <2>3. \E T : /\ e = [d EXCEPT !.topics = T]
               /\ T = d.topics \/ T = (d.topics \ OnTopic(d, s.pattern)) \cup {row}
    BY <2>1
  <2>4. PICK T : /\ e = [d EXCEPT !.topics = T]
                 /\ T = d.topics \/ T = (d.topics \ OnTopic(d, s.pattern)) \cup {row}
    BY <2>3
  <2>5. T \subseteq TopicRow
    BY <2>2, <2>4 DEF Good, Db
  <2>6. e \in Db /\ e.users = d.users /\ e.topics = T /\ e.rules = d.rules
        /\ e.categories = d.categories
    BY <2>4, <2>5 DEF Good, Db
  <2>7. \A owner : Exist(d, owner) => Exist(e, owner)
    BY <2>6 DEF Exist, Named
  <2>8. \A r, q \in T : r.topic = q.topic => r = q
    BY <2>2, <2>4 DEF OnTopic, Good, Consistent
  <2>9. Exist(d, {s.username})
    BY <2>1 DEF Exist
  <2>10. \A r \in T : Exist(e, r.owner_username)
    BY <2>2, <2>4, <2>7, <2>9 DEF Good, Consistent
  <2> QED BY <2>6, <2>7, <2>8, <2>10 DEF Good, Consistent
<1>2. CASE e \in apply_default_acl(d, s)
  <2> DEFINE row == [username |-> s.username, topic_pattern |-> s.pattern,
                     can_subscribe |-> TRUE, can_publish |-> TRUE]
  <2>1. /\ Named(d, s.username) # {}
        /\ e = [d EXCEPT !.rules = (d.rules \ Rule(d, s.username, s.pattern)) \cup {row}]
    BY <1>2 DEF apply_default_acl
  <2>2. row \in RuleRow /\ row.username = s.username /\ row.topic_pattern = s.pattern
    BY <1>0 DEF RuleRow
  <2> HIDE DEF row
  <2>3. /\ e \in Db /\ e.users = d.users /\ e.topics = d.topics /\ e.categories = d.categories
        /\ e.rules = (d.rules \ Rule(d, s.username, s.pattern)) \cup {row}
    BY <2>1, <2>2 DEF Good, Db
  <2>4. \A owner : Exist(d, owner) => Exist(e, owner)
    BY <2>3 DEF Exist, Named
  <2>5. Exist(d, {s.username})
    BY <2>1 DEF Exist
  <2>6. \A r, q \in e.rules :
          r.username = q.username /\ r.topic_pattern = q.topic_pattern => r = q
    BY <2>2, <2>3 DEF Rule, Good, Consistent
  <2>7. \A r \in e.rules : Exist(e, {r.username})
    BY <2>2, <2>3, <2>4, <2>5 DEF Good, Consistent
  <2> QED BY <2>3, <2>4, <2>6, <2>7 DEF Good, Consistent
<1> QED BY <1>1, <1>2

(* Every statement that writes. *)
LEMMA WriteKeeps ==
  ASSUME NEW d, Good(d), NEW s \in WriteRequest \cup Default, NEW e \in Write(d, s)
  PROVE  Good(e)
<1>1. CASE s \in NewUser
  <2>1. Write(d, s) = create_mqtt_user(d, s)
    BY <1>1 DEF Write, NewUser
  <2> QED BY <1>1, <2>1, CreateUserKeeps
<1>2. CASE s \in [op : {"update_mqtt_user"}, username : Users, password : SUBSET Passwords,
                  enabled : BOOLEAN, category_id : SUBSET Categories]
  <2>1. Write(d, s) = update_mqtt_user(d, s)
    BY <1>2 DEF Write
  <2> QED BY <1>2, <2>1, UpdateUserKeeps
<1>3. CASE s \in [op : {"delete_mqtt_user"}, username : Users]
  <2>1. Write(d, s) = delete_mqtt_user(d, s)
    BY <1>3 DEF Write
  <2> QED BY <2>1, DeleteUserKeeps
<1>4. CASE s \in [op : {"create_topic"}, topic : Patterns, owner_username : SUBSET Users]
           \/ s \in [op : {"update_topic"}, id : Patterns, topic : Patterns,
                     owner_username : SUBSET Users]
  <2>1. Write(d, s) \in {create_mqtt_topic(d, s), update_mqtt_topic(d, s)}
    BY <1>4 DEF Write
  <2>2. s.topic \in Patterns /\ s.owner_username \subseteq Users
    BY <1>4
  <2> QED BY <2>1, <2>2, TopicsKeep
<1>5. CASE s \in [op : {"create_acl"}, username : Users, topic_pattern : Patterns,
                  can_subscribe : BOOLEAN, can_publish : BOOLEAN]
           \/ s \in [op : {"update_acl"}, username : Users, id : Patterns,
                     topic_pattern : Patterns, can_subscribe : BOOLEAN, can_publish : BOOLEAN]
  <2>1. Write(d, s) \in {create_topic_acl(d, s), update_topic_acl(d, s)}
    BY <1>5 DEF Write
  <2>2. /\ s.username \in Users /\ s.topic_pattern \in Patterns
        /\ s.can_subscribe \in BOOLEAN /\ s.can_publish \in BOOLEAN
    BY <1>5
  <2> QED BY <2>1, <2>2, RulesKeep
<1>6. CASE s \in [op : {"delete_topic"}, id : Patterns]
           \/ s \in [op : {"delete_acl"}, username : Users, id : Patterns]
  <2>1. Write(d, s) \in {delete_mqtt_topic(d, s), delete_topic_acl(d, s)}
    BY <1>6 DEF Write
  <2> QED BY <2>1, RemovalsKeep
<1>7. CASE s \in [op : {"create_category", "delete_category"}, category : Categories]
  <2>1. Write(d, s) \in {create_category(d, s), delete_category(d, s)} /\ s.category \in Categories
    BY <1>7 DEF Write
  <2> QED BY <2>1, CategoriesKeep
<1>8. CASE s \in [op : {"update_settings"}, user_defaults : Seq([Users -> Patterns])]
  <2>1. Write(d, s) = set_user_defaults(d, s)
        /\ s.user_defaults \in Seq([Users -> Patterns])
    BY <1>8 DEF Write
  <2> QED BY <2>1, SettingsKeep
<1>9. CASE s \in Default
  <2>1. Write(d, s) \in {apply_default_topic(d, s), apply_default_acl(d, s)}
    BY <1>9 DEF Write, Default
  <2> QED BY <1>9, <2>1, DefaultsKeep
<1> QED BY <1>1, <1>2, <1>3, <1>4, <1>5, <1>6, <1>7, <1>8, <1>9 DEF WriteRequest

-----------------------------------------------------------------------------
(* The order of the statements in a line. *)

Reading == {"list_mqtt_users", "list_mqtt_topics", "list_topic_acls"}
Line    == Seq(Statements) \ {<<>>}

(* What must have been read before a statement of a reload: the users before *)
(* the topics and the rules, all three before they are installed.            *)
Needs(op) ==
  CASE op = "install"                               -> Reading
    [] op \in {"list_mqtt_topics", "list_topic_acls"} -> {"list_mqtt_users"}
    [] OTHER                                        -> {}

(* A line, when what is in `read` has been read already. *)
Ordered(line, read) ==
  \A k \in 1 .. Len(line) :
    /\ \A o \in Needs(line[k].op) : o \in read \/ \E j \in 1 .. k - 1 : line[j].op = o
    /\ line[k].op = "list_mqtt_users" =>
         "list_mqtt_users" \notin read /\ \A j \in 1 .. k - 1 : line[j].op # "list_mqtt_users"
    /\ line[k].op = "install" => k = Len(line)

LinesSound(lines) == lines \in Seq(Line) /\ \A i \in 1 .. Len(lines) : Ordered(lines[i], {})

(* The rest of a line, once its first statement has been done. *)
LEMMA OrderedTail ==
  ASSUME NEW line \in Line, NEW read \in SUBSET Reading, Ordered(line, read)
  PROVE  /\ Tail(line) \in Seq(Statements)
         /\ Ordered(Tail(line), read \cup ({line[1].op} \cap Reading))
         /\ line[1].op = "install" => Tail(line) = <<>>
<1>1. /\ line \in Seq(Statements) /\ line # <<>> /\ Len(line) \in Nat /\ Len(line) >= 1
      /\ Tail(line) \in Seq(Statements) /\ Len(Tail(line)) = Len(line) - 1
      /\ \A k \in 1 .. Len(Tail(line)) : Tail(line)[k] = line[k + 1] /\ k + 1 \in 1 .. Len(line)
  BY HeadTailProperties DEF Line
<1> DEFINE new == read \cup ({line[1].op} \cap Reading)
<1>2. ASSUME NEW k \in 1 .. Len(Tail(line)), NEW o \in Needs(Tail(line)[k].op)
      PROVE  o \in new \/ \E j \in 1 .. k - 1 : Tail(line)[j].op = o
  <2>1. o \in Reading
    BY DEF Needs, Reading
  <2>2. o \in Needs(line[k + 1].op) /\ k + 1 \in 1 .. Len(line)
    BY <1>1
  <2>3. o \in read \/ \E j \in 1 .. (k + 1) - 1 : line[j].op = o
    BY <2>2 DEF Ordered
  <2>4. CASE o \in read
    BY <2>4
  <2>5. ASSUME NEW j \in 1 .. (k + 1) - 1, line[j].op = o
        PROVE  o \in new \/ \E i \in 1 .. k - 1 : Tail(line)[i].op = o
    <3>1. CASE j = 1
      BY <2>1, <2>5, <3>1
    <3>2. CASE j # 1
      <4>1. j - 1 \in 1 .. k - 1 /\ j - 1 \in 1 .. Len(Tail(line)) /\ (j - 1) + 1 = j
        BY <1>1, <3>2
      <4>2. Tail(line)[j - 1].op = o
        BY <1>1, <4>1, <2>5
      <4> QED BY <4>1, <4>2
    <3> QED BY <3>1, <3>2
  <2> QED BY <2>3, <2>4, <2>5
<1>3. ASSUME NEW k \in 1 .. Len(Tail(line)), Tail(line)[k].op = "list_mqtt_users"
      PROVE  "list_mqtt_users" \notin new
             /\ \A j \in 1 .. k - 1 : Tail(line)[j].op # "list_mqtt_users"
  <2>1. line[k + 1].op = "list_mqtt_users" /\ k + 1 \in 1 .. Len(line)
    BY <1>1, <1>3
  <2>2. /\ "list_mqtt_users" \notin read
        /\ \A j \in 1 .. (k + 1) - 1 : line[j].op # "list_mqtt_users"
    BY <2>1 DEF Ordered
  <2>3. line[1].op # "list_mqtt_users"
    BY <2>2
  <2>4. ASSUME NEW j \in 1 .. k - 1 PROVE Tail(line)[j].op # "list_mqtt_users"
    <3>1. j + 1 \in 1 .. (k + 1) - 1 /\ j \in 1 .. Len(Tail(line))
      BY <1>1
    <3> QED BY <1>1, <2>2, <3>1
  <2> QED BY <2>2, <2>3, <2>4
<1>4. ASSUME NEW k \in 1 .. Len(Tail(line)), Tail(line)[k].op = "install"
      PROVE  k = Len(Tail(line))
  <2>1. line[k + 1].op = "install" /\ k + 1 \in 1 .. Len(line)
    BY <1>1, <1>4
  <2>2. k + 1 = Len(line)
    BY <2>1 DEF Ordered
  <2>3. Len(line) \in Nat /\ Len(Tail(line)) = Len(line) - 1 /\ k \in Nat
    BY <1>1
  <2> QED BY <2>2, <2>3
<1>5. line[1].op = "install" => Tail(line) = <<>>
  <2> SUFFICES ASSUME line[1].op = "install" PROVE Tail(line) = <<>>
    OBVIOUS
  <2>1. 1 \in 1 .. Len(line)
    BY <1>1
  <2>2. 1 = Len(line)
    <3>1. \A k \in 1 .. Len(line) : line[k].op = "install" => k = Len(line)
      BY DEF Ordered
    <3> QED BY <2>1, <3>1
  <2>3. Tail(line) \in Seq(Statements) /\ Len(Tail(line)) = Len(line) - 1
    BY <1>1
  <2>4. Len(line) - 1 = 0
    BY <2>2
  <2>5. Len(Tail(line)) = 0
    BY <2>3, <2>4
  <2> QED BY <2>3, <2>5, EmptySeq
<1> HIDE DEF new
<1>6. Ordered(Tail(line), new)
  BY <1>2, <1>3, <1>4 DEF Ordered
<1> QED BY <1>1, <1>5, <1>6 DEF new

Plain(line) ==
  line \in Seq(Statements) /\ \A k \in 1 .. Len(line) : line[k].op \notin Reading \cup {"install"}

(* Nothing is out of order where nothing is read. *)
LEMMA PlainOrdered ==
  ASSUME NEW line, Plain(line)
  PROVE  Ordered(line, {})
<1>1. ASSUME NEW k \in 1 .. Len(line)
      PROVE  Needs(line[k].op) = {} /\ line[k].op # "list_mqtt_users" /\ line[k].op # "install"
  BY DEF Plain, Needs, Reading
<1> QED BY <1>1 DEF Ordered

(* A reload is its four statements in order. *)
LEMMA ReloadIs ==
  /\ Reload \in Seq(Statements) /\ Len(Reload) = 4
  /\ Reload[1].op = "list_mqtt_users" /\ Reload[2].op = "list_mqtt_topics"
  /\ Reload[3].op = "list_topic_acls" /\ Reload[4].op = "install"
<1>1. \A o \in {"list_mqtt_users", "list_mqtt_topics", "list_topic_acls", "install"} :
        [op |-> o] \in Statements
  BY DEF Statements, ReloadStep
<1> QED BY <1>1 DEF Reload

(* A reload at the end of a line. *)
LEMMA ReloadOrdered ==
  ASSUME NEW line, Plain(line)
  PROVE  line \o Reload \in Line /\ Ordered(line \o Reload, {})
<1> DEFINE all == line \o Reload
           n   == Len(line)
<1>1. /\ all \in Seq(Statements) /\ Len(all) = n + 4 /\ n \in Nat
      /\ \A i \in 1 .. n + 4 : all[i] = IF i <= n THEN line[i] ELSE Reload[i - n]
  <2>1. line \in Seq(Statements) /\ Reload \in Seq(Statements) /\ Len(Reload) = 4
    BY ReloadIs DEF Plain
  <2>2. /\ line \o Reload \in Seq(Statements)
        /\ Len(line \o Reload) = Len(line) + Len(Reload)
        /\ \A i \in 1 .. Len(line) + Len(Reload) :
             (line \o Reload)[i] = IF i <= Len(line) THEN line[i] ELSE Reload[i - Len(line)]
    BY <2>1, ConcatProperties
  <2> QED BY <2>1, <2>2
<1>2. /\ all[n + 1].op = "list_mqtt_users" /\ all[n + 2].op = "list_mqtt_topics"
      /\ all[n + 3].op = "list_topic_acls" /\ all[n + 4].op = "install"
  <2>1. /\ n + 1 \in 1 .. n + 4 /\ n + 2 \in 1 .. n + 4 /\ n + 3 \in 1 .. n + 4
        /\ n + 4 \in 1 .. n + 4
        /\ (n + 1) - n = 1 /\ (n + 2) - n = 2 /\ (n + 3) - n = 3 /\ (n + 4) - n = 4
        /\ ~(n + 1 <= n) /\ ~(n + 2 <= n) /\ ~(n + 3 <= n) /\ ~(n + 4 <= n)
    BY <1>1
  <2> HIDE DEF all, n
  <2> QED BY <1>1, <2>1, ReloadIs
<1>3. \A i \in 1 .. n : all[i].op \notin Reading \cup {"install"}
  BY <1>1 DEF Plain
<1>4. all \in Line
  <2>1. Len(all) # 0
    BY <1>1
  <2>2. all # <<>>
    BY <2>1, EmptySeq
  <2> QED BY <1>1, <2>2 DEF Line
<1> HIDE DEF all, n
<1>5. ASSUME NEW k \in 1 .. n + 4
      PROVE  /\ \A o \in Needs(all[k].op) : o \in {} \/ \E j \in 1 .. k - 1 : all[j].op = o
             /\ all[k].op = "list_mqtt_users" =>
                  /\ "list_mqtt_users" \notin {}
                  /\ \A j \in 1 .. k - 1 : all[j].op # "list_mqtt_users"
             /\ all[k].op = "install" => k = n + 4
  <2>1. k \in 1 .. n \/ k = n + 1 \/ k = n + 2 \/ k = n + 3 \/ k = n + 4
    BY <1>1
  <2>2. CASE k \in 1 .. n
    <3>1. Needs(all[k].op) = {} /\ all[k].op # "list_mqtt_users" /\ all[k].op # "install"
      BY <1>3, <2>2 DEF Needs, Reading
    <3> QED BY <3>1
  <2>3. CASE k = n + 1
    <3>1. Needs(all[k].op) = {} /\ all[k].op # "install"
      BY <1>2, <2>3 DEF Needs
    <3>2. \A j \in 1 .. k - 1 : j \in 1 .. n
      BY <1>1, <2>3
    <3>3. \A j \in 1 .. k - 1 : all[j].op # "list_mqtt_users"
      BY <1>3, <3>2 DEF Reading
    <3> QED BY <3>1, <3>3
  <2>4. CASE k = n + 2 \/ k = n + 3
    <3>1. /\ Needs(all[k].op) = {"list_mqtt_users"} /\ all[k].op # "list_mqtt_users"
          /\ all[k].op # "install"
      BY <1>2, <2>4 DEF Needs
    <3>2. n + 1 \in 1 .. k - 1
      BY <1>1, <2>4
    <3> QED BY <1>2, <3>1, <3>2
  <2>5. CASE k = n + 4
    <3>1. Needs(all[k].op) = Reading /\ all[k].op # "list_mqtt_users"
      BY <1>2, <2>5 DEF Needs
    <3>2. n + 1 \in 1 .. k - 1 /\ n + 2 \in 1 .. k - 1 /\ n + 3 \in 1 .. k - 1
      BY <1>1, <2>5
    <3>3. \A o \in Reading : \E j \in 1 .. k - 1 : all[j].op = o
      BY <1>2, <3>2 DEF Reading
    <3> QED BY <2>5, <3>1, <3>3
  <2> QED BY <2>1, <2>2, <2>3, <2>4, <2>5
<1>6. Ordered(all, {})
  BY <1>1, <1>5 DEF Ordered
<1> QED BY <1>4, <1>6 DEF all

(* Lines made of one. *)
LEMMA OneLine ==
  ASSUME NEW line \in Line, Ordered(line, {})
  PROVE  LinesSound(<<line>>)
<1>1. <<line>> \in Seq(Line) /\ Len(<<line>>) = 1 /\ <<line>>[1] = line
  OBVIOUS
<1> QED BY <1>1 DEF LinesSound

(* A statement alone. *)
LEMMA OneStatement ==
  ASSUME NEW s \in Statements
  PROVE  <<s>> \in Seq(Statements) /\ <<s>> # <<>> /\ Len(<<s>>) = 1 /\ <<s>>[1] = s
OBVIOUS

(* The templates of a new user read nothing. *)
LEMMA DefaultsPlain ==
  ASSUME NEW d \in Db, NEW name \in Users
  PROVE  Plain(Defaults(d, name))
<1> DEFINE n == Len(d.user_defaults)
           D == Defaults(d, name)
<1>1. n \in Nat /\ \A i \in 1 .. n : d.user_defaults[i][name] \in Patterns
  <2>1. d.user_defaults \in Seq([Users -> Patterns])
    BY DEF Db
  <2> QED BY <2>1
<1>2. DOMAIN D = 1 .. 2 * n /\ 2 * n \in Nat
  BY <1>1 DEF Defaults
<1>3. ASSUME NEW i \in 1 .. 2 * n PROVE D[i] \in Default
  <2>1. CASE i <= n
    <3>1. D[i] = [op |-> "default_topic", username |-> name, pattern |-> d.user_defaults[i][name]]
      BY <1>1, <2>1 DEF Defaults
    <3>2. d.user_defaults[i][name] \in Patterns
      BY <1>1, <2>1
    <3> QED BY <3>1, <3>2 DEF Default
  <2>2. CASE ~(i <= n)
    <3>1. D[i] = [op |-> "default_acl", username |-> name,
                  pattern |-> d.user_defaults[i - n][name]]
      BY <1>1, <2>2 DEF Defaults
    <3>2. i - n \in 1 .. n
      BY <1>1, <2>2
    <3>3. d.user_defaults[i - n][name] \in Patterns
      BY <1>1, <3>2
    <3> QED BY <3>1, <3>3 DEF Default
  <2> QED BY <2>1, <2>2
<1>4. D \in [1 .. 2 * n -> Statements]
  <2>1. D = [i \in 1 .. 2 * n |-> D[i]]
    BY DEF Defaults
  <2> HIDE DEF D, n
  <2> QED BY <1>3, <2>1 DEF Statements
<1>5. D \in Seq(Statements) /\ Len(D) = 2 * n
  <2> HIDE DEF D, n
  <2> QED BY <1>2, <1>4, SeqDef, LenProperties
<1>6. \A k \in 1 .. Len(D) : D[k].op \notin Reading \cup {"install"}
  <2>1. \A k \in 1 .. Len(D) : D[k] \in Default
    BY <1>3, <1>5
  <2> HIDE DEF D, n
  <2> QED BY <2>1 DEF Default, Reading
<1> QED BY <1>5, <1>6 DEF Plain

(* A row of a batch, with or without the templates. *)
LEMMA RowLine ==
  ASSUME NEW d \in Db, NEW row \in NewUser, NEW rest,
         rest \in {<<>>, Defaults(d, row.username)}
  PROVE  <<row>> \o rest \in Line /\ Ordered(<<row>> \o rest, {})
<1>1. row \in Statements /\ row.username \in Users /\ row.op \notin Reading \cup {"install"}
  BY DEF Statements, WriteRequest, NewUser, Reading
<1>2. Plain(rest)
  <2>1. Plain(<<>>)
    BY DEF Plain
  <2> QED BY <1>1, <2>1, DefaultsPlain
<1>3. /\ <<row>> \o rest \in Seq(Statements) /\ Len(<<row>> \o rest) = 1 + Len(rest)
      /\ Len(rest) \in Nat
      /\ \A i \in 1 .. 1 + Len(rest) :
           (<<row>> \o rest)[i] = IF i <= 1 THEN <<row>>[i] ELSE rest[i - 1]
  <2>1. <<row>> \in Seq(Statements) /\ Len(<<row>>) = 1 /\ rest \in Seq(Statements)
    BY <1>1, <1>2, OneStatement DEF Plain
  <2>2. /\ <<row>> \o rest \in Seq(Statements)
        /\ Len(<<row>> \o rest) = Len(<<row>>) + Len(rest)
        /\ \A i \in 1 .. Len(<<row>>) + Len(rest) :
             (<<row>> \o rest)[i] = IF i <= Len(<<row>>) THEN <<row>>[i] ELSE rest[i - Len(<<row>>)]
    BY <2>1, ConcatProperties
  <2> QED BY <2>1, <2>2
<1> DEFINE line == <<row>> \o rest
<1>4. \A k \in 1 .. Len(line) : line[k].op \notin Reading \cup {"install"}
  <2> SUFFICES ASSUME NEW k \in 1 .. Len(line) PROVE line[k].op \notin Reading \cup {"install"}
    OBVIOUS
  <2>1. k \in 1 .. 1 + Len(rest) /\ (k # 1 => k - 1 \in 1 .. Len(rest) /\ ~(k <= 1))
    BY <1>3
  <2>2. CASE k = 1
    <3>1. line[k] = row
      BY <1>3, <2>1, <2>2
    <3> QED BY <1>1, <3>1
  <2>3. CASE k # 1
    <3>1. line[k] = rest[k - 1]
      BY <1>3, <2>1, <2>3
    <3> QED BY <1>2, <2>1, <2>3, <3>1 DEF Plain
  <2> QED BY <2>2, <2>3
<1>5. line # <<>>
  <2>1. Len(line) # 0
    BY <1>3
  <2> QED BY <2>1, EmptySeq
<1>6. Plain(line)
  BY <1>3, <1>4 DEF Plain
<1> QED BY <1>3, <1>5, <1>6, PlainOrdered DEF Line

(* A line for each row, and one for the reload. *)
LEMMA BatchSound ==
  ASSUME NEW d \in Db, NEW r, r.rows \in Seq(NewUser)
  PROVE  LinesSound(BatchLines(d, r))
<1> DEFINE F == [i \in DOMAIN r.rows |->
                   <<r.rows[i]>> \o (IF r.apply_defaults THEN Defaults(d, r.rows[i].username)
                                     ELSE <<>>)]
           n == Len(r.rows)
           G == <<Reload>>
<1>1. n \in Nat /\ DOMAIN r.rows = 1 .. n /\ \A i \in 1 .. n : r.rows[i] \in NewUser
  OBVIOUS
<1>2. \A i \in 1 .. n : F[i] \in Line /\ Ordered(F[i], {})
  <2> SUFFICES ASSUME NEW i \in 1 .. n PROVE F[i] \in Line /\ Ordered(F[i], {})
    OBVIOUS
  <2>1. PICK rest \in {<<>>, Defaults(d, r.rows[i].username)} : F[i] = <<r.rows[i]>> \o rest
    BY <1>1
  <2>2. r.rows[i] \in NewUser
    BY <1>1
  <2> HIDE DEF F
  <2> QED BY <2>1, <2>2, RowLine
<1>3. F \in Seq(Line) /\ Len(F) = n
  <2>1. F = [i \in 1 .. n |-> F[i]]
    BY <1>1
  <2> HIDE DEF F, n
  <2>2. F \in [1 .. n -> Line] /\ DOMAIN F = 1 .. n
    BY <1>2, <2>1
  <2> QED BY <1>1, <2>2, SeqDef, LenProperties
<1>4. Reload \in Line /\ Ordered(Reload, {})
  <2>1. Plain(<<>>) /\ <<>> \o Reload = Reload
    BY ReloadIs, ConcatEmptySeq DEF Plain
  <2> QED BY <2>1, ReloadOrdered
<1>5. G \in Seq(Line) /\ Len(G) = 1 /\ G[1] = Reload
  BY <1>4
<1>6. BatchLines(d, r) = F \o G
  BY DEF BatchLines
<1> HIDE DEF F, G, n
<1>7. /\ F \o G \in Seq(Line) /\ Len(F \o G) = n + 1
      /\ \A i \in 1 .. n + 1 : (F \o G)[i] = IF i <= n THEN F[i] ELSE G[i - n]
  <2>1. /\ F \o G \in Seq(Line) /\ Len(F \o G) = Len(F) + Len(G)
        /\ \A i \in 1 .. Len(F) + Len(G) :
             (F \o G)[i] = IF i <= Len(F) THEN F[i] ELSE G[i - Len(F)]
    BY <1>3, <1>5, ConcatProperties
  <2> QED BY <1>3, <1>5, <2>1
<1>8. \A i \in 1 .. n + 1 : Ordered((F \o G)[i], {})
  <2> SUFFICES ASSUME NEW i \in 1 .. n + 1 PROVE Ordered((F \o G)[i], {})
    OBVIOUS
  <2>1. CASE i <= n
    <3>1. i \in 1 .. n /\ (F \o G)[i] = F[i]
      BY <1>1, <1>7, <2>1
    <3> QED BY <1>2, <3>1
  <2>2. CASE ~(i <= n)
    <3>1. i - n = 1
      BY <1>1, <2>2
    <3>2. (F \o G)[i] = Reload
      BY <1>5, <1>7, <2>2, <3>1
    <3> QED BY <1>4, <3>2
  <2> QED BY <2>1, <2>2
<1> QED BY <1>6, <1>7, <1>8 DEF LinesSound

(* The lines of every request. *)
LEMMA LinesTyped ==
  ASSUME NEW r \in Request
  PROVE  LinesSound(Lines(r))
<1>1. ASSUME NEW s \in WriteRequest \cup GetBatch
      PROVE  <<s>> \in Line /\ Ordered(<<s>>, {}) /\ Plain(<<s>>)
  <2>1. s \in Statements /\ s.op \notin Reading \cup {"install"}
    BY <1>1 DEF Statements, WriteRequest, NewUser, GetBatch, Reading
  <2>2. Plain(<<s>>)
    BY <2>1, OneStatement DEF Plain
  <2> QED BY <2>1, <2>2, OneStatement, PlainOrdered DEF Line
<1>2. CASE r \in NewUser
  <2> DEFINE g == [r EXCEPT !.op = "get_user_defaults"]
  <2>1. r \in WriteRequest
    BY <1>2 DEF WriteRequest
  <2>2. CASE r.apply_defaults = TRUE
    <3>1. Lines(r) = <<<<r>> \o <<g>>>>
      BY <1>2, <2>2 DEF Lines, NewUser
    <3>2. g \in Statements /\ g.op = "get_user_defaults"
      BY <1>2 DEF NewUser, GetDefaults, Statements
    <3>3. r \in Statements /\ r.op \notin Reading \cup {"install"}
      BY <2>1, <1>2 DEF Statements, NewUser, Reading
    <3> HIDE DEF g
    <3> DEFINE line == <<r>> \o <<g>>
    <3>4. line \in Seq(Statements) /\ Len(line) = 2 /\ line[1] = r /\ line[2] = g
      <4>1. /\ <<r>> \in Seq(Statements) /\ Len(<<r>>) = 1 /\ <<r>>[1] = r
            /\ <<g>> \in Seq(Statements) /\ Len(<<g>>) = 1 /\ <<g>>[1] = g
        BY <3>2, <3>3, OneStatement
      <4>2. /\ line \in Seq(Statements) /\ Len(line) = Len(<<r>>) + Len(<<g>>)
            /\ \A i \in 1 .. Len(<<r>>) + Len(<<g>>) :
                 line[i] = IF i <= Len(<<r>>) THEN <<r>>[i] ELSE <<g>>[i - Len(<<r>>)]
        BY <4>1, ConcatProperties
      <4> QED BY <4>1, <4>2
    <3> HIDE DEF line
    <3>5. Plain(line)
      <4>1. \A k \in 1 .. Len(line) : line[k] \in {r, g}
        BY <3>4
      <4>2. g.op \notin Reading \cup {"install"}
        BY <3>2 DEF Reading
      <4>3. \A k \in 1 .. Len(line) : line[k].op \notin Reading \cup {"install"}
        <5> HIDE DEF line
        <5> QED BY <3>3, <4>1, <4>2
      <4> QED BY <3>4, <4>3 DEF Plain
    <3>6. line # <<>>
      <4>1. Len(line) # 0
        BY <3>4
      <4> QED BY <4>1, EmptySeq
    <3>7. line \in Line /\ Ordered(line, {})
      BY <3>4, <3>5, <3>6, PlainOrdered DEF Line
    <3> QED BY <3>1, <3>7, OneLine DEF line
  <2>3. CASE r.apply_defaults = FALSE
    <3>1. Lines(r) = <<<<r>> \o Reload>>
      BY <1>2, <2>3 DEF Lines, NewUser
    <3> QED BY <3>1, <2>1, <1>1, ReloadOrdered, OneLine
  <2> QED BY <1>2, <2>2, <2>3 DEF NewUser
<1>3. CASE r \in WriteRequest /\ r.op \in {"create_category", "delete_category", "update_settings"}
  <2>1. Lines(r) = <<<<r>>>>
    BY <1>3 DEF Lines
  <2> QED BY <1>1, <1>3, <2>1, OneLine
<1>4. CASE r \in BatchRequest
  <2>1. CASE r.apply_defaults = TRUE
    <3> DEFINE g == [r EXCEPT !.op = "get_batch_defaults"]
    <3>1. Lines(r) = <<<<g>>>>
      BY <1>4, <2>1 DEF Lines, BatchRequest
    <3>2. g \in GetBatch
      BY <1>4 DEF BatchRequest, GetBatch
    <3> HIDE DEF g
    <3> QED BY <3>1, <3>2, <1>1, OneLine
  <2>2. CASE r.apply_defaults = FALSE
    <3>1. Lines(r) = BatchLines(InitialDb, r) /\ r.rows \in Seq(NewUser) /\ InitialDb \in Db
      BY <1>4, <2>2, AclAssumption DEF Lines, BatchRequest
    <3> QED BY <3>1, BatchSound
  <2> QED BY <1>4, <2>1, <2>2 DEF BatchRequest
<1>5. CASE r.op = "reload_acl"
  <2>1. Lines(r) = <<Reload>>
    BY <1>5 DEF Lines
  <2>2. Plain(<<>>) /\ <<>> \o Reload = Reload
    BY ReloadIs, ConcatEmptySeq DEF Plain
  <2> QED BY <2>1, <2>2, ReloadOrdered, OneLine
<1>6. CASE r \in WriteRequest /\ r \notin NewUser
           /\ r.op \notin {"create_category", "delete_category", "update_settings"}
  <2>1. r.op \notin {"create_mqtt_user", "batch_create_mqtt_users", "reload_acl"}
    BY <1>6 DEF WriteRequest
  <2>2. Lines(r) = <<<<r>> \o Reload>>
    BY <1>6, <2>1 DEF Lines
  <2> QED BY <1>1, <1>6, <2>2, ReloadOrdered, OneLine
<1> QED BY <1>2, <1>3, <1>4, <1>5, <1>6 DEF Request

-----------------------------------------------------------------------------
(* The inductive invariant: what a task has read, and what the cache holds,  *)
(* is what some database of the log held, no older than the reload.          *)

TaskRow ==
  [lines : Seq(Line), users : SUBSET UserRow, topics : SUBSET TopicRow, rules : SUBSET RuleRow,
   since : Nat]
CacheRow ==
  [users : SUBSET UserRow, topics : SUBSET TopicRow, rules : SUBSET RuleRow, since : Nat]

Began(d, since) == since \in 1 .. Len(d)
HeldUsers(d, since, users)   == \E i \in since .. Len(d) : d[i].users = users
HeldTopics(d, since, topics) == \E i \in since .. Len(d) : d[i].topics = topics
HeldRules(d, since, rules)   == \E i \in since .. Len(d) : d[i].rules = rules

(* What has been read, in a log d. *)
Seen(d, row, read) ==
  /\ read # {} => "list_mqtt_users" \in read /\ Began(d, row.since)
  /\ "list_mqtt_users" \in read => HeldUsers(d, row.since, row.users)
  /\ "list_mqtt_topics" \in read => HeldTopics(d, row.since, row.topics)
  /\ "list_topic_acls" \in read => HeldRules(d, row.since, row.rules)

RowSound(d, row) ==
  /\ row \in TaskRow
  /\ \A i \in 2 .. Len(row.lines) : Ordered(row.lines[i], {})
  /\ row.lines # <<>> =>
       \E read \in SUBSET Reading : Ordered(row.lines[1], read) /\ Seen(d, row, read)

LogSound(d) == d \in Seq(Db) /\ Len(d) >= 1 /\ \A i \in 1 .. Len(d) : Good(d[i])

CacheSound(d, c) ==
  /\ c \in CacheRow /\ Began(d, c.since)
  /\ HeldUsers(d, c.since, c.users) /\ HeldTopics(d, c.since, c.topics)
  /\ HeldRules(d, c.since, c.rules)

AskSound(d, l) ==
  l.verdict = "asking" =>
    /\ l \in [name : Users, password : Passwords, since : Nat, verdict : {"asking"}]
    /\ Began(d, l.since)

IInv ==
  /\ LogSound(log) /\ CacheSound(log, cache) /\ AskSound(log, login)
  /\ DOMAIN task = Tasks /\ \A t \in Tasks : RowSound(log, task[t])

(* The log only grows. *)
Grows(d, e) ==
  Len(d) \in Nat /\ Len(e) \in Nat /\ Len(d) <= Len(e) /\ \A i \in 1 .. Len(d) : e[i] = d[i]

(* What some database held it still held when the log has grown. *)
LEMMA GrowsKeeps ==
  ASSUME NEW d, NEW e, Grows(d, e)
  PROVE  /\ \A row : RowSound(d, row) => RowSound(e, row)
         /\ \A c : CacheSound(d, c) => CacheSound(e, c)
         /\ \A l : AskSound(d, l) => AskSound(e, l)
<1>1. \A since \in Nat : Began(d, since) => Began(e, since)
  BY DEF Grows, Began
<1>2. \A since, i : since \in Nat /\ Began(d, since) /\ i \in since .. Len(d) =>
        i \in since .. Len(e) /\ e[i] = d[i]
  BY DEF Grows, Began
<1>3. \A since, x : since \in Nat /\ Began(d, since) =>
        /\ HeldUsers(d, since, x) => HeldUsers(e, since, x)
        /\ HeldTopics(d, since, x) => HeldTopics(e, since, x)
        /\ HeldRules(d, since, x) => HeldRules(e, since, x)
  BY <1>2 DEF HeldUsers, HeldTopics, HeldRules
<1>4. ASSUME NEW row \in TaskRow, NEW read, Seen(d, row, read)
      PROVE  Seen(e, row, read)
  <2>1. row.since \in Nat
    BY DEF TaskRow
  <2> QED BY <1>1, <1>3, <1>4, <2>1 DEF Seen
<1>5. \A row : RowSound(d, row) => RowSound(e, row)
  BY <1>4 DEF RowSound
<1>6. \A c : CacheSound(d, c) => CacheSound(e, c)
  <2> SUFFICES ASSUME NEW c, CacheSound(d, c) PROVE CacheSound(e, c)
    OBVIOUS
  <2>1. c.since \in Nat
    BY DEF CacheSound, CacheRow
  <2> QED BY <1>1, <1>3, <2>1 DEF CacheSound
<1>7. \A l : AskSound(d, l) => AskSound(e, l)
  <2> SUFFICES ASSUME NEW l, AskSound(d, l), l.verdict = "asking" PROVE AskSound(e, l)
    BY DEF AskSound
  <2>1. l.since \in Nat /\ Began(d, l.since)
    BY DEF AskSound
  <2> QED BY <1>1, <2>1 DEF AskSound
<1> QED BY <1>5, <1>6, <1>7

(* A line's first statement, and the lines when the rest of it is `line`.    *)
LEMMA FirstStatement ==
  ASSUME NEW d, NEW row, RowSound(d, row), row.lines # <<>>
  PROVE  /\ Head(row.lines) \in Line /\ Head(row.lines) = row.lines[1]
         /\ Head(Head(row.lines)) \in Statements /\ Head(Head(row.lines)) = row.lines[1][1]
<1>1. row.lines \in Seq(Line)
  BY DEF RowSound, TaskRow
<1>2. Head(row.lines) \in Line /\ Head(row.lines) = row.lines[1]
  BY <1>1, HeadTailProperties
<1>3. \A line \in Line : Head(line) \in Statements /\ Head(line) = line[1]
  BY HeadTailProperties DEF Line
<1> QED BY <1>2, <1>3

(* Lines that stay in order when the first has become `line`. *)
LEMMA LinesGo ==
  ASSUME NEW d, NEW row, RowSound(d, row), row.lines # <<>>,
         NEW line \in Seq(Statements), NEW lines,
         lines = IF line = <<>> THEN Tail(row.lines) ELSE <<line>> \o Tail(row.lines)
  PROVE  /\ lines \in Seq(Line)
         /\ \A i \in 2 .. Len(lines) : Ordered(lines[i], {})
         /\ lines # <<>> => IF line = <<>> THEN Ordered(lines[1], {}) ELSE lines[1] = line
<1> DEFINE L == row.lines
           T == Tail(row.lines)
           n == Len(row.lines)
<1>1. /\ n \in Nat /\ n >= 1 /\ T \in Seq(Line) /\ Len(T) = n - 1
      /\ \A i \in 1 .. n - 1 : T[i] = L[i + 1] /\ i + 1 \in 2 .. n
  <2>1. L \in Seq(Line) /\ n \in Nat /\ n >= 1
    BY DEF RowSound, TaskRow
  <2> QED BY <2>1, HeadTailProperties
<1>2. \A i \in 1 .. n - 1 : Ordered(T[i], {})
  BY <1>1 DEF RowSound
<1> HIDE DEF T, n
<1>3. CASE line = <<>>
  <2>1. lines = T
    BY <1>3 DEF T
  <2>2. T # <<>> => 1 \in 1 .. n - 1
    BY <1>1, EmptySeq
  <2>3. \A i \in 2 .. Len(T) : i \in 1 .. n - 1
    BY <1>1
  <2> QED BY <1>1, <1>2, <1>3, <2>1, <2>2, <2>3
<1>4. CASE line # <<>>
  <2>1. lines = <<line>> \o T /\ <<line>> \in Seq(Line) /\ Len(<<line>>) = 1 /\ <<line>>[1] = line
    BY <1>4 DEF T, Line
  <2>2. /\ lines \in Seq(Line) /\ Len(lines) = n
        /\ \A i \in 1 .. n : lines[i] = IF i <= 1 THEN <<line>>[i] ELSE T[i - 1]
    <3>1. /\ <<line>> \o T \in Seq(Line) /\ Len(<<line>> \o T) = Len(<<line>>) + Len(T)
          /\ \A i \in 1 .. Len(<<line>>) + Len(T) :
               (<<line>> \o T)[i] = IF i <= Len(<<line>>) THEN <<line>>[i] ELSE T[i - Len(<<line>>)]
      BY <1>1, <2>1, ConcatProperties
    <3>2. Len(<<line>>) + Len(T) = n
      BY <1>1, <2>1
    <3> QED BY <2>1, <3>1, <3>2
  <2>3. lines[1] = line
    BY <1>1, <2>1, <2>2
  <2>4. ASSUME NEW i \in 2 .. Len(lines) PROVE Ordered(lines[i], {})
    <3>1. i \in 1 .. n /\ ~(i <= 1) /\ i - 1 \in 1 .. n - 1
      BY <1>1, <2>2
    <3>2. lines[i] = T[i - 1]
      BY <2>2, <3>1
    <3> QED BY <1>2, <3>1, <3>2
  <2> QED BY <1>4, <2>2, <2>3, <2>4
<1> QED BY <1>3, <1>4

(* A row whose first line has become `line`. *)
LEMMA RowFrom ==
  ASSUME NEW d, NEW row, RowSound(d, row), row.lines # <<>>,
         NEW e, NEW new, NEW line \in Seq(Statements), NEW read \in SUBSET Reading,
         new.lines = IF line = <<>> THEN Tail(row.lines) ELSE <<line>> \o Tail(row.lines),
         new.lines \in Seq(Line) => new \in TaskRow,
         line # <<>> => Ordered(line, read) /\ Seen(e, new, read)
  PROVE  RowSound(e, new)
<1>1. /\ new.lines \in Seq(Line)
      /\ \A i \in 2 .. Len(new.lines) : Ordered(new.lines[i], {})
      /\ new.lines # <<>> => IF line = <<>> THEN Ordered(new.lines[1], {}) ELSE new.lines[1] = line
  BY LinesGo
<1>2. Seen(e, new, {}) /\ {} \in SUBSET Reading
  BY DEF Seen
<1>3. new.lines # <<>> =>
        \E r \in SUBSET Reading : Ordered(new.lines[1], r) /\ Seen(e, new, r)
  BY <1>1, <1>2
<1> QED BY <1>1, <1>3 DEF RowSound

(* A row with lines of its own. *)
LEMMA RowStarts ==
  ASSUME NEW e, NEW new \in TaskRow, LinesSound(new.lines)
  PROVE  RowSound(e, new)
<1>1. Seen(e, new, {}) /\ {} \in SUBSET Reading
  BY DEF Seen
<1>2. \A i \in 2 .. Len(new.lines) : i \in 1 .. Len(new.lines)
  BY DEF TaskRow
<1>3. new.lines # <<>> => 1 \in 1 .. Len(new.lines)
  <2>1. new.lines \in Seq(Line)
    BY DEF TaskRow
  <2> QED BY <2>1, EmptySeq
<1> QED BY <1>1, <1>2, <1>3 DEF RowSound, LinesSound

(* The database after a statement that writes. *)
LEMMA LogNext ==
  ASSUME NEW d, LogSound(d), NEW e, e = d \/ \E x : Good(x) /\ e = Append(d, x)
  PROVE  LogSound(e) /\ Grows(d, e)
<1>1. d \in Seq(Db) /\ Len(d) \in Nat /\ Len(d) >= 1
  BY DEF LogSound
<1>2. CASE e = d
  BY <1>1, <1>2 DEF Grows
<1>3. ASSUME NEW x, Good(x), e = Append(d, x) PROVE LogSound(e) /\ Grows(d, e)
  <2>1. x \in Db
    BY <1>3 DEF Good
  <2>2. /\ e \in Seq(Db) /\ Len(e) = Len(d) + 1 /\ e[Len(d) + 1] = x
        /\ \A i \in 1 .. Len(d) : e[i] = d[i]
    BY <1>1, <1>3, <2>1
  <2>3. \A i \in 1 .. Len(e) : Good(e[i])
    <3> SUFFICES ASSUME NEW i \in 1 .. Len(e) PROVE Good(e[i])
      OBVIOUS
    <3>1. i \in 1 .. Len(d) \/ i = Len(d) + 1
      BY <1>1, <2>2
    <3>2. CASE i \in 1 .. Len(d)
      <4>1. e[i] = d[i] /\ Good(d[i])
        BY <2>2, <3>2 DEF LogSound
      <4> QED BY <4>1
    <3>3. CASE i = Len(d) + 1
      BY <1>3, <2>2, <3>3
    <3> QED BY <3>1, <3>2, <3>3
  <2>4. Len(e) >= 1 /\ Len(e) \in Nat /\ Len(d) <= Len(e)
    BY <1>1, <2>2
  <2> QED BY <1>1, <2>2, <2>3, <2>4 DEF LogSound, Grows
<1> QED BY <1>2, <1>3

(* The database is the last of the log, and sound. *)
LEMMA DbGood ==
  ASSUME LogSound(log)
  PROVE  /\ Good(db) /\ db \in Db /\ Now \in Nat /\ Now >= 1 /\ db = log[Now]
         /\ Now = Len(log)
<1>1. Len(log) \in 1 .. Len(log)
  BY DEF LogSound
<1>2. Good(log[Len(log)])
  BY <1>1 DEF LogSound
<1> QED BY <1>1, <1>2 DEF db, Now, Good

(* A step of one task, which may write, keeps what is said of the others. *)
LEMMA TaskSteps ==
  ASSUME IInv, LogSound(log'), Grows(log, log'), NEW t \in Tasks, DOMAIN task' = Tasks,
         \A u \in Tasks \ {t} : task'[u] = task[u], RowSound(log', task'[t]),
         cache' = cache \/ CacheSound(log', cache'), login' = login
  PROVE  IInv'
<1>1. \A u \in Tasks : RowSound(log', task'[u])
  BY GrowsKeeps DEF IInv
<1>2. CacheSound(log', cache') /\ AskSound(log', login')
  BY GrowsKeeps DEF IInv
<1> QED BY <1>1, <1>2 DEF IInv

(* What IInv says of a task that has something to do, and of its statement. *)
LEMMA AtStatement ==
  ASSUME IInv, NEW t \in Tasks, ~Idle(t)
  PROVE  /\ RowSound(log, task[t]) /\ task[t] \in TaskRow /\ task[t].lines # <<>>
         /\ LogSound(log) /\ DOMAIN task = Tasks
         /\ Head(task[t].lines) \in Line /\ Head(task[t].lines) = task[t].lines[1]
         /\ Statement(t) \in Statements /\ Statement(t) = task[t].lines[1][1]
<1>1. RowSound(log, task[t]) /\ task[t].lines # <<>> /\ LogSound(log) /\ DOMAIN task = Tasks
  BY DEF IInv, Idle
<1>2. task[t] \in TaskRow
  BY <1>1 DEF RowSound
<1> QED BY <1>1, <1>2, FirstStatement DEF Statement

(* A request's lines are in order. *)
LEMMA StartStep ==
  ASSUME IInv, NEW h \in Handlers, NEW r \in Requests[h], Start(h, r)
  PROVE  IInv'
<1>1. h \in Tasks /\ RowSound(log, task[h]) /\ task[h] \in TaskRow /\ LogSound(log)
      /\ DOMAIN task = Tasks
  BY DEF IInv, Tasks, RowSound
<1>2. LinesSound(Lines(r))
  BY AclAssumption, LinesTyped
<1> DEFINE new == [task[h] EXCEPT !.lines = Lines(r)]
<1>3. new \in TaskRow /\ new.lines = Lines(r)
  BY <1>1, <1>2 DEF TaskRow, LinesSound
<1>4. task' = [task EXCEPT ![h] = new] /\ UNCHANGED <<log, cache, login>>
  BY DEF Start
<1> HIDE DEF new
<1>5. RowSound(log, new)
  BY <1>2, <1>3, RowStarts
<1>6. LogSound(log) /\ Grows(log, log)
  BY <1>1, LogNext
<1>7. DOMAIN task' = Tasks /\ task'[h] = new /\ \A u \in Tasks \ {h} : task'[u] = task[u]
  BY <1>1, <1>4
<1> QED BY <1>1, <1>4, <1>5, <1>6, <1>7, TaskSteps

(* The refresh task reloads. *)
LEMMA WakeStep ==
  ASSUME IInv, Wake
  PROVE  IInv'
<1>1. Refresh \in Tasks /\ RowSound(log, task[Refresh]) /\ task[Refresh] \in TaskRow
      /\ LogSound(log) /\ DOMAIN task = Tasks
  BY DEF IInv, Tasks, RowSound
<1>2. LinesSound(<<Reload>>)
  <2>1. Plain(<<>>) /\ <<>> \o Reload = Reload
    BY ReloadIs, ConcatEmptySeq DEF Plain
  <2> QED BY <2>1, ReloadOrdered, OneLine
<1> DEFINE new == [task[Refresh] EXCEPT !.lines = <<Reload>>]
<1>3. new \in TaskRow /\ new.lines = <<Reload>>
  BY <1>1, <1>2 DEF TaskRow, LinesSound
<1>4. task' = [task EXCEPT ![Refresh] = new] /\ UNCHANGED <<log, cache, login>>
  BY DEF Wake
<1> HIDE DEF new
<1>5. RowSound(log, new)
  BY <1>2, <1>3, RowStarts
<1>6. LogSound(log) /\ Grows(log, log)
  BY <1>1, LogNext
<1>7. DOMAIN task' = Tasks /\ task'[Refresh] = new
      /\ \A u \in Tasks \ {Refresh} : task'[u] = task[u]
  BY <1>1, <1>4
<1> QED BY <1>1, <1>4, <1>5, <1>6, <1>7, TaskSteps

(* The rest of a line after a statement that reads nothing. *)
LEMMA SeenStays ==
  ASSUME NEW d, NEW row, NEW read, Seen(d, row, read), NEW new,
         new.users = row.users, new.topics = row.topics, new.rules = row.rules,
         new.since = row.since
  PROVE  Seen(d, new, read)
BY DEF Seen

(* A statement that writes: the line goes on, or what is left of it is lost. *)
LEMMA WriteStepSound ==
  ASSUME IInv, NEW t \in Tasks, WriteStep(t)
  PROVE  IInv'
<1> DEFINE row == task[t]
           s   == Statement(t)
<1>1. ~Idle(t) /\ s.op \notin Reads /\ UNCHANGED <<cache, login>>
  BY DEF WriteStep
<1>2. /\ RowSound(log, row) /\ row \in TaskRow /\ row.lines # <<>>
      /\ LogSound(log) /\ DOMAIN task = Tasks
      /\ Head(row.lines) \in Line /\ Head(row.lines) = row.lines[1]
      /\ s \in Statements /\ s = row.lines[1][1]
  BY <1>1, AtStatement
<1>3. s \in WriteRequest \cup Default
  BY <1>1, <1>2 DEF Statements, GetDefaults, GetBatch, ReloadStep, Reads
<1>4. PICK line, e :
        /\ line = Tail(Head(row.lines)) \/ line = <<>>
        /\ task' = [task EXCEPT ![t].lines = IF line = <<>> THEN Tail(row.lines)
                                             ELSE <<line>> \o Tail(row.lines)]
        /\ log' = e /\ (e = log \/ \E x \in Write(db, s) : e = Append(log, x))
  <2>1. CASE \E x \in Write(db, s) : /\ log' = IF x = db THEN log ELSE Append(log, x)
                                     /\ task' = [task EXCEPT ![t].lines = Rest(t)]
    BY <2>1 DEF Rest, Go
  <2>2. CASE task' = [task EXCEPT ![t].lines = Drop(t)] /\ UNCHANGED log
    <3>1. task' = [task EXCEPT ![t].lines = IF <<>> = <<>> THEN Tail(row.lines)
                                            ELSE <<<<>>>> \o Tail(row.lines)]
      BY <2>2 DEF Drop
    <3> QED BY <2>2, <3>1
  <2> QED BY <2>1, <2>2 DEF WriteStep
<1>5. LogSound(e) /\ Grows(log, e)
  <2>1. Good(db)
    BY <1>2, DbGood
  <2>2. \A x \in Write(db, s) : Good(x)
    BY <1>3, <2>1, WriteKeeps
  <2> QED BY <1>2, <1>4, <2>2, LogNext
<1>6. PICK read \in SUBSET Reading : Ordered(row.lines[1], read) /\ Seen(log, row, read)
  BY <1>2 DEF RowSound
<1>7. /\ line \in Seq(Statements)
      /\ line # <<>> => Ordered(line, read)
  <2>1. {s.op} \cap Reading = {}
    BY <1>1 DEF Reads, Reading
  <2>2. /\ Tail(row.lines[1]) \in Seq(Statements)
        /\ Ordered(Tail(row.lines[1]), read \cup ({row.lines[1][1].op} \cap Reading))
    BY <1>2, <1>6, OrderedTail
  <2>3. read \cup ({row.lines[1][1].op} \cap Reading) = read
    BY <1>2, <2>1
  <2>4. Ordered(Tail(row.lines[1]), read)
    BY <2>2, <2>3
  <2>5. line = Tail(row.lines[1]) \/ line = <<>>
    BY <1>2, <1>4
  <2>6. <<>> \in Seq(Statements)
    OBVIOUS
  <2> HIDE DEF row, s
  <2> QED BY <2>2, <2>4, <2>5, <2>6
<1> DEFINE lines == IF line = <<>> THEN Tail(row.lines) ELSE <<line>> \o Tail(row.lines)
           new   == [row EXCEPT !.lines = lines]
<1>8. /\ task' = [task EXCEPT ![t] = new] /\ new.lines = lines
      /\ new.users = row.users /\ new.topics = row.topics /\ new.rules = row.rules
      /\ new.since = row.since /\ (lines \in Seq(Line) => new \in TaskRow)
  BY <1>2, <1>4 DEF TaskRow
<1> HIDE DEF new
<1>9. RowSound(log, new)
  <2>1. Seen(log, new, read)
    BY <1>6, <1>8, SeenStays
  <2> QED BY <1>2, <1>7, <1>8, <2>1, RowFrom
<1>10. RowSound(e, new)
  BY <1>5, <1>9, GrowsKeeps
<1>11. DOMAIN task' = Tasks /\ task'[t] = new /\ \A u \in Tasks \ {t} : task'[u] = task[u]
  BY <1>2, <1>8
<1> QED BY <1>1, <1>4, <1>5, <1>10, <1>11, TaskSteps

(* The templates are read, and the lines that apply them written out. *)
LEMMA DefaultsStep ==
  ASSUME IInv, NEW t \in Tasks, get_user_defaults(t)
  PROVE  IInv'
<1> DEFINE row == task[t]
           s   == Statement(t)
<1>1. ~Idle(t) /\ UNCHANGED <<log, cache, login>>
  BY DEF get_user_defaults, Doing
<1>2. /\ RowSound(log, row) /\ row \in TaskRow /\ row.lines # <<>>
      /\ LogSound(log) /\ DOMAIN task = Tasks /\ s \in Statements
  BY <1>1, AtStatement
<1>3. db \in Db
  BY <1>2, DbGood
<1>4. \E new : task' = [task EXCEPT ![t] = new] /\ RowSound(log, new)
  <2>1. CASE /\ s.op = "get_user_defaults"
             /\ task' = [task EXCEPT ![t].lines = Go(t, Defaults(db, s.username) \o Reload)]
    <3> DEFINE line == Defaults(db, s.username) \o Reload
               new  == [row EXCEPT !.lines = Go(t, line)]
    <3>1. s \in GetDefaults
      BY <1>2, <2>1 DEF Statements, WriteRequest, NewUser, Default, GetBatch, ReloadStep
    <3>2. s.username \in Users
      BY <3>1 DEF GetDefaults
    <3>3. line \in Line /\ Ordered(line, {})
      BY <1>3, <3>2, DefaultsPlain, ReloadOrdered
    <3>4. task' = [task EXCEPT ![t] = new]
      BY <2>1
    <3> HIDE DEF line
    <3>5. /\ new.lines = IF line = <<>> THEN Tail(row.lines) ELSE <<line>> \o Tail(row.lines)
          /\ new.lines \in Seq(Line) => new \in TaskRow
      BY <1>2 DEF TaskRow, Go
    <3> HIDE DEF new
    <3>6. Seen(log, new, {}) /\ {} \in SUBSET Reading /\ line \in Seq(Statements)
      BY <3>3 DEF Seen, Line
    <3>7. RowSound(log, new)
      BY <1>2, <3>3, <3>5, <3>6, RowFrom
    <3> QED BY <3>4, <3>7
  <2>2. CASE /\ s.op = "get_batch_defaults"
             /\ task' = [task EXCEPT ![t].lines = BatchLines(db, s)]
    <3> DEFINE new == [row EXCEPT !.lines = BatchLines(db, s)]
    <3>1. s \in GetBatch
      BY <1>2, <2>2 DEF Statements, WriteRequest, NewUser, Default, GetDefaults, ReloadStep
    <3>2. LinesSound(BatchLines(db, s))
      BY <1>3, <3>1, BatchSound DEF GetBatch
    <3>3. new \in TaskRow /\ new.lines = BatchLines(db, s)
      BY <1>2, <3>2 DEF TaskRow, LinesSound
    <3>4. task' = [task EXCEPT ![t] = new]
      BY <2>2
    <3> HIDE DEF new
    <3>5. RowSound(log, new)
      BY <3>2, <3>3, RowStarts
    <3> QED BY <3>4, <3>5
  <2> QED BY <2>1, <2>2 DEF get_user_defaults, Doing
<1>5. PICK new : task' = [task EXCEPT ![t] = new] /\ RowSound(log, new)
  BY <1>4
<1>6. DOMAIN task' = Tasks /\ task'[t] = new /\ \A u \in Tasks \ {t} : task'[u] = task[u]
  BY <1>2, <1>5
<1>7. LogSound(log') /\ Grows(log, log')
  BY <1>1, <1>2, LogNext
<1> QED BY <1>1, <1>5, <1>6, <1>7, TaskSteps

(* A statement of a reload: what it needs has been read. *)
LEMMA ReadFirst ==
  ASSUME NEW line \in Line, NEW read \in SUBSET Reading, Ordered(line, read)
  PROVE  /\ Needs(line[1].op) \subseteq read
         /\ line[1].op = "list_mqtt_users" => "list_mqtt_users" \notin read
<1>1. 1 \in 1 .. Len(line)
  BY EmptySeq DEF Line
<1>2. \A o \in Needs(line[1].op) : o \in read \/ \E j \in 1 .. 1 - 1 : line[j].op = o
  BY <1>1 DEF Ordered
<1> QED BY <1>1, <1>2 DEF Ordered

(* The three reads of a reload. *)
LEMMA ReadStep ==
  ASSUME IInv, NEW t \in Tasks, ReadUsers(t) \/ ReadTopics(t) \/ ReadRules(t)
  PROVE  IInv'
<1> DEFINE row  == task[t]
           op   == Statement(t).op
           line == Tail(Head(row.lines))
<1>1. ~Idle(t) /\ UNCHANGED <<log, cache, login>>
  BY DEF ReadUsers, ReadTopics, ReadRules, Doing
<1>2. /\ RowSound(log, row) /\ row \in TaskRow /\ row.lines # <<>>
      /\ LogSound(log) /\ DOMAIN task = Tasks
      /\ Head(row.lines) \in Line /\ Head(row.lines) = row.lines[1]
      /\ Statement(t) = row.lines[1][1]
  BY <1>1, AtStatement
<1>3. /\ db \in Db /\ Now \in Nat /\ Now >= 1 /\ db = log[Now] /\ Now = Len(log)
  BY <1>2, DbGood
<1>4. /\ db.users \in SUBSET UserRow /\ db.topics \in SUBSET TopicRow
      /\ db.rules \in SUBSET RuleRow
  BY <1>3 DEF Db
<1>5. PICK read \in SUBSET Reading : Ordered(row.lines[1], read) /\ Seen(log, row, read)
  BY <1>2 DEF RowSound
<1>6. /\ line \in Seq(Statements) /\ Ordered(line, read \cup ({op} \cap Reading))
      /\ Needs(op) \subseteq read /\ (op = "list_mqtt_users" => "list_mqtt_users" \notin read)
  BY <1>2, <1>5, OrderedTail, ReadFirst
<1> DEFINE lines == IF line = <<>> THEN Tail(row.lines) ELSE <<line>> \o Tail(row.lines)
<1>7. Rest(t) = lines
  BY DEF Rest, Go
<1> HIDE DEF line, lines
<1>8. row.since \in Nat
  BY <1>2 DEF TaskRow
<1>9. \E new : /\ task' = [task EXCEPT ![t] = new] /\ new.lines = lines
               /\ lines \in Seq(Line) => new \in TaskRow
               /\ Seen(log, new, read \cup ({op} \cap Reading))
  <2>1. CASE ReadUsers(t)
    <3> DEFINE new == [row EXCEPT !.lines = lines, !.users = db.users, !.since = Now]
    <3>1. op = "list_mqtt_users" /\ task' = [task EXCEPT ![t] = new]
      BY <1>7, <2>1 DEF ReadUsers, Doing
    <3>2. /\ new.lines = lines /\ new.users = db.users /\ new.since = Now
          /\ lines \in Seq(Line) => new \in TaskRow
      BY <1>2, <1>3, <1>4 DEF TaskRow
    <3>3. read \cup ({op} \cap Reading) = {"list_mqtt_users"}
      BY <1>5, <1>6, <3>1 DEF Seen, Reading
    <3> HIDE DEF new
    <3>4. Began(log, new.since) /\ HeldUsers(log, new.since, new.users)
      BY <1>3, <3>2 DEF Began, HeldUsers
    <3>5. Seen(log, new, {"list_mqtt_users"})
      BY <3>4 DEF Seen
    <3> QED BY <3>1, <3>2, <3>3, <3>5
  <2>2. CASE ReadTopics(t)
    <3> DEFINE new == [row EXCEPT !.lines = lines, !.topics = db.topics]
    <3>1. op = "list_mqtt_topics" /\ task' = [task EXCEPT ![t] = new]
      BY <1>7, <2>2 DEF ReadTopics, Doing
    <3>2. /\ new.lines = lines /\ new.topics = db.topics /\ new.since = row.since
          /\ new.users = row.users /\ new.rules = row.rules
          /\ lines \in Seq(Line) => new \in TaskRow
      BY <1>2, <1>4 DEF TaskRow
    <3>3. "list_mqtt_users" \in read
      BY <1>6, <3>1 DEF Needs
    <3> HIDE DEF new
    <3>4. Began(log, row.since)
      BY <1>5, <3>3 DEF Seen
    <3>5. HeldTopics(log, row.since, db.topics)
      BY <1>3, <1>8, <3>4 DEF Began, HeldTopics
    <3>6. Seen(log, new, read \cup {"list_mqtt_topics"})
      BY <1>5, <3>2, <3>3, <3>4, <3>5 DEF Seen
    <3>7. {op} \cap Reading = {"list_mqtt_topics"}
      BY <3>1 DEF Reading
    <3> QED BY <3>1, <3>2, <3>6, <3>7
  <2>3. CASE ReadRules(t)
    <3> DEFINE new == [row EXCEPT !.lines = lines, !.rules = db.rules]
    <3>1. op = "list_topic_acls" /\ task' = [task EXCEPT ![t] = new]
      BY <1>7, <2>3 DEF ReadRules, Doing
    <3>2. /\ new.lines = lines /\ new.rules = db.rules /\ new.since = row.since
          /\ new.users = row.users /\ new.topics = row.topics
          /\ lines \in Seq(Line) => new \in TaskRow
      BY <1>2, <1>4 DEF TaskRow
    <3>3. "list_mqtt_users" \in read
      BY <1>6, <3>1 DEF Needs
    <3> HIDE DEF new
    <3>4. Began(log, row.since)
      BY <1>5, <3>3 DEF Seen
    <3>5. HeldRules(log, row.since, db.rules)
      BY <1>3, <1>8, <3>4 DEF Began, HeldRules
    <3>6. Seen(log, new, read \cup {"list_topic_acls"})
      BY <1>5, <3>2, <3>3, <3>4, <3>5 DEF Seen
    <3>7. {op} \cap Reading = {"list_topic_acls"}
      BY <3>1 DEF Reading
    <3> QED BY <3>1, <3>2, <3>6, <3>7
  <2> QED BY <2>1, <2>2, <2>3
<1>10. PICK new : /\ task' = [task EXCEPT ![t] = new] /\ new.lines = lines
                  /\ lines \in Seq(Line) => new \in TaskRow
                  /\ Seen(log, new, read \cup ({op} \cap Reading))
  BY <1>9
<1>11. RowSound(log, new)
  <2>1. read \cup ({op} \cap Reading) \in SUBSET Reading
    OBVIOUS
  <2> HIDE DEF row, op
  <2> QED BY <1>2, <1>6, <1>10, <2>1, RowFrom DEF lines, row
<1>12. DOMAIN task' = Tasks /\ task'[t] = new /\ \A u \in Tasks \ {t} : task'[u] = task[u]
  BY <1>2, <1>10
<1>13. LogSound(log') /\ Grows(log, log')
  BY <1>1, <1>2, LogNext
<1> QED BY <1>1, <1>11, <1>12, <1>13, TaskSteps

(* What is installed has all been read. *)
LEMMA InstallStep ==
  ASSUME IInv, NEW t \in Tasks, Install(t)
  PROVE  IInv'
<1> DEFINE row  == task[t]
           line == Tail(Head(row.lines))
<1>1. ~Idle(t) /\ UNCHANGED <<log, login>> /\ Statement(t).op = "install"
  BY DEF Install, Doing
<1>2. /\ RowSound(log, row) /\ row \in TaskRow /\ row.lines # <<>>
      /\ LogSound(log) /\ DOMAIN task = Tasks
      /\ Head(row.lines) \in Line /\ Head(row.lines) = row.lines[1]
      /\ Statement(t) = row.lines[1][1]
  BY <1>1, AtStatement
<1>3. PICK read \in SUBSET Reading : Ordered(row.lines[1], read) /\ Seen(log, row, read)
  BY <1>2 DEF RowSound
<1>4. line = <<>>
  BY <1>1, <1>2, <1>3, OrderedTail
<1>5. Needs("install") \subseteq read
  BY <1>1, <1>2, <1>3, ReadFirst
<1>6. Reading \subseteq read
  BY <1>5 DEF Needs
<1>7. CacheSound(log, cache')
  <2>1. cache' = [users |-> row.users, topics |-> row.topics, rules |-> row.rules,
                  since |-> row.since]
    BY DEF Install
  <2>2. cache' \in CacheRow
    BY <1>2, <2>1 DEF TaskRow, CacheRow
  <2>3. /\ Began(log, row.since) /\ HeldUsers(log, row.since, row.users)
        /\ HeldTopics(log, row.since, row.topics) /\ HeldRules(log, row.since, row.rules)
    BY <1>3, <1>6 DEF Seen, Reading
  <2> QED BY <2>1, <2>2, <2>3 DEF CacheSound
<1> DEFINE new == [Nothing EXCEPT !.lines = Tail(row.lines)]
<1>8. task' = [task EXCEPT ![t] = new]
  BY <1>4 DEF Install, Rest, Go
<1>9. new.lines = Tail(row.lines) /\ (new.lines \in Seq(Line) => new \in TaskRow)
  BY DEF Nothing, TaskRow
<1> HIDE DEF new
<1>10. RowSound(log, new)
  <2>1. <<>> \in Seq(Statements) /\ {} \in SUBSET Reading
    OBVIOUS
  <2> QED BY <1>2, <1>9, <2>1, RowFrom
<1>11. DOMAIN task' = Tasks /\ task'[t] = new /\ \A u \in Tasks \ {t} : task'[u] = task[u]
  BY <1>2, <1>8
<1>12. LogSound(log') /\ Grows(log, log')
  BY <1>1, <1>2, LogNext
<1> QED BY <1>1, <1>7, <1>10, <1>11, <1>12, TaskSteps

(* What a task had read is forgotten with its line. *)
LEMMA FailStep ==
  ASSUME IInv, NEW t \in Tasks, Fail(t)
  PROVE  IInv'
<1> DEFINE row == task[t]
           new == [Nothing EXCEPT !.lines = Tail(row.lines)]
<1>1. ~Idle(t) /\ UNCHANGED <<log, cache, login>>
  BY DEF Fail
<1>2. /\ RowSound(log, row) /\ row \in TaskRow /\ row.lines # <<>>
      /\ LogSound(log) /\ DOMAIN task = Tasks
  BY <1>1, AtStatement
<1>3. task' = [task EXCEPT ![t] = new]
  BY DEF Fail, Drop
<1>4. new.lines = Tail(row.lines) /\ (new.lines \in Seq(Line) => new \in TaskRow)
  BY DEF Nothing, TaskRow
<1> HIDE DEF new
<1>5. RowSound(log, new)
  <2>1. <<>> \in Seq(Statements) /\ {} \in SUBSET Reading
    OBVIOUS
  <2> QED BY <1>2, <1>4, <2>1, RowFrom
<1>6. DOMAIN task' = Tasks /\ task'[t] = new /\ \A u \in Tasks \ {t} : task'[u] = task[u]
  BY <1>2, <1>3
<1>7. LogSound(log') /\ Grows(log, log')
  BY <1>1, <1>2, LogNext
<1> QED BY <1>1, <1>5, <1>6, <1>7, TaskSteps

(* A login notes how old the cache is, and keeps it while it asks. *)
LEMMA LoginStep ==
  ASSUME IInv, (\E l \in Logins : Login(l.name, l.password)) \/ Ask
  PROVE  IInv'
<1>1. UNCHANGED <<log, cache, task>>
  BY DEF Login, Ask
<1>2. AskSound(log, login')
  <2>1. CASE Ask
    <3>1. login \in [name : Users, password : Passwords, since : Nat, verdict : {"asking"}]
      BY <2>1 DEF Ask, IInv, AskSound
    <3>2. login'.verdict # "asking"
      BY <2>1, <3>1 DEF Ask, Answer
    <3> QED BY <3>2 DEF AskSound
  <2>2. ASSUME NEW l \in Logins, Login(l.name, l.password) PROVE AskSound(log, login')
    <3>1. l.name \in Users /\ l.password \in Passwords
      BY AclAssumption
    <3>2. cache.since \in Nat /\ Began(log, cache.since)
      BY DEF IInv, CacheSound, CacheRow
    <3>3. PICK v : login' = [name |-> l.name, password |-> l.password, since |-> cache.since,
                             verdict |-> v]
      BY <2>2 DEF Login
    <3>4. login'.verdict = v /\ login'.since = cache.since
      BY <3>3
    <3>5. v = "asking" =>
            login' \in [name : Users, password : Passwords, since : Nat, verdict : {"asking"}]
      BY <3>1, <3>2, <3>3
    <3> QED BY <3>2, <3>4, <3>5 DEF AskSound
  <2> QED BY <2>1, <2>2
<1> QED BY <1>1, <1>2 DEF IInv

(* IInv holds at the start and every step keeps it. *)
LEMMA InductiveInit == Init => IInv
<1> SUFFICES ASSUME Init PROVE IInv
  OBVIOUS
<1>1. InitialDb \in Db /\ Good(InitialDb)
  BY AclAssumption DEF Good
<1>2. log = <<InitialDb>> /\ Len(log) = 1 /\ log[1] = InitialDb /\ log \in Seq(Db)
  BY <1>1 DEF Init
<1>3. LogSound(log)
  BY <1>1, <1>2 DEF LogSound
<1>4. CacheSound(log, cache)
  <2>1. cache = [users |-> InitialDb.users, topics |-> InitialDb.topics,
                 rules |-> InitialDb.rules, since |-> 1]
    BY DEF Init
  <2>2. cache \in CacheRow
    BY <1>1, <2>1 DEF CacheRow, Db
  <2>3. cache.since = 1 /\ 1 \in 1 .. Len(log) /\ 1 \in cache.since .. Len(log)
    BY <1>2, <2>1
  <2> QED BY <1>2, <2>1, <2>2, <2>3 DEF CacheSound, Began, HeldUsers, HeldTopics, HeldRules
<1>5. AskSound(log, login)
  BY DEF Init, AskSound
<1>6. ASSUME NEW t \in Tasks PROVE RowSound(log, task[t])
  <2>1. task[t] = Nothing
    BY DEF Init
  <2>2. Nothing \in TaskRow /\ Nothing.lines = <<>>
    BY DEF Nothing, TaskRow
  <2>3. LinesSound(<<>>)
    BY DEF LinesSound
  <2> QED BY <2>1, <2>2, <2>3, RowStarts
<1>7. DOMAIN task = Tasks
  BY DEF Init
<1> QED BY <1>3, <1>4, <1>5, <1>6, <1>7 DEF IInv

LEMMA InductiveNext == IInv /\ [Next]_vars => IInv'
<1> SUFFICES ASSUME IInv, [Next]_vars PROVE IInv'
  OBVIOUS
<1>1. ASSUME NEW t \in Tasks, Step(t) PROVE IInv'
  BY <1>1, WriteStepSound, DefaultsStep, ReadStep, InstallStep, FailStep DEF Step
<1>2. CASE UNCHANGED vars
  BY <1>2 DEF vars, IInv
<1> QED BY <1>1, <1>2, StartStep, WakeStep, LoginStep DEF Next

LEMMA Inductive == Spec => []IInv
<1> QED BY InductiveInit, InductiveNext, PTL DEF Spec

-----------------------------------------------------------------------------
(* Whatever the handlers do, and whichever of their statements fail, the      *)
(* database keeps its unique keys and references (migrations/001_init.sql):   *)
(* no rule and no topic is left to a user that is gone.                      *)
THEOREM TypeCorrect == Spec => []TypeOK
<1>1. IInv => TypeOK
  BY DbGood DEF IInv, TypeOK, Good
<1> QED BY <1>1, Inductive, PTL

(* Every login is answered as one database would have answered it that was   *)
(* current after the cache's reload began (src/acl/mod.rs:94-109), however    *)
(* the handlers, the reloads and the login are interleaved.                  *)
THEOREM LoginsHonest == Spec => LoginHonest
<1> DEFINE A == login'.verdict \in {"yes", "no"} =>
                  \E i \in login'.since .. Now :
                    login'.verdict = Answer(Admits(log[i].users, login'.name, login'.password))
<1>1. IInv /\ [Next]_vars => [A]_login
  <2> SUFFICES ASSUME IInv, Next, login' # login, login'.verdict \in {"yes", "no"}
               PROVE  \E i \in login'.since .. Now :
                        login'.verdict = Answer(Admits(log[i].users, login'.name, login'.password))
    BY DEF vars
  <2>1. (\E l \in Logins : Login(l.name, l.password)) \/ Ask
    BY DEF Next, Start, Wake, Step, WriteStep, get_user_defaults, ReadUsers, ReadTopics, ReadRules,
           Install, Fail
  <2>2. LogSound(log) /\ Now \in Nat /\ Now = Len(log) /\ db = log[Now]
    BY DbGood DEF IInv
  <2>3. ASSUME NEW l \in Logins, Login(l.name, l.password)
        PROVE  \E i \in login'.since .. Now :
                 login'.verdict = Answer(Admits(log[i].users, login'.name, login'.password))
    <3> DEFINE cached == Cached(cache.users, l.name)
               yes    == \E r \in cached : r.password_hash = l.password
    <3>1. login' = [name |-> l.name, password |-> l.password, since |-> cache.since,
                    verdict |-> IF cached = {} THEN "asking" ELSE Answer(yes)]
      BY <2>3 DEF Login
    <3>2. login'.verdict = Answer(yes)
      BY <3>1
    <3>3. PICK i \in cache.since .. Now : log[i].users = cache.users
      BY <2>2 DEF IInv, CacheSound, HeldUsers
    <3>4. yes <=> Admits(log[i].users, l.name, l.password)
      BY <3>3 DEF Admits, Cached
    <3>5. Answer(yes) = Answer(Admits(log[i].users, l.name, l.password))
      BY <3>4 DEF Answer
    <3>6. login'.name = l.name /\ login'.password = l.password /\ login'.since = cache.since
      BY <3>1
    <3> HIDE DEF yes
    <3> QED BY <3>2, <3>3, <3>5, <3>6
  <2>4. CASE Ask
    <3>1. /\ login \in [name : Users, password : Passwords, since : Nat, verdict : {"asking"}]
          /\ Began(log, login.since)
      BY <2>4 DEF Ask, IInv, AskSound
    <3>2. \/ login' = [login EXCEPT !.verdict =
                         Answer(Admits(db.users, login.name, login.password))]
          \/ login' = [login EXCEPT !.verdict = "failed"]
      BY <2>4 DEF Ask
    <3>3. /\ login'.name = login.name /\ login'.password = login.password
          /\ login'.since = login.since
          /\ login'.verdict = Answer(Admits(db.users, login.name, login.password))
      BY <3>1, <3>2
    <3>4. Now \in login'.since .. Now
      BY <2>2, <3>1, <3>3 DEF Began
    <3> QED BY <2>2, <3>3, <3>4
  <2> QED BY <2>1, <2>3, <2>4
<1> QED BY <1>1, Inductive, PTL DEF Spec, LoginHonest

(* What a rule or a registered topic that covers a request says of the       *)
(* topics the request reaches.                                               *)
LEMMA Covers ==
  ASSUME NEW pattern \in Patterns, NEW target \in Patterns
  PROVE  /\ subscribe_allowed(pattern, target) => Matched[target] \subseteq Matched[pattern]
         /\ publish_allowed(pattern, target) => target \in Matched[pattern]
         /\ registered_covers(pattern, target) =>
              \/ pattern = target
              \/ /\ Matched[target] \subseteq Matched[pattern]
                 /\ target = <<>> \/ target[1] # "$" => target \in Matched[pattern]
<1>1. /\ pattern \in Seq(STRING) /\ target \in Seq(STRING)
      /\ \A topic \in Patterns : topic \in Seq(STRING)
  BY AclAssumption
<1>2. \A filter \in Patterns : Matched[filter] = {topic \in Patterns : matches(topic, filter)}
  BY DEF Matched
<1>3. EndsInHash(pattern) /\ StartsWith(target, Before(pattern)) =>
        Matched[target] \subseteq Matched[pattern]
  BY <1>1, <1>2, SubscribeCovered
<1>4. /\ EndsInHash(pattern) /\ StartsWith(target, Before(pattern))
      /\ target = <<>> \/ target[1] # "$"
      => target \in Matched[pattern]
  BY <1>1, <1>2, PrefixMatches
<1> QED BY <1>2, <1>3, <1>4 DEF subscribe_allowed, publish_allowed, registered_covers

(* The cache never grants more than the user's rules, and the registered     *)
(* topics, of databases that were current after its reload began             *)
(* (src/acl/mod.rs:115-152): for any patterns, rules and interleaving.        *)
THEOREM GrantsCovered == Spec => []GrantsCover
<1>1. IInv => GrantsCover
  <2> SUFFICES ASSUME IInv, NEW name \in Users, NEW target \in Patterns,
                      NEW op \in {"subscribe", "publish"},
                      check_acl(cache.topics, cache.rules, name, target, op)
               PROVE  /\ \E i \in cache.since .. Now :
                           Reached(target, op) \subseteq
                             UNION {Matched[r.topic_pattern] :
                                      r \in {q \in log[i].rules : q.username = name /\ May(q, op)}}
                      /\ Enforce => \E i \in cache.since .. Now : \E r \in log[i].topics :
                                      \/ r.topic = target
                                      \/ Reached(target, op) \subseteq Matched[r.topic]
    BY DEF GrantsCover
  <2>1. /\ cache.topics \subseteq TopicRow /\ cache.rules \subseteq RuleRow
        /\ \E i \in cache.since .. Len(log) : log[i].topics = cache.topics
        /\ \E i \in cache.since .. Len(log) : log[i].rules = cache.rules
    BY DEF IInv, CacheSound, CacheRow, HeldTopics, HeldRules
  <2>2. PICK r \in cache.rules :
          /\ r.username = name
          /\ \/ op = "subscribe" /\ r.can_subscribe /\ subscribe_allowed(r.topic_pattern, target)
             \/ op = "publish" /\ r.can_publish /\ publish_allowed(r.topic_pattern, target)
    BY DEF check_acl
  <2>3. r.topic_pattern \in Patterns /\ May(r, op)
    BY <2>1, <2>2 DEF RuleRow, May
  <2>4. Reached(target, op) \subseteq Matched[r.topic_pattern]
    BY <2>2, <2>3, Covers DEF Reached
  <2>5. \E i \in cache.since .. Now :
          Reached(target, op) \subseteq
            UNION {Matched[q.topic_pattern] :
                     q \in {q \in log[i].rules : q.username = name /\ May(q, op)}}
    <3>1. PICK i \in cache.since .. Now : log[i].rules = cache.rules
      BY <2>1 DEF Now
    <3>2. r \in {q \in log[i].rules : q.username = name /\ May(q, op)}
      BY <2>2, <2>3, <3>1
    <3> QED BY <2>4, <3>2
  <2>6. ASSUME Enforce
        PROVE  \E i \in cache.since .. Now : \E q \in log[i].topics :
                 q.topic = target \/ Reached(target, op) \subseteq Matched[q.topic]
    <3>1. PICK q \in cache.topics :
            \/ registered_covers(q.topic, target)
            \/ op = "subscribe" /\ subscribe_allowed(q.topic, target)
      BY <2>6 DEF check_acl, Registered
    <3>2. q.topic \in Patterns
      BY <2>1 DEF TopicRow
    <3>3. op = "publish" => target = <<>> \/ target[1] # "$"
      BY <2>2 DEF publish_allowed, matches
    <3>4. q.topic = target \/ Reached(target, op) \subseteq Matched[q.topic]
      BY <3>1, <3>2, <3>3, Covers DEF Reached
    <3>5. PICK i \in cache.since .. Now : log[i].topics = cache.topics
      BY <2>1 DEF Now
    <3> QED BY <3>4, <3>5
  <2> QED BY <2>5, <2>6
<1> QED BY <1>1, Inductive, PTL

=============================================================================
