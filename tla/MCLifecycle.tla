---------------------------- MODULE MCLifecycle -----------------------------
(***************************************************************************)
(* An instance of Lifecycle for TLC: manifests with one bot, with another  *)
(* user and another database, without Twitter, and documents that are      *)
(* malformed or name a database that cannot be opened.                     *)
(***************************************************************************)
EXTENDS Lifecycle, TLC

IntNode(v) == [t |-> "int", v |-> v]
StrNode(v) == [t |-> "str", v |-> v]
SeqNode(v) == [t |-> "seq", v |-> v]

RuleNode(outbox, topics) == [filter |-> {}, exclude |-> {}, outbox |-> outbox, topics |-> topics]
Twitter(user, streams) == {[client |-> "app", user |-> user, stream |-> streams, list |-> TRUE]}
Document(rule, database, twitter) ==
    [rule |-> {rule}, database_url |-> database, websub |-> {}, twitter |-> twitter,
     skip_duplicate |-> FALSE]

Absolute(name) == [absolute |-> TRUE, path |-> <<name>>]
Relative(name) == [absolute |-> FALSE, path |-> <<name>>]

Bot == Document(<<RuleNode(IntNode("a"), <<StrNode("feed")>>)>>, {}, Twitter("a", TRUE))
OtherBot ==
    Document(<<RuleNode(SeqNode(<<IntNode("a")>>), <<StrNode("feed"), IntNode("u")>>)>>,
             {Absolute("other")}, Twitter("b", FALSE))
NoTwitter == Document(<<>>, {}, {})
NoDatabase == Document(<<RuleNode(IntNode("a"), <<StrNode("feed")>>)>>, {Relative("db")}, Twitter("a", TRUE))
Malformed == Document(<<RuleNode(StrNode("a"), <<StrNode("feed")>>)>>, {}, Twitter("a", TRUE))

OneDocuments ==
    [bot |-> Bot, other |-> OtherBot, none |-> NoTwitter, unopenable |-> NoDatabase,
     malformed |-> Malformed]
OnePath == <<"Pipitor.toml">>
OneDatabases == {Absolute("default"), Absolute("other")}
OneDefault == Absolute("default")
OneTables == {[url \in OneDatabases |-> IF url = OneDefault THEN {"a"} ELSE {"b"}]}
Symmetry == Permutations(Tasks)

==============================================================================
