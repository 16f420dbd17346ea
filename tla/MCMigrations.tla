---------------------------- MODULE MCMigrations ----------------------------
(* Databases of every age: new, of every version step, with the rows the   *)
(* migrations are about, and the ones a server must refuse.                *)
EXTENDS Migrations

MCReceipts == (1 .. 4) \X Users

Table(keys, filled) == [k \in keys |-> IF k \in DOMAIN filled THEN filled[k] ELSE None]
Only(k, v) == [x \in {k} |-> v]
Both(k, v, l, w) == [x \in {k, l} |-> IF x = k THEN v ELSE w]

(* a is cached as joined under the wrong key, b under the right one.       *)
Old(version, markers) ==
  [version |-> version, markers |-> markers, accounts |-> {"server"} \cup Users,
   admin_room |-> {}, has_state |-> TRUE, referenced |-> Events,
   member |-> [a |-> Member("join"), b |-> Member("leave")],
   tables |->
     [rules |-> Both("a", IF version < 12 THEN "old" ELSE "renamed", "b", "renamed"),
      joined |-> Table({"one", "two"} \X Users,
                       IF "separator" \in markers THEN Only(<<"one", "a">>, "row")
                       ELSE Both(<<"two", "a">>, "row", <<"one", "b">>, "row")),
      leftstate |-> Table(Users, Only("b", "corrupt")),
      invites |-> Table(Users, Only("a", "corrupt")),
      references |-> Table({"joint", "split"} \X Events,
                           Both(<<IF version < 17 THEN "joint" ELSE "split", "e1">>, "row",
                                <<"split", "e2">>, "row")),
      receipts |-> Table(MCReceipts, [x \in {<<1, "a">>, <<2, "a">>, <<3, "b">>, <<4, "a">>} |-> "row"]),
      profile |-> IF "profile" \in markers THEN Both("tz", "json", "pronouns", None)
                                           ELSE Both("tz", "raw", "pronouns", "raw")]]

Invited(d) ==
  [d EXCEPT !.member = [a |-> Member("invite"), b |-> [Member("invite") EXCEPT !.sender = "remote"]],
            !.tables.joined = Table({"one", "two"} \X Users, << >>),
            !.tables.invites = Both("a", "corrupt", "b", "empty")]
Stateless(d) ==
  [d EXCEPT !.has_state = FALSE, !.member = [u \in Users |-> Member(None)],
            !.tables.joined = Table({"one", "two"} \X Users, << >>)]
New == [Old(0, {}) EXCEPT !.accounts = {}, !.referenced = {},
          !.member = [u \in Users |-> Member(None)],
          !.tables = [t \in DOMAIN @ |-> [k \in DOMAIN @[t] |-> None]]]
MCDatabases ==
  {Old(11, {}), Old(12, {"media"}), Old(13, {}), Old(16, {"references", "receipts"}),
   Invited(Old(13, {})), Stateless(Old(13, {})), New,
   Old(17, {"media", "separator", "joined", "references", "receipts"}),
   Old(18, {"media", "separator", "joined", "references", "receipts", "profile"}),
   Old(10, {}), Old(19, {}), [Old(13, {}) EXCEPT !.accounts = Users],
   [Old(11, {}) EXCEPT !.tables.rules = Both("a", "old", "b", None)]}
=============================================================================
