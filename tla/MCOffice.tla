-------------------------------- MODULE MCOffice --------------------------------
(***************************************************************************)
(* Values of the constants of Office: small instances of its seven parts,  *)
(* which one run explores side by side.                                    *)
(***************************************************************************)
EXTENDS Office

---------------------------------------------------------------------------------
(* The wizard: a subject and bodies with and without a field, two kinds of  *)
(* templates, data files with separators and quotes in their values         *)
Lit(c) == [var |-> <<>>, lit |-> <<c>>]
Var(n) == [var |-> n, lit |-> <<>>]
Plain == <<Lit("h")>>
WithA == <<Lit("h"), Var(<<"a">>)>>
MCSubjects == {<<Var(<<"a">>)>>}
MCBodies ==
  [i \in {"nothing", "t1", "t2", "m1", "f1"} |->
     CASE i = "t1" -> [text |-> WithA, html |-> WithA]
       [] i = "t2" -> [text |-> Plain, html |-> <<>>]
       [] i = "m1" -> [text |-> <<>>, html |-> <<Var(<<"e">>)>>]
       [] i = "f1" -> [text |-> Plain, html |-> WithA]
       [] i = "nothing" -> [text |-> <<>>, html |-> <<>>]]
Quote == "\""
MCDataFiles ==
  [i \in {"two", "quoted", "one"} |->
     CASE i = "two"    -> <<"e", ",", "a", "\n", "z", ",", "c", "\n", "x", ",", Quote, "b", Quote, Quote,
                            "\n", "b", Quote, "\n", "y", ",", "c">>
       [] i = "quoted" -> <<"e", ",", Quote, "a", ",", "b", Quote, "\n", "x", ",", "c", "\n">>
       [] i = "one"    -> <<"x", "\n", "\n", "y">>]
MCLists == [i \in {"p1"} |-> <<"y", "\n", "\n", "x", ",", "y">>]

---------------------------------------------------------------------------------
(* The tags: one below another, a name with a separator in it to rename to  *)
MCFirstTags ==
  [i \in {1, 2} |-> IF i = 1 THEN [name |-> <<"a">>, parent |-> 0] ELSE [name |-> <<"d">>, parent |-> 1]]

(* The panel: two messages, one unread with a tag                           *)
MCFirstMail ==
  [m \in {"m1", "m2"} |-> IF m = "m1" THEN [status |-> "unread", tags |-> {1}]
                          ELSE [status |-> "read", tags |-> {}]]

---------------------------------------------------------------------------------
(* The users: who runs the program, a user of the mail, a group             *)
Role(n, l, c, p, g) ==
  [name |-> n, login |-> l, super |-> FALSE, creates |-> c, password |-> {}, privs |-> p, groups |-> g]
MCFirstRoles ==
  [o \in 1..3 |-> CASE o = 1 -> Role("me", TRUE, TRUE, {"connect"}, {3})
                    [] o = 2 -> Role("bob", TRUE, FALSE, {"connect"}, {3})
                    [] o = 3 -> Role("staff", FALSE, FALSE, {"connect", "select", "update"}, {})]
MCFirstUsers == [u \in 1..1 |-> [login |-> "bob", name |-> "Bob", email |-> "b@x"]]
MCPermissions ==
  [a \in {"read", "update", "trash"} |-> CASE a = "read" -> {"select"} [] a = "update" -> {"update"}
                                           [] a = "trash" -> {"update", "trash"}]

---------------------------------------------------------------------------------
(* The imports: a file of two messages, the second with a long line, and a  *)
(* file that is no mailbox; an import that was stopped is there             *)
Mbox == << <<"From">>, <<"a">>, <<"From">>, <<"head", "b">> >>
Stopped == [file |-> Mbox, status |-> 2, stored |-> << <<"a">>, <<"head", "b">> >>, done |-> 0,
            auto_purge |-> TRUE]
MCFiles == {Mbox, << <<"a">> >>}
MCFirstImports == {<<Stopped>>}

(* The wizard's other constants, which a configuration cannot write         *)
MCAddresses == {<<"x">>, <<"y">>}
(* Of the tags                                                              *)
MCTagNames == {<<"b", "-", "c">>}
MCNewName == <<"n">>
(* Of the users                                                             *)
MCAbilities == <<"read", "update", "trash">>
=================================================================================
