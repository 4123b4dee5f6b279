------------------------- MODULE MCPermissionCheck -------------------------
(* The instance of PermissionCheck for TLC: three families of tables.      *)
EXTENDS PermissionCheck, TLC

CONSTANTS r1, r2, r3, p1, p2, m1, g1, g2, a1, e1, bad, v1, v2

\* e1 is an address; bad is an entry that does not parse.
MCCovers == (e1 :> {a1}) @@ (bad :> {})
MCOptions == {None, {}, {v1}, {v2}, {v1, v2}}

Free == [needs |-> {}, allow |-> {}, block |-> {}]
Checked == [Free EXCEPT !.needs = {m1}]
Grouped == {[Free EXCEPT !.allow = {g1, g2}],
            [Free EXCEPT !.allow = {g1}, !.block = {g2}]}
NoGroups == [g \in Groups |-> None]

\* Tables in which only the given cells have a row, with the given options.
Cells(rs, ps, os) ==
    {[x \in Roles \X Permissions |-> IF x \in rs \X ps THEN f[x] ELSE None] :
        f \in [rs \X ps -> [allow : BOOLEAN, options : os] \cup {None}]}

\* Rows of three roles for one permission, with all options.
Merged == [grants : Cells(Roles, {p1}, MCOptions),
           conds : {[r \in Roles |-> Free]},
           groups : {NoGroups}]

\* Two roles with conditions on groups of any entries.
Conditional == [grants : Cells({r1, r2}, {p1}, {None}),
                conds : {f \in [Roles -> {Free, Checked} \cup Grouped] : f[r3] = Free},
                groups : [Groups -> (SUBSET Entries) \cup {None}]]

\* Two roles and two permissions.
Several == [grants : Cells({r1, r2}, {p1, p2}, {None}),
            conds : {f \in [Roles -> {Free, Checked}] : f[r3] = Free},
            groups : {NoGroups}]

MCContents == Merged \cup Conditional \cup Several
=============================================================================
