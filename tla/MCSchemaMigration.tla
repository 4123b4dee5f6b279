------------------------- MODULE MCSchemaMigration -------------------------
(* Instances of SchemaMigration for TLC: excerpts of migrations().         *)
EXTENDS SchemaMigration, TLC

CONSTANTS users, workspace_memberships, blueprints, user_index, lastUpdate, source

\* Tables, an index, columns, and a table that is dropped and made anew.
MixedTables ==
    <<Create(workspace_memberships), Index(workspace_memberships, user_index),
      Create(users), Column(workspace_memberships, lastUpdate),
      Column(workspace_memberships, source), Drop(blueprints), Create(blueprints)>>

=============================================================================
