----------------------------- MODULE MCRestore -----------------------------
(* Two archives, an old one with the master key and one without, and a plain *)
(* database.                                                                 *)
EXTENDS Restore

MCBackups == {"old", "new", "plain"}
MCDatabases == {"plain"}
MCBundle(b) ==
  CASE b = "old" -> {"db", "assets", "master", "analytics"}
    [] b = "new" -> {"db", "analytics"}
    [] b = "plain" -> {"db"}
=============================================================================
