------------------------------ MODULE MCBackint ------------------------------
(* Three commands over one data file, backed up in two chunks, and one pipe; an
   input may break off with a malformed line. *)
EXTENDS Backint, TLC

Req(op, file, id) == [op |-> op, file |-> file, id |-> id, log |-> FALSE]
File == Req("FILE", "data", 0)
Pipe == Req("PIPE", "pipe", 0)
Bad  == Req("malformed", "", 0)

Backups == {[fn |-> "BACKUP", lines |-> s] : s \in {<<File, Pipe>>, <<File, Bad>>}}

Deletes == {[fn |-> "DELETE", lines |-> <<Req("EBID", "data", 1), Req("EBID", "pipe", 1)>>]}

LogRestore == [fn |-> "RESTORE", lines |-> <<[Req("EBID", "pipe", 1) EXCEPT !.log = TRUE],
                                             Req("NULL", "data", 0)>>]

Queries == {[fn |-> "INQUIRE", lines |-> <<Req("NULL", "data", 0)>>], LogRestore}

Again == [fn |-> "BACKUP", lines |-> <<File>>]

MCInputs == <<Backups, Deletes \cup Queries \cup {Again}, {[fn |-> "RESTORE", lines |-> <<Req("NULL", "data", 0)>>]}>>
==============================================================================
