-------------------------- MODULE MCAttachmentImport --------------------------
(* Deployments of import tasks for TLC.                                    *)
EXTENDS AttachmentImport

CONSTANTS t1, t2, c1, u1

Configs(after, avoid) == [after_import: after, avoid_duplicated_files: avoid]

\* The scheduler and a user, on two tasks that remove what they import.
Race == [procs: {{c1, u1}}, uploads: {1}, config: [{t1, t2} -> Configs({"delete"}, {FALSE})]]

\* The scheduler alone, on one task that may be configured in any way.
Alone == [procs: {{c1}}, uploads: {2}, config: [{t1} -> Config]]

RaceOrAlone == Race \union Alone

\* The scheduler alone, on two tasks, or on one that removes what it imports.
TwoTasks == [procs: {{c1}}, uploads: {1}, config: [{t1, t2} -> Configs({"none"}, {FALSE})]]
OneTask == [procs: {{c1}}, uploads: {1}, config: [{t1} -> Configs({"delete"}, {FALSE})]]
==============================================================================
