---------------------------- MODULE ServerProcess ----------------------------
(***************************************************************************)
(* The life of the server process (server.js): a start with the import of  *)
(* schedules.json (lib/migrateSchedulesJson.js), and a shutdown in steps,  *)
(* with a death at any point and starts after it.                          *)
(*                                                                         *)
(* External: an operator starts the process and sends signals; http.Server *)
(* calls back from close() once every connection has ended, those of       *)
(* websockets included.                                                    *)
(*                                                                         *)
(* Time.  Of the clock of a shutdown only the eight seconds of the drain   *)
(* and the ten of the forced exit are kept.                                *)
(***************************************************************************)
EXTENDS Naturals

CONSTANTS Old,        \* the schedules in schedules.json
          MaxNew,     \* bound: schedules created in the program, at a time
          MaxJobs,    \* bounds: items, requests and pages at once
          MaxSending,
          MaxPages

ASSUME ServerProcessAssumption ==
    /\ Old # {}
    /\ MaxNew \in Nat
    /\ MaxJobs \in Nat /\ MaxSending \in Nat /\ MaxPages \in Nat

VARIABLES
    phase,      \* what the process is doing, or "down"
    exit,       \* how the last one ended: "0", "forced" or "died"
    transport,  \* "idle", "running" or "shut"
    late,       \* the eight seconds of drainAndStop are over
    jobs,       \* items the job worker has in flight
    sending,    \* HTTP requests under way
    pages,      \* websockets of open pages
    file,       \* schedules.json
    imported,   \* its schedules that are in the schedules table
    created,    \* how many others are
    removed,    \* history: imported schedules that a user removed
    cut         \* history: an import was cut off before the file was renamed

lifeVars  == <<phase, exit, transport, late>>
busyVars  == <<jobs, sending, pages>>
tableVars == <<imported, created, removed>>
fileVars  == <<file, cut>>
vars      == <<lifeVars, busyVars, tableVars, fileVars>>

\* "unreadable" is also a file that holds no list, or an empty one; a "broken"
\* list has an entry that is no object, or an id twice.
Files == {"absent", "schedules", "unreadable", "broken"}

Init ==
    /\ phase = "down" /\ exit = "none" /\ transport = "idle" /\ late = FALSE
    /\ jobs = 0 /\ sending = 0 /\ pages = 0
    /\ file \in Files /\ cut = FALSE
    /\ imported = {} /\ created \in 0..MaxNew /\ removed = {}

Ends(how) == phase' = "down" /\ exit' = how

-----------------------------------------------------------------------------
(* Startup.                                                                *)

Empty == imported = {} /\ created = 0

\* The rest of startup, up to server.listen.
Listen ==
    /\ phase' = "up" /\ exit' = "none"
    /\ transport' = "running"
    /\ late' = FALSE
    /\ jobs' = 0 /\ sending' = 0 /\ pages' = 0

StartWithoutImport ==
    /\ phase = "down"
    /\ ~Empty \/ file \notin {"schedules", "broken"}
    /\ Listen
    /\ UNCHANGED <<tableVars, fileVars>>

\* One transaction, up to its COMMIT.
Import ==
    /\ phase = "down"
    /\ Empty /\ file = "schedules"
    /\ imported' = Old
    /\ phase' = "importing" /\ exit' = "none"
    /\ UNCHANGED <<transport, late, busyVars, created, removed, fileVars>>

\* ROLLBACK; nothing catches what is thrown again.
ImportFails ==
    /\ phase = "down"
    /\ Empty /\ file = "broken"
    /\ Ends("died")
    /\ UNCHANGED <<transport, late, busyVars, tableVars, fileVars>>

\* Mutant of Rename: the file is left in its place.
RenameForgotten ==
    /\ phase = "importing"
    /\ Listen
    /\ UNCHANGED <<tableVars, fileVars>>

Rename ==
    /\ phase = "importing"
    /\ file' = "renamed"
    /\ Listen
    /\ UNCHANGED <<tableVars, cut>>

\* renameSync throws.
RenameFails ==
    /\ phase = "importing"
    /\ cut' = TRUE
    /\ Ends("died")
    /\ UNCHANGED <<transport, late, busyVars, tableVars, file>>

-----------------------------------------------------------------------------
(* At work.                                                                *)

Listening == phase \in {"up", "draining"}
Running == phase \notin {"down", "importing"}

RequestComes ==
    /\ Listening /\ sending < MaxSending
    /\ sending' = sending + 1
    /\ UNCHANGED <<lifeVars, jobs, pages, tableVars, fileVars>>

RequestEnds ==
    /\ Running /\ sending > 0
    /\ sending' = sending - 1
    /\ UNCHANGED <<lifeVars, jobs, pages, tableVars, fileVars>>

PageOpens ==
    /\ Listening /\ pages < MaxPages
    /\ pages' = pages + 1
    /\ UNCHANGED <<lifeVars, jobs, sending, tableVars, fileVars>>

PageCloses ==
    /\ Running /\ pages > 0
    /\ pages' = pages - 1
    /\ UNCHANGED <<lifeVars, jobs, sending, tableVars, fileVars>>

\* A tick of the job worker; once it drains it claims nothing.
JobStarts ==
    /\ phase = "up" /\ jobs < MaxJobs
    /\ jobs' = jobs + 1
    /\ UNCHANGED <<lifeVars, sending, pages, tableVars, fileVars>>

\* Mutant of JobEnds: an execution is taken out of the set twice.
JobEndsTwice ==
    /\ Running
    /\ jobs' = jobs - 1
    /\ UNCHANGED <<lifeVars, sending, pages, tableVars, fileVars>>

JobEnds ==
    /\ Running /\ jobs > 0
    /\ jobs' = jobs - 1
    /\ UNCHANGED <<lifeVars, sending, pages, tableVars, fileVars>>

\* POST /api/schedules and DELETE /api/schedules/:id.
Create ==
    /\ Listening /\ created < MaxNew
    /\ created' = created + 1
    /\ UNCHANGED <<lifeVars, busyVars, imported, removed, fileVars>>

RemoveCreated ==
    /\ Listening /\ created > 0
    /\ created' = created - 1
    /\ UNCHANGED <<lifeVars, busyVars, imported, removed, fileVars>>

RemoveImported(id) ==
    /\ Listening /\ id \in imported
    /\ imported' = imported \ {id}
    /\ removed' = removed \cup {id}
    /\ UNCHANGED <<lifeVars, busyVars, created, fileVars>>

-----------------------------------------------------------------------------
(* Shutdown.                                                               *)

\* SIGINT or SIGTERM; a second one changes nothing.  The server goes on
\* listening while the job worker drains.
Signal ==
    /\ phase = "up"
    /\ phase' = "draining"
    /\ UNCHANGED <<exit, transport, late, busyVars, tableVars, fileVars>>

EightSeconds ==
    /\ phase = "draining" /\ ~late
    /\ late' = TRUE
    /\ UNCHANGED <<phase, exit, transport, busyVars, tableVars, fileVars>>

\* Mutant of Drained: drainAndStop is not awaited.
DrainedAtOnce ==
    /\ phase = "draining"
    /\ phase' = "closing"
    /\ UNCHANGED <<exit, transport, late, busyVars, tableVars, fileVars>>

\* drainAndStop returns, server.close() is called.
Drained ==
    /\ phase = "draining"
    /\ jobs = 0 \/ late
    /\ phase' = "closing"
    /\ UNCHANGED <<exit, transport, late, busyVars, tableVars, fileVars>>

\* The callback of server.close(): io.close() comes only now.
Closed ==
    /\ phase = "closing"
    /\ sending = 0 /\ pages = 0
    /\ phase' = "stopping"
    /\ UNCHANGED <<exit, transport, late, busyVars, tableVars, fileVars>>

\* transport.shutdown() resolves, or rejects and is logged.
Stopped ==
    /\ phase = "stopping"
    /\ transport' = "shut"
    /\ Ends("0")
    /\ UNCHANGED <<late, busyVars, tableVars, fileVars>>

\* Mutant of ForcedExit: the timer is cleared once the worker has drained.
ForcedExitOfDrain ==
    /\ phase = "draining" /\ late
    /\ Ends("forced")
    /\ UNCHANGED <<transport, late, busyVars, tableVars, fileVars>>

\* forceExitTimer, two seconds or more after the drain: something is still
\* connected, or transport.shutdown() has not come back.
ForcedExit ==
    /\ phase = "stopping" \/ (phase = "closing" /\ sending + pages > 0)
    /\ Ends("forced")
    /\ UNCHANGED <<transport, late, busyVars, tableVars, fileVars>>

\* An uncaught exception, a kill or a power cut, at any statement.
Dies ==
    /\ phase # "down"
    /\ cut' = (cut \/ phase = "importing")
    /\ Ends("died")
    /\ UNCHANGED <<transport, late, busyVars, tableVars, file>>

-----------------------------------------------------------------------------
Start == StartWithoutImport \/ Import \/ ImportFails \/ Rename \/ RenameFails
Use == \/ RequestComes \/ RequestEnds \/ PageOpens \/ PageCloses
       \/ JobStarts \/ JobEnds
       \/ Create \/ RemoveCreated \/ \E id \in Old : RemoveImported(id)
Shutdown == Signal \/ EightSeconds \/ Drained \/ Closed \/ Stopped \/ ForcedExit

Next == Start \/ Use \/ Shutdown \/ Dies

Spec == Init /\ [][Next]_vars

\* Timers expire, callbacks come and requests end; pages stay open as long as
\* their users like.  Nobody has to start or stop the process.
FairSpec ==
    /\ Spec
    /\ WF_vars(EightSeconds)
    /\ WF_vars(Drained)
    /\ WF_vars(Closed)
    /\ WF_vars(Stopped)
    /\ WF_vars(ForcedExit)
    /\ WF_vars(RequestEnds)

-----------------------------------------------------------------------------
(* Properties.                                                             *)

TypeOK ==
    /\ phase \in {"down", "importing", "up", "draining", "closing", "stopping"}
    /\ exit \in {"none", "0", "forced", "died"}
    /\ transport \in {"idle", "running", "shut"}
    /\ late \in BOOLEAN
    /\ jobs \in 0..MaxJobs /\ sending \in 0..MaxSending /\ pages \in 0..MaxPages
    /\ file \in Files \cup {"renamed"} /\ cut \in BOOLEAN
    /\ imported \subseteq Old /\ removed \subseteq Old
    /\ created \in 0..MaxNew

\* Through every sequence of starts, deaths and edits, schedules.json is put
\* aside only when all its schedules have been imported, and a schedule a user
\* removed does not come back at a later start, unless a death or a failed
\* rename left the imported file in its place.
MigratedOnce ==
    /\ file = "renamed" => imported \cup removed = Old
    /\ ~cut => imported \cap removed = {}

\* A process that exits with 0 leaves no request half answered and no page
\* connected, has shut the transport down, and cuts off items in flight only
\* when the eight seconds of the drain were not enough for them.
CleanExit ==
    exit = "0" =>
        /\ sending = 0 /\ pages = 0
        /\ transport = "shut"
        /\ jobs > 0 => late

\* A shutdown ends, whatever stays open or does not answer.
ShutdownEnds == phase \in {"draining", "closing", "stopping"} ~> phase = "down"

-----------------------------------------------------------------------------
(* What docs/OPERATIONS.md says and the code does not do.                  *)

\* A signal leads to io.close() and transport.shutdown(), unless the process
\* dies first.
SignalStopsTransport == phase = "draining" ~> phase = "stopping" \/ exit = "died"
=============================================================================
