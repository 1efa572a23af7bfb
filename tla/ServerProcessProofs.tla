------------------------- MODULE ServerProcessProofs -------------------------
(***************************************************************************)
(* The safety of ServerProcess, for any list of old schedules and any      *)
(* numbers of jobs, requests and pages.                                    *)
(***************************************************************************)
EXTENDS ServerProcess, TLAPS

\* Until schedules.json is renamed, and unless an import was cut off, nothing
\* was ever removed and nothing is imported but in the middle of the import.
NothingImportedYet ==
    ~cut /\ file # "renamed" => /\ removed = {}
                                /\ phase # "importing" => imported = {}

ImportWhole == phase = "importing" => imported = Old /\ file = "schedules"

\* What the steps of a shutdown have established when the next one begins.
ExitMeansDown == exit # "none" => phase = "down"
DrainedOrLate == phase \in {"closing", "stopping"} => (jobs > 0 => late)
NothingConnected == phase = "stopping" => sending = 0 /\ pages = 0

IInv == /\ TypeOK
        /\ MigratedOnce /\ NothingImportedYet /\ ImportWhole
        /\ CleanExit /\ ExitMeansDown /\ DrainedOrLate /\ NothingConnected


LEMMA InvHoldsInitially == Init => IInv
<1> SUFFICES ASSUME Init PROVE IInv
  OBVIOUS
<1> USE DEF Init, Files
<1>1. TypeOK
  <2>1. late \in BOOLEAN /\ cut \in BOOLEAN
    BY Zenon
  <2>2. 0 \in 0..MaxJobs /\ 0 \in 0..MaxSending /\ 0 \in 0..MaxPages
    BY ServerProcessAssumption
  <2> QED BY <2>1, <2>2 DEF TypeOK
<1>2. MigratedOnce /\ NothingImportedYet /\ ImportWhole
  BY DEF MigratedOnce, NothingImportedYet, ImportWhole
<1>3. CleanExit /\ ExitMeansDown /\ DrainedOrLate /\ NothingConnected
  BY DEF CleanExit, ExitMeansDown, DrainedOrLate, NothingConnected
<1> QED BY <1>1, <1>2, <1>3 DEF IInv

\* The steps of a start.
LEMMA StartStep == ASSUME IInv, Start PROVE IInv'
<1> USE ServerProcessAssumption DEF IInv, Listen, Ends, Empty
<1>1. TypeOK'
  <2> USE DEF TypeOK, Files, tableVars, fileVars, busyVars
  <2> HIDE DEF Listen
  <2>0. Listen => /\ phase' = "up" /\ exit' = "none" /\ transport' = "running"
                  /\ late' \in BOOLEAN
                  /\ jobs' \in 0..MaxJobs /\ sending' \in 0..MaxSending
                  /\ pages' \in 0..MaxPages
    <3>1. Listen => late' \in BOOLEAN
      BY Zenon DEF Listen
    <3>2. Listen => /\ jobs' \in 0..MaxJobs /\ sending' \in 0..MaxSending
                    /\ pages' \in 0..MaxPages
      BY DEF Listen
    <3> QED BY <3>1, <3>2 DEF Listen
  <2>1. CASE StartWithoutImport BY <2>0, <2>1 DEF StartWithoutImport
  <2>2. CASE Import BY <2>2 DEF Import
  <2>3. CASE ImportFails BY <2>3 DEF ImportFails
  <2>4. CASE Rename BY <2>0, <2>4 DEF Rename
  <2>5. CASE RenameFails BY <2>5 DEF RenameFails
  <2> QED BY <2>1, <2>2, <2>3, <2>4, <2>5 DEF Start
<1>2. MigratedOnce' /\ NothingImportedYet' /\ ImportWhole'
  <2> USE DEF TypeOK, MigratedOnce, NothingImportedYet, ImportWhole, tableVars, fileVars, busyVars
  <2>1. CASE StartWithoutImport BY <2>1 DEF StartWithoutImport
  <2>2. CASE Import BY <2>2 DEF Import
  <2>3. CASE ImportFails BY <2>3 DEF ImportFails
  <2>4. CASE Rename BY <2>4 DEF Rename
  <2>5. CASE RenameFails BY <2>5 DEF RenameFails
  <2> QED BY <2>1, <2>2, <2>3, <2>4, <2>5 DEF Start
<1>3. CleanExit' /\ ExitMeansDown' /\ DrainedOrLate' /\ NothingConnected'
  BY DEF Start, StartWithoutImport, Import, ImportFails, Rename, RenameFails,
         CleanExit, ExitMeansDown, DrainedOrLate, NothingConnected
<1> QED BY <1>1, <1>2, <1>3

\* Requests, pages, jobs, and edits of the schedules.
LEMMA UseStep == ASSUME IInv, Use PROVE IInv'
<1> USE DEF IInv, Listening, Running
<1>1. CASE RequestComes \/ RequestEnds \/ PageOpens \/ PageCloses \/ JobStarts \/ JobEnds
  <2> USE <1>1, ServerProcessAssumption
      DEF RequestComes, RequestEnds, PageOpens, PageCloses, JobStarts, JobEnds,
          lifeVars, tableVars, fileVars
  <2>1. TypeOK' BY DEF TypeOK
  <2>2. MigratedOnce' /\ NothingImportedYet' /\ ImportWhole'
    BY DEF MigratedOnce, NothingImportedYet, ImportWhole
  <2>3. CleanExit' /\ ExitMeansDown' /\ DrainedOrLate' /\ NothingConnected'
    BY DEF TypeOK, CleanExit, ExitMeansDown, DrainedOrLate, NothingConnected
  <2> QED BY <2>1, <2>2, <2>3
<1>2. CASE Create \/ RemoveCreated \/ \E id \in Old : RemoveImported(id)
  <2> USE <1>2, ServerProcessAssumption
      DEF Create, RemoveCreated, RemoveImported, lifeVars, busyVars, fileVars
  <2>1. TypeOK' BY DEF TypeOK
  <2>2. MigratedOnce' /\ NothingImportedYet' /\ ImportWhole'
    BY DEF TypeOK, MigratedOnce, NothingImportedYet, ImportWhole
  <2>3. CleanExit' /\ ExitMeansDown' /\ DrainedOrLate' /\ NothingConnected'
    BY DEF CleanExit, ExitMeansDown, DrainedOrLate, NothingConnected
  <2> QED BY <2>1, <2>2, <2>3
<1> QED BY <1>1, <1>2 DEF Use

\* A shutdown, and a death.
LEMMA StopStep == ASSUME IInv, Shutdown \/ Dies PROVE IInv'
<1> USE DEF IInv, Ends, Shutdown, Signal, EightSeconds, Drained, Closed, Stopped,
            ForcedExit, Dies, busyVars, tableVars, fileVars
<1>1. TypeOK'
  BY DEF TypeOK
<1>2. MigratedOnce' /\ NothingImportedYet' /\ ImportWhole'
  BY DEF TypeOK, MigratedOnce, NothingImportedYet, ImportWhole
<1>3. CleanExit' /\ ExitMeansDown' /\ DrainedOrLate' /\ NothingConnected'
  BY DEF TypeOK, CleanExit, ExitMeansDown, DrainedOrLate, NothingConnected
<1> QED BY <1>1, <1>2, <1>3

LEMMA Stutter == ASSUME IInv, UNCHANGED vars PROVE IInv'
BY DEF IInv, TypeOK, MigratedOnce, NothingImportedYet, ImportWhole, CleanExit,
       ExitMeansDown, DrainedOrLate, NothingConnected, vars, lifeVars, busyVars,
       tableVars, fileVars

\* Every step of the process preserves the invariant.
THEOREM Invariant == Spec => []IInv
<1>1. IInv /\ [Next]_vars => IInv'
  BY StartStep, UseStep, StopStep, Stutter DEF Next
<1> QED BY InvHoldsInitially, <1>1, PTL DEF Spec

\* The variables of the process keep their types: no counter of jobs, requests
\* and pages goes below zero or is left over from an earlier process.
THEOREM TypeCorrect == Spec => []TypeOK
<1>1. IInv => TypeOK BY DEF IInv
<1> QED BY Invariant, <1>1, PTL

\* migrateSchedulesJsonIfNeeded: the file is put aside only with all of its
\* schedules imported, and brings none back that a user removed, unless a
\* death or a failed rename left the imported file in its place.
THEOREM ImportsOnce == Spec => []MigratedOnce
<1>1. IInv => MigratedOnce BY DEF IInv
<1> QED BY Invariant, <1>1, PTL

\* shutdown() of server.js: exit code 0 means that nothing was cut off, but
\* for items that outlasted the drain, and that the transport was shut down.
THEOREM ExitsCleanly == Spec => []CleanExit
<1>1. IInv => CleanExit BY DEF IInv
<1> QED BY Invariant, <1>1, PTL
=============================================================================
