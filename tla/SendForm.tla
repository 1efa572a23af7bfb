------------------------------ MODULE SendForm ------------------------------
(***************************************************************************)
(* The four forms of public/app.js that send or schedule: what the user    *)
(* enters, the buttons that submit it, and the requests under way.  The    *)
(* script never runs two handlers at once, but between the click and its   *)
(* answer every other handler may run, and each of them sets the buttons.  *)
(*                                                                         *)
(* A behaviour is about one form; the forms share nothing.                 *)
(***************************************************************************)
EXTENDS Naturals

CONSTANTS MaxRecipients,   \* bound: chips, selected groups or rows
          MaxRequests      \* bound: requests of one button under way

ASSUME SendFormAssumption ==
    /\ MaxRecipients \in Nat \ {0}
    /\ MaxRequests \in Nat \ {0}

VARIABLES
    kind,         \* which form: "compose", "groups", "bulk" or "schedule"
    recipients,   \* how many recipients, selectedGroups, bulkRows, schedRecipients
    hasText,      \* the message box is not blank
    hasTime,      \* schedule: schedDateTime has a value
    rowText,      \* bulk: every row brings a message of its own
    enabled,      \* buttons that are not disabled
    loading,      \* buttons with the class is-loading
    waiting,      \* requests of a button that have not been answered
    uploading,    \* bulk: /api/parse-sheet has not been answered
    preview,      \* bulk: bulkPreviewTimer is set
    redrawn       \* history: buttons set by another handler since the click

inputs == <<recipients, hasText, hasTime, rowText>>
vars   == <<kind, inputs, enabled, loading, waiting, uploading, preview, redrawn>>

Kinds == {"compose", "groups", "bulk", "schedule"}
Buttons == {"send", "download"}   \* "download" exists in the bulk form only

Init ==
    /\ kind \in Kinds
    /\ recipients = 0
    /\ hasText = FALSE
    /\ hasTime = FALSE
    /\ rowText = TRUE
    /\ enabled = {}
    /\ loading = {}
    /\ waiting = [b \in Buttons |-> 0]
    /\ uploading = FALSE
    /\ preview = FALSE
    /\ redrawn = {}

-----------------------------------------------------------------------------
\* What updateSendBtnState, updateGroupSendBtnState, updateScheduleBtnState
\* and renderBulkTable ask before they enable button b.
Offered(b) ==
    /\ recipients > 0
    /\ kind # "bulk" => b = "send" /\ hasText
    /\ kind = "schedule" => hasTime

\* Those functions, called on what has just been entered.
Redraw ==
    /\ enabled' = {b \in Buttons : Offered(b)'}
    /\ redrawn' = redrawn \cup {b \in Buttons : waiting[b] > 0}

-----------------------------------------------------------------------------
(* The user enters something.                                              *)

\* A number, contact or group is added; chips and rows can be removed.
AddRecipient ==
    /\ kind # "bulk"
    /\ recipients < MaxRecipients
    /\ recipients' = recipients + 1
    /\ UNCHANGED <<kind, hasText, hasTime, rowText, loading, waiting, uploading, preview>>
    /\ Redraw

RemoveRecipient ==
    /\ recipients > 0
    /\ recipients' = recipients - 1
    /\ rowText' \in {rowText, rowText \/ kind = "bulk"}
    /\ recipients = 1 => rowText'
    /\ UNCHANGED <<kind, hasText, hasTime, loading, waiting, uploading, preview>>
    /\ Redraw

EditMessage ==
    /\ kind # "bulk"
    /\ hasText' \in BOOLEAN
    /\ UNCHANGED <<kind, recipients, hasTime, rowText, loading, waiting, uploading, preview>>
    /\ Redraw

EditTime ==
    /\ kind = "schedule"
    /\ hasTime' \in BOOLEAN
    /\ UNCHANGED <<kind, recipients, hasText, rowText, loading, waiting, uploading, preview>>
    /\ Redraw

\* Typing in the bulk form redraws the table 150 ms after the last key.
EditBulkMessage ==
    /\ kind = "bulk"
    /\ hasText' \in BOOLEAN
    /\ preview' = TRUE
    /\ UNCHANGED <<kind, recipients, hasTime, rowText, enabled, loading, waiting,
                   uploading, redrawn>>

PreviewTimer ==
    /\ preview
    /\ preview' = FALSE
    /\ UNCHANGED <<kind, inputs, loading, waiting, uploading>>
    /\ Redraw

\* A field chip is clicked or dropped: its placeholder goes into the message.
InsertField ==
    /\ kind = "bulk"
    /\ hasText' = TRUE
    /\ UNCHANGED <<kind, recipients, hasTime, rowText, loading, waiting, uploading, preview>>
    /\ Redraw

\* Upload & preview; its button is disabled until the answer.
Upload ==
    /\ kind = "bulk"
    /\ ~uploading
    /\ uploading' = TRUE
    /\ UNCHANGED <<kind, inputs, enabled, loading, waiting, preview, redrawn>>

\* The rows of the sheet, none if it could not be read.
UploadAnswered ==
    /\ uploading
    /\ uploading' = FALSE
    /\ recipients' \in 0..MaxRecipients
    /\ rowText' \in BOOLEAN
    /\ recipients' = 0 => rowText'
    /\ UNCHANGED <<kind, hasText, hasTime, loading, waiting, preview>>
    /\ Redraw

-----------------------------------------------------------------------------
(* A submission.                                                           *)

\* The checks a click handler starts with.
Accepted(b) ==
    /\ Offered(b)
    /\ kind = "bulk" /\ b = "send" => rowText \/ hasText

\* Mutant of Click: the button stays enabled.
ClickEnabled(b) ==
    /\ b \in enabled
    /\ Accepted(b)
    /\ waiting[b] < MaxRequests
    /\ waiting' = [waiting EXCEPT ![b] = @ + 1]
    /\ loading' = loading \cup {b}
    /\ redrawn' = IF waiting[b] = 0 THEN redrawn \ {b} ELSE redrawn
    /\ UNCHANGED <<kind, inputs, enabled, uploading, preview>>

\* A click that is not turned away, with an Idempotency-Key of its own.
Click(b) ==
    /\ b \in enabled
    /\ Accepted(b)
    /\ waiting[b] < MaxRequests
    /\ waiting' = [waiting EXCEPT ![b] = @ + 1]
    /\ enabled' = enabled \ {b}
    /\ loading' = loading \cup {b}
    /\ redrawn' = IF waiting[b] = 0 THEN redrawn \ {b} ELSE redrawn
    /\ UNCHANGED <<kind, inputs, uploading, preview>>

\* The finally block: the bulk form enables its send button whatever is left.
SetAfter(b) ==
    enabled' = IF Offered(b)' \/ (kind = "bulk" /\ b = "send")
               THEN enabled \cup {b} ELSE enabled \ {b}

Answered(b) ==
    /\ waiting[b] > 0
    /\ waiting' = [waiting EXCEPT ![b] = @ - 1]
    /\ loading' = loading \ {b}
    /\ UNCHANGED <<kind, rowText, uploading, preview, redrawn>>
    /\ SetAfter(b)

\* A sent message or a failure: the form keeps what was entered.
Finish(b) == UNCHANGED <<recipients, hasText, hasTime>> /\ Answered(b)

\* Mutant of FinishSchedule: the form is cleared after the button is set.
FinishScheduleClearedLate ==
    /\ kind = "schedule"
    /\ waiting["send"] > 0
    /\ waiting' = [waiting EXCEPT !["send"] = @ - 1]
    /\ loading' = loading \ {"send"}
    /\ enabled' = IF Offered("send") THEN {"send"} ELSE {}
    /\ recipients' = 0 /\ hasText' = FALSE /\ hasTime' = FALSE
    /\ UNCHANGED <<kind, rowText, uploading, preview, redrawn>>

\* A schedule was created: the form is cleared, with what was entered since.
FinishSchedule ==
    /\ kind = "schedule"
    /\ recipients' = 0
    /\ hasText' = FALSE
    /\ hasTime' = FALSE
    /\ Answered("send")

-----------------------------------------------------------------------------
Entering == \/ AddRecipient \/ RemoveRecipient
            \/ EditMessage \/ EditTime \/ EditBulkMessage \/ InsertField \/ Upload

Next == \/ Entering
        \/ PreviewTimer \/ UploadAnswered
        \/ \E b \in Buttons : Click(b) \/ Finish(b)
        \/ FinishSchedule

Spec == Init /\ [][Next]_vars

-----------------------------------------------------------------------------
(* Properties.                                                             *)

TypeOK ==
    /\ kind \in Kinds
    /\ recipients \in 0..MaxRecipients
    /\ hasText \in BOOLEAN
    /\ hasTime \in BOOLEAN
    /\ rowText \in BOOLEAN
    /\ enabled \in SUBSET Buttons
    /\ loading \in SUBSET Buttons
    /\ waiting \in [Buttons -> 0..MaxRequests]
    /\ uploading \in BOOLEAN
    /\ preview \in BOOLEAN
    /\ redrawn \in SUBSET Buttons

Idle(b) == waiting[b] = 0

\* A button with nothing under way agrees with the form, whichever handlers
\* ran during its last request: it does not spin, it can be clicked if there
\* is something to submit, and only then.  The send button of the bulk form
\* may be enabled for nothing; its handler then turns the click away.
IdleButtonAgrees ==
    \A b \in Buttons : Idle(b) =>
        /\ b \notin loading
        /\ Offered(b) => b \in enabled
        /\ b \in enabled /\ ~(kind = "bulk" /\ b = "send") =>
              Offered(b)

\* A form sends a second request while one is under way only if another
\* handler set its button in between: a double click alone sends once.
SecondRequestNeedsRedraw ==
    \A b \in Buttons : waiting[b] > 1 => b \in redrawn
=============================================================================
