--------------------------- MODULE SendFormProofs ---------------------------
(***************************************************************************)
(* For any number of recipients and of requests under way: an idle button  *)
(* agrees with its form, and a second request needs another handler to set *)
(* the button in between.                                                  *)
(***************************************************************************)
EXTENDS SendForm, TLAPS

\* A button that is enabled while a request of its own is under way was set
\* by another handler: this makes SecondRequestNeedsRedraw inductive.
EnabledAgain == \A b \in Buttons : waiting[b] > 0 /\ b \in enabled => b \in redrawn

IInv == TypeOK /\ IdleButtonAgrees /\ SecondRequestNeedsRedraw /\ EnabledAgain

\* The handlers that end by setting every button from what is entered now.
LEMMA RedrawKeeps ==
    ASSUME IInv, TypeOK', Redraw, UNCHANGED <<kind, loading, waiting>>
    PROVE  IInv'
<1>1. waiting' = waiting /\ loading' = loading
  OBVIOUS
<1>2. enabled' = {b \in Buttons : Offered(b)'}
      /\ redrawn' = redrawn \cup {b \in Buttons : waiting[b] > 0}
  BY DEF Redraw
<1>3. \A b \in Buttons : waiting[b] \in Nat
  BY SendFormAssumption DEF SendFormAssumption, IInv, TypeOK
<1>4. IdleButtonAgrees'
  BY <1>1, <1>2 DEF IInv, IdleButtonAgrees, Idle
<1>5. SecondRequestNeedsRedraw'
  BY <1>1, <1>2, <1>3 DEF SecondRequestNeedsRedraw
<1>6. EnabledAgain'
  BY <1>1, <1>2 DEF EnabledAgain
<1>7. QED
  BY <1>4, <1>5, <1>6 DEF IInv

\* What the user or an upload enters keeps the types.
LEMMA EnteringTypes ==
    ASSUME TypeOK,
           \/ AddRecipient \/ RemoveRecipient \/ EditMessage \/ EditTime
           \/ InsertField \/ PreviewTimer \/ UploadAnswered
    PROVE  TypeOK' /\ Redraw /\ UNCHANGED <<kind, loading, waiting>>
<1>1. CASE AddRecipient
  <2>1. recipients' \in 0..MaxRecipients
    BY <1>1, SendFormAssumption DEF SendFormAssumption, TypeOK, AddRecipient
  <2>2. QED
    BY <1>1, <2>1 DEF TypeOK, AddRecipient, Redraw
<1>2. CASE RemoveRecipient
  <2>1. recipients' \in 0..MaxRecipients
    BY <1>2, SendFormAssumption DEF SendFormAssumption, TypeOK, RemoveRecipient
  <2>2. rowText' \in BOOLEAN
    BY <1>2 DEF TypeOK, RemoveRecipient
  <2>3. QED
    BY <1>2, <2>1, <2>2 DEF TypeOK, RemoveRecipient, Redraw
<1>3. CASE EditMessage
  BY <1>3 DEF TypeOK, EditMessage, Redraw
<1>4. CASE EditTime
  BY <1>4 DEF TypeOK, EditTime, Redraw
<1>5. CASE InsertField
  BY <1>5 DEF TypeOK, InsertField, Redraw
<1>6. CASE PreviewTimer
  BY <1>6 DEF TypeOK, PreviewTimer, inputs, Redraw
<1>7. CASE UploadAnswered
  BY <1>7 DEF TypeOK, UploadAnswered, Redraw
<1>8. QED
  BY <1>1, <1>2, <1>3, <1>4, <1>5, <1>6, <1>7

LEMMA ClickKeeps ==
    ASSUME IInv, NEW b \in Buttons, Click(b)
    PROVE  IInv'
<1>1. /\ b \in enabled
      /\ waiting[b] \in Nat
      /\ waiting' = [waiting EXCEPT ![b] = @ + 1]
      /\ enabled' = enabled \ {b}
      /\ loading' = loading \cup {b}
      /\ redrawn' = IF waiting[b] = 0 THEN redrawn \ {b} ELSE redrawn
      /\ waiting \in [Buttons -> Nat]
  BY SendFormAssumption DEF SendFormAssumption, IInv, TypeOK, Click
<1>2. \A c \in Buttons : Offered(c)' <=> Offered(c)
  BY DEF Click, inputs, Offered
<1>3. TypeOK'
  BY SendFormAssumption DEF SendFormAssumption, IInv, TypeOK, Click, inputs
<1>4. waiting'[b] > 0 /\ \A c \in Buttons \ {b} : waiting'[c] = waiting[c]
  BY <1>1
<1>5. IdleButtonAgrees'
  BY <1>1, <1>2, <1>4 DEF IInv, IdleButtonAgrees, Idle, Click
<1>6. SecondRequestNeedsRedraw'
  BY <1>1, <1>4 DEF IInv, SecondRequestNeedsRedraw, EnabledAgain
<1>7. EnabledAgain'
  BY <1>1, <1>4 DEF IInv, EnabledAgain
<1>8. QED
  BY <1>3, <1>5, <1>6, <1>7 DEF IInv

\* An answer, whatever becomes of the inputs, as long as the download button
\* of the bulk form does not lose what it offers.
LEMMA AnsweredKeeps ==
    ASSUME IInv, NEW b \in Buttons, Answered(b), TypeOK',
           \A c \in Buttons \ {b} : Offered(c)' <=> Offered(c)
    PROVE  IInv'
<1>1. /\ waiting \in [Buttons -> Nat]
      /\ waiting[b] > 0
      /\ waiting' = [waiting EXCEPT ![b] = @ - 1]
      /\ loading' = loading \ {b}
      /\ kind' = kind
      /\ redrawn' = redrawn
  BY SendFormAssumption DEF SendFormAssumption, IInv, TypeOK, Answered
<1>2. enabled' = IF Offered(b)' \/ (kind = "bulk" /\ b = "send")
                 THEN enabled \cup {b} ELSE enabled \ {b}
  BY DEF Answered, SetAfter
<1>3. waiting'[b] = waiting[b] - 1 /\ \A c \in Buttons \ {b} : waiting'[c] = waiting[c]
  BY <1>1
<1>4. IdleButtonAgrees'
  BY <1>1, <1>2, <1>3 DEF IInv, IdleButtonAgrees, Idle
<1>5. SecondRequestNeedsRedraw'
  BY <1>1, <1>3 DEF IInv, SecondRequestNeedsRedraw
<1>6. EnabledAgain'
  BY <1>1, <1>2, <1>3 DEF IInv, EnabledAgain, SecondRequestNeedsRedraw
<1>7. QED
  BY <1>4, <1>5, <1>6 DEF IInv

LEMMA FinishKeeps ==
    ASSUME IInv, NEW b \in Buttons, Finish(b)
    PROVE  IInv'
<1>1. Answered(b) /\ UNCHANGED <<recipients, hasText, hasTime>>
  BY DEF Finish
<1>2. TypeOK'
  BY <1>1, SendFormAssumption
  DEF SendFormAssumption, IInv, TypeOK, Answered, SetAfter, Kinds, Buttons
<1>3. \A c \in Buttons : Offered(c)' <=> Offered(c)
  BY <1>1 DEF Answered, Offered
<1>4. QED
  BY <1>1, <1>2, <1>3, AnsweredKeeps

LEMMA FinishScheduleKeeps ==
    ASSUME IInv, FinishSchedule
    PROVE  IInv'
<1>1. Answered("send") /\ "send" \in Buttons
  BY DEF FinishSchedule, Buttons
<1>2. TypeOK'
  <2>1. recipients' \in 0..MaxRecipients
    BY SendFormAssumption DEF SendFormAssumption, FinishSchedule
  <2>2. waiting' \in [Buttons -> 0..MaxRequests]
    BY <1>1, SendFormAssumption DEF SendFormAssumption, IInv, TypeOK, Answered
  <2>3. enabled' \in SUBSET Buttons /\ loading' \in SUBSET Buttons
    BY <1>1 DEF IInv, TypeOK, Answered, SetAfter
  <2>4. QED
    BY <1>1, <2>1, <2>2, <2>3 DEF IInv, TypeOK, FinishSchedule, Answered
<1>3. \A c \in Buttons \ {"send"} : ~Offered(c) /\ ~Offered(c)'
  BY <1>1 DEF FinishSchedule, Answered, Offered, Buttons
<1>4. QED
  BY <1>1, <1>2, <1>3, AnsweredKeeps

LEMMA StepKeeps ==
    ASSUME IInv, [Next]_vars
    PROVE  IInv'
<1>1. CASE \/ AddRecipient \/ RemoveRecipient \/ EditMessage \/ EditTime
           \/ InsertField \/ PreviewTimer \/ UploadAnswered
  BY <1>1, EnteringTypes, RedrawKeeps DEF IInv
<1>2. CASE EditBulkMessage
  <2>1. TypeOK'
    BY <1>2 DEF IInv, TypeOK, EditBulkMessage
  <2>2. \A b \in Buttons : Offered(b)' <=> Offered(b)
    BY <1>2 DEF EditBulkMessage, Offered
  <2>3. QED
    BY <1>2, <2>1, <2>2
    DEF IInv, EditBulkMessage, IdleButtonAgrees, Idle, SecondRequestNeedsRedraw, EnabledAgain
<1>3. CASE Upload \/ UNCHANGED vars
  <2>1. UNCHANGED <<kind, inputs, enabled, loading, waiting, preview, redrawn>>
        /\ uploading' \in {uploading, TRUE}
    BY <1>3 DEF Upload, vars
  <2>2. TypeOK'
    BY <2>1 DEF IInv, TypeOK, inputs
  <2>3. \A b \in Buttons : Offered(b)' <=> Offered(b)
    BY <2>1 DEF inputs, Offered
  <2>4. QED
    BY <2>1, <2>2, <2>3
    DEF IInv, IdleButtonAgrees, Idle, SecondRequestNeedsRedraw, EnabledAgain
<1>4. QED
  BY <1>1, <1>2, <1>3, ClickKeeps, FinishKeeps, FinishScheduleKeeps DEF Next, Entering

LEMMA InitHolds == Init => IInv
<1> SUFFICES ASSUME Init PROVE IInv
  OBVIOUS
<1>1. TypeOK
  <2>1. 0 \in 0..MaxRecipients /\ 0 \in 0..MaxRequests
    BY SendFormAssumption DEF SendFormAssumption
  <2>2. QED
    BY <2>1 DEF Init, TypeOK
<1>2. \A b \in Buttons : ~Offered(b)
  BY DEF Init, Offered
<1>3. QED
  BY <1>1, <1>2
  DEF Init, IInv, IdleButtonAgrees, Idle, SecondRequestNeedsRedraw, EnabledAgain

-----------------------------------------------------------------------------
\* Once its requests are answered, a button is enabled if the form has
\* something to submit and, but for the bulk form, only then.
THEOREM IdleAgrees == Spec => []IdleButtonAgrees
<1>1. IInv /\ [Next]_vars => IInv'
  BY StepKeeps
<1>2. IInv => IdleButtonAgrees
  BY DEF IInv
<1>3. QED
  BY <1>1, <1>2, InitHolds, PTL DEF Spec

\* A double click on an unchanged form sends one request.
THEOREM DoubleClickSendsOnce == Spec => []SecondRequestNeedsRedraw
<1>1. IInv /\ [Next]_vars => IInv'
  BY StepKeeps
<1>2. IInv => SecondRequestNeedsRedraw
  BY DEF IInv
<1>3. QED
  BY <1>1, <1>2, InitHolds, PTL DEF Spec
=============================================================================
