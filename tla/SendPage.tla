------------------------------ MODULE SendPage ------------------------------
(***************************************************************************)
(* The "Send SMS" page of the client dashboard,                           *)
(* services/client-web/app/dashboard/send/page.tsx, against the gateway's *)
(* check and send endpoints and the account's balance ledger (spec 4.1 to *)
(* 4.3 and 6; not in this repository, so modelled from the spec), while   *)
(* the load test, src/loadtests/otp_flow.js, sends with the same API key. *)
(*                                                                         *)
(* A message body is a model value whose text (Body) the gateway segments *)
(* and prices with the operators of Segmentation (spec 4.1 and 4.2):      *)
(* Price is what a send costs and TooLong the bodies the engine refuses   *)
(* with MessageTooLong although the form's 1530-character limit accepts   *)
(* them.  NoText is a form that fails validation (an empty or malformed   *)
(* field).                                                                 *)
(***************************************************************************)
EXTENDS Integers, FiniteSets

CONSTANTS
    Texts,           \* message bodies the user can type (model values)
    Body,            \* body -> its text, a sequence of Segmentation runs
    Dest,            \* the destination's digits after the country code
    OtpText,         \* the load test's "NNNNNN is your OTP." text
    MaxParts,        \* the engine's maximum part count
    RateTable,       \* the account's rate table
    RateLimitRps,    \* the account's rate_limit_rps
    MaxTime,         \* bound on the seconds the model lets pass
    InitialBalance,  \* account balance when the page is opened
    CreditLimit,     \* account credit_limit
    LoadTest,        \* whether otp_flow.js sends with the same API key
    MaxRequests,     \* bound on requests issued
    NoText, NoResult

Seg == INSTANCE Segmentation
Guard == INSTANCE RateGuard

\* The form's zod schema for the message: min(1) and max(1530), counted in
\* UTF-16 code units as a JavaScript string's length.  A form failing the
\* phone or sender-id rules is NoText.
FormAccepts(text) == Seg!Scanned(text).units \in 1..1530

ASSUME /\ \A t \in Texts : FormAccepts(Body[t])
       /\ ~Seg!UnknownDestination(Dest)
       /\ InitialBalance \in Nat /\ CreditLimit \in Nat
       /\ LoadTest \in BOOLEAN /\ MaxRequests \in Nat

VARIABLES
    form,          \* the form's values: a body, or NoText when invalid
    isChecking,    \* isChecking
    isSending,     \* isSending
    checkResult,   \* checkResult: the body the preview was computed for
    sendResult,    \* sendResult is set: a send was reported
    error,         \* error banner shown
    checks,        \* bodies of the check requests in flight
    submits,       \* handleSubmit calls still validating: [id, text]
    sends,         \* send requests (smsApi.sendSMS): [id, text, phase, after]
    shownBalance,  \* the auth store's user.balance, shown in the header
    balance,       \* the account's balance in the ledger
    issued,        \* requests issued so far (bounds the model)
    bucket,        \* the account's token bucket
    now            \* the gateway's clock, in whole seconds

guardVars == <<bucket, now>>
vars == <<form, isChecking, isSending, checkResult, sendResult, error,
          checks, submits, sends, shownBalance, balance, issued, guardVars>>

TooLong == {t \in Texts : Seg!MessageTooLong(Body[t])}
Price == [t \in Texts |-> Seg!Price(Dest, FALSE, Body[t])]
OtpPrice == Seg!Price(Dest, FALSE, OtpText)

Ids == 1..MaxRequests
SendRequest == [id : Ids, text : Texts, phase : {"sent", "ok", "refused"},
                after : Int]

TypeOK ==
    /\ form \in Texts \union {NoText}
    /\ isChecking \in BOOLEAN /\ isSending \in BOOLEAN
    /\ checkResult \in Texts \union {NoResult}
    /\ sendResult \in BOOLEAN
    /\ error \in BOOLEAN
    /\ checks \subseteq Texts
    /\ submits \subseteq [id : Ids, text : Texts]
    /\ sends \subseteq SendRequest
    /\ shownBalance \in Int
    /\ balance \in Int
    /\ issued \in 0..MaxRequests
    /\ bucket \in Guard!Bucket /\ now \in 0..MaxTime

-----------------------------------------------------------------------------
(* The gateway and the ledger (spec 4.3), modelled from the spec.          *)

\* Every request first passes the rate guard (spec 2's data flow):
\* acquire() takes a token, or the request is RateLimited and the bucket
\* is only refilled.
Admit == bucket' = Guard!Acquired(bucket, now)
Throttle == bucket' = Guard!Refilled(bucket, now)
Admitted == Guard!TokenAvailable(bucket, now)

\* checkAndDebit's condition: balance - amount >= -credit_limit.
Headroom(amount) == balance - amount >= -CreditLimit

\* A send that passes segmentation is priced and debited in one atomic
\* checkAndDebit; the answer carries balance_after.
ServerSendAccept(r) ==
    /\ r \in sends /\ r.phase = "sent"
    /\ Admitted /\ Admit
    /\ r.text \notin TooLong
    /\ Headroom(Price[r.text])
    /\ balance' = balance - Price[r.text]
    /\ sends' = (sends \ {r}) \union
                {[r EXCEPT !.phase = "ok", !.after = balance - Price[r.text]]}
    /\ UNCHANGED <<form, isChecking, isSending, checkResult, sendResult, error,
                   checks, submits, shownBalance, issued, now>>

\* RateLimited, or MessageTooLong or InsufficientBalance after the guard
\* let it through: nothing is debited.
ServerSendRefuse(r) ==
    /\ r \in sends /\ r.phase = "sent"
    /\ \/ ~Admitted /\ Throttle
       \/ Admitted /\ Admit /\ (r.text \in TooLong \/ ~Headroom(Price[r.text]))
    /\ sends' = (sends \ {r}) \union {[r EXCEPT !.phase = "refused"]}
    /\ UNCHANGED <<form, isChecking, isSending, checkResult, sendResult, error,
                   checks, submits, shownBalance, balance, issued, now>>

\* One load-test iteration: POST /otp/send with the shared API key, so
\* the same bucket, debited by the same ledger if the account has headroom.
OtpSend ==
    /\ LoadTest
    /\ issued < MaxRequests
    /\ issued' = issued + 1
    /\ \/ Admitted /\ Admit
          /\ balance' = IF Headroom(OtpPrice) THEN balance - OtpPrice ELSE balance
       \/ ~Admitted /\ Throttle /\ UNCHANGED balance
    /\ UNCHANGED <<form, isChecking, isSending, checkResult, sendResult, error,
                   checks, submits, sends, shownBalance, now>>

\* A second of the gateway's clock passes.
Tick ==
    /\ now < MaxTime
    /\ now' = now + 1
    /\ UNCHANGED <<form, isChecking, isSending, checkResult, sendResult, error,
                   checks, submits, sends, shownBalance, balance, issued, bucket>>

-----------------------------------------------------------------------------
(* The page                                                                *)

\* Typing into the fields (disabled while sending).
Type(t) ==
    /\ ~isSending
    /\ form' = t
    /\ UNCHANGED <<isChecking, isSending, checkResult, sendResult, error,
                   checks, submits, sends, shownBalance, balance, issued, guardVars>>

\* handleCheck without its early return on an unfilled field.
ClickCheckUnguarded ==
    /\ ~isChecking /\ ~isSending
    /\ issued < MaxRequests
    /\ isChecking' = TRUE
    /\ error' = FALSE
    /\ checkResult' = NoResult
    /\ checks' = checks \union {form}
    /\ issued' = issued + 1
    /\ UNCHANGED <<form, isSending, sendResult, submits, sends, shownBalance,
                   balance, guardVars>>

\* "Check Message" (handleCheck), disabled while checking or sending: with
\* every field filled it clears the preview and posts the current values.
ClickCheck ==
    /\ ~isChecking /\ ~isSending
    /\ form # NoText
    /\ issued < MaxRequests
    /\ isChecking' = TRUE
    /\ error' = FALSE
    /\ checkResult' = NoResult
    /\ checks' = checks \union {form}
    /\ issued' = issued + 1
    /\ UNCHANGED <<form, isSending, sendResult, submits, sends, shownBalance,
                   balance, guardVars>>

\* The check's answer becomes the preview; finally isChecking is cleared.
CheckAnswered(q) ==
    /\ q \in checks /\ q \notin TooLong
    /\ Admitted /\ Admit
    /\ checks' = checks \ {q}
    /\ checkResult' = q
    /\ isChecking' = FALSE
    /\ UNCHANGED <<form, isSending, sendResult, error, submits, sends,
                   shownBalance, balance, issued, now>>

\* RateLimited or MessageTooLong from the check: the error is shown.
CheckFailed(q) ==
    /\ q \in checks
    /\ \/ ~Admitted /\ Throttle
       \/ Admitted /\ Admit /\ q \in TooLong
    /\ checks' = checks \ {q}
    /\ error' = TRUE
    /\ isChecking' = FALSE
    /\ UNCHANGED <<form, isSending, checkResult, sendResult, submits, sends,
                   shownBalance, balance, issued, now>>

\* "Send SMS", disabled only while isSending: handleSubmit validates the
\* values with the zod resolver before it calls onSubmit.
ClickSend ==
    /\ ~isSending
    /\ form # NoText
    /\ issued < MaxRequests
    /\ submits' = submits \union {[id |-> issued + 1, text |-> form]}
    /\ issued' = issued + 1
    /\ UNCHANGED <<form, isChecking, isSending, checkResult, sendResult, error,
                   checks, sends, shownBalance, balance, guardVars>>

\* onSubmit starts once validation passes: isSending, the banners cleared
\* and the values posted.
Validated(s) ==
    /\ s \in submits
    /\ submits' = submits \ {s}
    /\ isSending' = TRUE
    /\ error' = FALSE
    /\ sendResult' = FALSE
    /\ sends' = sends \union {[id |-> s.id, text |-> s.text, phase |-> "sent",
                               after |-> 0]}
    /\ UNCHANGED <<form, isChecking, checkResult, checks, shownBalance,
                   balance, issued, guardVars>>

\* A sent message: the result is shown, the header balance becomes
\* balance_after, the form is reset and the preview cleared; finally
\* isSending is cleared.
SendAnswered(r) ==
    /\ r \in sends /\ r.phase = "ok"
    /\ sends' = sends \ {r}
    /\ sendResult' = TRUE
    /\ shownBalance' = r.after
    /\ form' = NoText
    /\ checkResult' = NoResult
    /\ isSending' = FALSE
    /\ UNCHANGED <<isChecking, error, checks, submits, balance, issued, guardVars>>

\* A refused send whose catch shows the error but that never clears
\* isSending.
SendFailedKeepsSending(r) ==
    /\ r \in sends /\ r.phase = "refused"
    /\ sends' = sends \ {r}
    /\ error' = TRUE
    /\ UNCHANGED <<form, isChecking, isSending, checkResult, sendResult,
                   checks, submits, shownBalance, balance, issued, guardVars>>

\* A refused send: the error is shown and the form kept; finally isSending
\* is cleared.
SendFailed(r) ==
    /\ r \in sends /\ r.phase = "refused"
    /\ sends' = sends \ {r}
    /\ error' = TRUE
    /\ isSending' = FALSE
    /\ UNCHANGED <<form, isChecking, checkResult, sendResult, checks, submits,
                   shownBalance, balance, issued, guardVars>>

-----------------------------------------------------------------------------

Init ==
    /\ form = NoText
    /\ isChecking = FALSE /\ isSending = FALSE
    /\ checkResult = NoResult /\ sendResult = FALSE
    /\ error = FALSE
    /\ checks = {} /\ submits = {} /\ sends = {}
    /\ shownBalance = InitialBalance
    /\ balance = InitialBalance
    /\ issued = 0
    /\ bucket = Guard!FullBucket(0) /\ now = 0

ServerStep ==
    \/ \E r \in sends : ServerSendAccept(r) \/ ServerSendRefuse(r)
    \/ OtpSend
    \/ Tick

PageStep ==
    \/ \E t \in Texts \union {NoText} : Type(t)
    \/ ClickCheck
    \/ ClickSend
    \/ \E q \in checks : CheckAnswered(q) \/ CheckFailed(q)
    \/ \E s \in submits : Validated(s)
    \/ \E r \in sends : SendAnswered(r) \/ SendFailed(r)

Next == ServerStep \/ PageStep

\* Validation, the server and the browser's callbacks all run eventually;
\* the user and the load test need not do anything.
Fairness ==
    /\ \A s \in [id : Ids, text : Texts] : WF_vars(Validated(s))
    /\ \A q \in Texts : WF_vars(CheckAnswered(q) \/ CheckFailed(q))
    /\ \A i \in Ids : WF_vars(\E r \in sends :
                                r.id = i /\ (ServerSendAccept(r) \/ ServerSendRefuse(r)))
    /\ \A i \in Ids : WF_vars(\E r \in sends :
                                r.id = i /\ (SendAnswered(r) \/ SendFailed(r)))

Spec == Init /\ [][Next]_vars /\ Fairness

-----------------------------------------------------------------------------
(* Properties                                                              *)

\* The page never stays in "Sending..." for good: whichever way each send
\* ends, onSubmit's finally re-enables the form.
SendingSettles == isSending ~> ~isSending

\* The preview shows the parts and price of the message in the form: a
\* preview is never left standing for a body the user has since changed
\* or already sent.
PreviewMatchesForm == checkResult # NoResult => checkResult = form

====
