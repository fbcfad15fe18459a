---------------------------- MODULE MfaEnrolment ----------------------------
(***************************************************************************)
(* The second factor of one account: the page that sets it up and takes    *)
(* it away (AccountSecurity.tsx), open in two browsers, and the handlers   *)
(* under /auth (router.py).  A handler loads the row of the account, and   *)
(* commits the columns whose value it has changed; others run in between.  *)
(*                                                                         *)
(* Secrets are numbered, and a secret stands for the codes that an app     *)
(* knowing it computes.  A code is a secret and a slot, Totp for what the  *)
(* app computes, another one for a backup code of that enrolment.  Wrong   *)
(* codes and passwords and the throttle are refusals.                      *)
(***************************************************************************)
EXTENDS Naturals, FiniteSets

CONSTANTS
    Browsers,
    Elsewhere,      \* where nobody waits for an answer, or another page does
    Slots,          \* the backup codes of one enrolment
    Totp,           \* the slot of what an app computes
    MaxSecrets,     \* bound of the model: secrets made
    MaxMfaRequests     \* bound of the model: requests sent

ASSUME MfaAssumption ==
    /\ Elsewhere \notin Browsers /\ Totp \notin Slots
    /\ MaxSecrets \in Nat \ {0} /\ MaxMfaRequests \in Nat

Secrets == 1 .. MaxSecrets
BackupCodes == Secrets \X Slots
Codes == Secrets \X (Slots \union {Totp})
NoSecret == 0
OfApp(s) == <<s, Totp>>
Rows == [enabled: BOOLEAN, secret: Secrets \union {NoSecret}, codes: SUBSET BackupCodes]
Off == [enabled |-> FALSE, secret |-> NoSecret, codes |-> {}]

VARIABLES
    row,         \* mfa_enabled, totp_secret and mfa_backup_codes of the account
    mfaEnabled,  \* what each browser knows of the account (the query ['me'])
    setup,       \* the secret each browser shows, if any
    busy,
    app,         \* the secrets scanned by the user's authenticator
    noted,       \* the backup codes shown to the user
    mfaRequests,    \* on their way
    made,        \* secrets made
    mfaSent,        \* counter that bounds the model
    accepted,    \* history: the backup codes that were accepted
    twice,       \* history: those accepted more than once
    interleaved   \* history: a handler committed while another had loaded the row

mfaVars == <<row, mfaEnabled, setup, busy, app, noted, mfaRequests, made, mfaSent,
           accepted, twice, interleaved>>
browserState == <<mfaEnabled, setup, busy, app, noted>>
backend == <<row, made, accepted, twice, interleaved>>

MfaOps == {"setup", "enable", "disable", "verify", "reset"}

\* The account is not enrolled, or it is, with its first secret.
MfaInit ==
    /\ made \in {0, 1}
    /\ row = [enabled |-> made = 1, secret |-> made, codes |-> (1 .. made) \X Slots]
    /\ app = 1 .. made /\ noted = row.codes
    /\ mfaEnabled = [b \in Browsers |-> row.enabled]
    /\ setup = [b \in Browsers |-> NoSecret] /\ busy = [b \in Browsers |-> FALSE]
    /\ mfaRequests = {} /\ mfaSent = 0
    /\ accepted = {} /\ twice = {} /\ interleaved = FALSE

-----------------------------------------------------------------------------
(* The page                                                                *)

MfaRequest(op, b, code) ==
    /\ mfaSent < MaxMfaRequests /\ mfaSent' = mfaSent + 1
    /\ mfaRequests' = mfaRequests \union
         {[n |-> CHOOSE i \in 0 .. mfaSent : \A r \in mfaRequests : r.n # i,
           op |-> op, from |-> b, code |-> code, phase |-> "sent", row |-> Off]}
    /\ UNCHANGED <<mfaEnabled, setup, app, noted, backend>>

Waits(b) == ~busy[b] /\ busy' = [busy EXCEPT ![b] = TRUE]

startSetup(b) ==
    /\ ~mfaEnabled[b] /\ setup[b] = NoSecret
    /\ Waits(b) /\ MfaRequest("setup", b, OfApp(NoSecret))

\* The code typed is one the user's app computes, of this secret or another.
confirmEnable(b, s) ==
    /\ setup[b] # NoSecret /\ s \in app
    /\ Waits(b) /\ MfaRequest("enable", b, OfApp(s))

\* Codes the user can type: of the app, or backup codes that were shown.
CodesAtHand == (app \X {Totp}) \union noted

handleDisable(b, c) ==
    /\ mfaEnabled[b] /\ c \in CodesAtHand
    /\ Waits(b) /\ MfaRequest("disable", b, c)

Scan(b) ==
    /\ setup[b] \notin app \union {NoSecret}
    /\ app' = app \union {setup[b]}
    /\ UNCHANGED <<mfaEnabled, setup, busy, noted, mfaRequests, mfaSent, backend>>

\* The query ['me'] is answered, late or not.
Known(b) ==
    /\ mfaEnabled' = [mfaEnabled EXCEPT ![b] = row.enabled]
    /\ UNCHANGED <<setup, busy, app, noted, mfaRequests, mfaSent, backend>>

\* The page is left and opened again; its requests go on.
Leave(b) ==
    /\ setup' = [setup EXCEPT ![b] = NoSecret] /\ busy' = [busy EXCEPT ![b] = FALSE]
    /\ mfaRequests' = {IF r.from = b THEN [r EXCEPT !.from = Elsewhere] ELSE r : r \in mfaRequests}
    /\ UNCHANGED <<mfaEnabled, app, noted, mfaSent, backend>>

\* A sign-in that has come to the code, and the administrator's reset.
Verify(c) ==
    /\ c \in CodesAtHand
    /\ MfaRequest("verify", Elsewhere, c) /\ UNCHANGED busy
Reset == MfaRequest("reset", Elsewhere, OfApp(NoSecret)) /\ UNCHANGED busy

-----------------------------------------------------------------------------
(* The handlers                                                            *)

\* Mutant: the code stays among the unused ones.
CodeStays(codes, c) == codes

\* _check_mfa_code: a code of the secret, or a backup code, which it removes.
CodeAccepted(r, c) == (r.secret # NoSecret /\ c = OfApp(r.secret)) \/ c \in r.codes
Consumed(codes, c) == codes \ {c}

\* Mutant: mfa_setup makes a new secret for an account that has MFA on.
SetsUpAlways(r) == TRUE
MayBeSetUp(r) == ~r.enabled

\* The checks a handler makes on the row it has loaded.
Allowed(r, l) ==
    CASE r.op = "setup"   -> MayBeSetUp(l)
      [] r.op = "enable"  -> ~l.enabled /\ l.secret # NoSecret /\ r.code = OfApp(l.secret)
      [] r.op = "disable" -> l.enabled /\ CodeAccepted(l, r.code)
      [] r.op = "verify"  -> l.enabled /\ l.secret # NoSecret /\ CodeAccepted(l, r.code)
      [] r.op = "reset"   -> TRUE

Load(r) ==
    /\ r.phase = "sent" /\ Allowed(r, row)
    /\ mfaRequests' = (mfaRequests \ {r}) \union {[r EXCEPT !.phase = "loaded", !.row = row]}
    /\ UNCHANGED <<browserState, mfaSent, backend>>

\* What the handler makes of the row it has loaded.
Changed(r) ==
    CASE r.op = "setup"   -> [r.row EXCEPT !.secret = made + 1]
      [] r.op = "enable"  -> [r.row EXCEPT !.enabled = TRUE, !.codes = {r.row.secret} \X Slots]
      [] r.op = "verify"  -> [r.row EXCEPT !.codes = Consumed(@, r.code)]
      [] OTHER            -> Off

\* Only the columns that differ from what was loaded are written.
Commit(r) ==
    /\ r.phase = "loaded"
    /\ r.op = "setup" => made < MaxSecrets
    /\ LET new == Changed(r) IN
       /\ row' = [col \in DOMAIN row |-> IF new[col] # r.row[col] THEN new[col] ELSE row[col]]
       /\ mfaRequests' = (mfaRequests \ {r}) \union
            (IF r.from = Elsewhere THEN {}
             ELSE {[r EXCEPT !.phase = "done", !.row = new, !.code = OfApp(NoSecret)]})
    /\ made' = IF r.op = "setup" THEN made + 1 ELSE made
    /\ LET used == IF r.op \in {"verify", "disable"} THEN {r.code} \intersect r.row.codes ELSE {} IN
       /\ accepted' = accepted \union used
       /\ twice' = twice \union (accepted \intersect used)
    /\ interleaved' = (interleaved \/ \E x \in mfaRequests \ {r} : x.phase = "loaded")
    /\ UNCHANGED <<browserState, mfaSent>>

-----------------------------------------------------------------------------
Free(r) == busy' = [b \in Browsers |-> busy[b] /\ b # r.from]

\* The answer reaches the page; backup codes are shown this once.
MfaAnswered(r) ==
    /\ r.phase = "done" /\ mfaRequests' = mfaRequests \ {r} /\ Free(r)
    /\ setup' = [b \in Browsers |->
                    IF b # r.from THEN setup[b]
                    ELSE CASE r.op = "setup"  -> r.row.secret
                           [] r.op = "enable" -> NoSecret
                           [] OTHER           -> setup[b]]
    /\ noted' = IF r.op = "enable" /\ r.from # Elsewhere THEN noted \union r.row.codes ELSE noted
    /\ UNCHANGED <<mfaEnabled, app, mfaSent, backend>>

\* Refused, or lost on the way to or from the backend.
Failed(r) ==
    /\ r.phase # "loaded" /\ mfaRequests' = mfaRequests \ {r} /\ Free(r)
    /\ UNCHANGED <<mfaEnabled, setup, app, noted, mfaSent, backend>>

MfaNext ==
    \/ \E b \in Browsers : startSetup(b) \/ Scan(b) \/ Known(b) \/ Leave(b)
    \/ \E b \in Browsers, s \in Secrets : confirmEnable(b, s)
    \/ \E b \in Browsers, c \in Codes : handleDisable(b, c)
    \/ \E c \in Codes : Verify(c)
    \/ Reset
    \/ \E r \in mfaRequests : Load(r) \/ Commit(r) \/ MfaAnswered(r) \/ Failed(r)

MfaSpec == MfaInit /\ [][MfaNext]_mfaVars

-----------------------------------------------------------------------------
MfaTypeOK ==
    /\ row \in Rows
    /\ mfaEnabled \in [Browsers -> BOOLEAN] /\ busy \in [Browsers -> BOOLEAN]
    /\ setup \in [Browsers -> Secrets \union {NoSecret}]
    /\ app \subseteq Secrets /\ noted \subseteq BackupCodes
    /\ \A r \in mfaRequests : r.op \in MfaOps /\ r.row \in Rows
    /\ made \in 0 .. MaxSecrets /\ mfaSent \in 0 .. MaxMfaRequests
    /\ accepted \subseteq BackupCodes /\ twice \subseteq BackupCodes
    /\ interleaved \in BOOLEAN

\* An account that asks for a code can be signed in to: the user's app knows its
\* secret, whichever browser showed it and whatever was set up, taken away and
\* reset before.  A handler that loaded the row before another one committed may
\* leave it on with a secret nobody has, or none.
StillReachable == row.enabled /\ ~interleaved => row.secret \in app

\* "Each code works once": a backup code that was accepted is not accepted
\* again, unless handlers overlapped: then both may accept it, and one may write
\* it back to the list.
BackupCodesOnce == ~interleaved => twice = {} /\ row.codes \intersect accepted = {}
=============================================================================
